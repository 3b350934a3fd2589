----------------------------- MODULE TestRunner -----------------------------
(* lib/test-runner.py: the runner of a declarative test.  A declaration is a *)
(* sequence of steps, each a command with expectations, and expectations of  *)
(* the workspace at the end; arguments and expectations may refer to what an *)
(* earlier step was observed to do.  The declaration's references are        *)
(* validated before any command; its expectations only when they are used.   *)
(* Texts stand for what a command prints or writes, At[t] for what the one   *)
(* JSON pointer of the declarations finds in t; stdout and stderr are one    *)
(* channel, the predicates other than eq and ne behave as these do, and an   *)
(* object holds at most one.                                                 *)
EXTENDS Naturals, Sequences

CONSTANTS
    Id,            \* step identifiers
    Text,          \* what a stream, a file or a JSON string can hold
    Object,        \* JSON objects
    Reads,         \* the predicate an object is, if compare() is given it
    At,            \* what the JSON pointer finds in a text
    Declarations,  \* the declarations to run
    None           \* not a member of Id

Code      == {"exit 0", "exit 1"}  \* exit codes: numbers, never text
Missing   == "missing"             \* nothing observed, or not found in it
NeedIndex == "need index"          \* the pointer names a key, the text an array
Directory == "directory"           \* what a file path may turn out to be

ASSUME ValuesDistinct ==
    /\ None \notin Id \union {"pass", "fail", "invalid"}
    /\ Text \cap (Code \union Object \union {Missing, NeedIndex, Directory}) = {}
    /\ Object \cap (Code \union {Missing, NeedIndex, Directory}) = {}
    /\ At \in [Text -> Text \union Code \union Object \union {Missing, NeedIndex}]
    /\ Reads \in [Object -> [op : {"eq", "ne", "malformed"}, is : Text \union Code \union Object]]

\* An operand is a literal, or a reference to a field of an earlier step.
Lit(v)    == [from |-> None, is |-> v]
Ref(s, f) == [from |-> s, is |-> f]
Expect(on, op, operand) == [on |-> on, op |-> op, operand |-> operand]

Operand ==
    [from : {None}, is : Text \union Code \union Object]
    \union [from : Id, is : {"exitCode", "stdout", "json"}]

Predicate == {"is", "eq", "ne", "malformed"}

\* Only exit codes and JSON values have bare expectations ("is").
Expectation ==
    [on : {"exitCode", "json", "unknown"}, op : Predicate, operand : Operand]
    \union [on : {"stdout"}, op : Predicate \ {"is"}, operand : Operand]
    \union [on : {"file"}, op : (Predicate \ {"is"}) \union {"exists", "absent"}, operand : Operand]

ASSUME DeclarationsAssumption ==
    \A d \in Declarations :
        /\ d.steps \in Seq([id : Id, arg : Operand, expect : SUBSET Expectation])
        /\ d.steps # <<>>
        /\ d.expect \in SUBSET Expectation
        /\ d.fixture \in Text \union {Missing}

\* The failure recorded for a step that produced no exit code.
Execution == Expect("execution", "is", Lit(Missing))

VARIABLES
    test,      \* the declaration being run
    pc, i,     \* where test() is, and the index of the next step
    obs,       \* observations of each step
    file,      \* the file of the workspace that expectations name
    failures,  \* <<step, expectation>> recorded as failed
    status,    \* the verdict; result.json is written on "pass" only
    ran,       \* history: the steps whose command was launched
    left       \* history: the file as each step left it

vars == <<test, pc, i, obs, file, failures, status, ran, left>>

Steps == 1..Len(test.steps)
step  == test.steps[i]

NotSeen == [exit |-> Missing, out |-> Missing]

\* materialize_refs(): what an operand stands for.  A pointer that cannot be
\* followed, for whatever reason, makes a reference unavailable.
Resolve(o, x) ==
    CASE x.from = None     -> x.is
      [] x.is = "exitCode" -> o[x.from].exit
      [] x.is = "stdout"   -> o[x.from].out
      [] x.is = "json"     -> IF o[x.from].out \in Text /\ At[o[x.from].out] # NeedIndex
                              THEN At[o[x.from].out] ELSE Missing

\* A bare value is compared for equality, unless it is an object, written so
\* or brought in by a reference: compare() takes its keys for predicates.
Reading(op, want) ==
    IF op = "is" /\ want \in Object THEN Reads[want] ELSE [op |-> op, is |-> want]

\* check() and compare(): an unavailable reference fails before the predicate
\* is looked at.
Against(o, actual, e) ==
    LET want == Resolve(o, e.operand)
        read == Reading(e.op, want)
    IN  CASE want = Missing                            -> "failed"
          [] want # Missing /\ read.op = "malformed"   -> "invalid"
          [] OTHER -> IF (actual = read.is) <=> (read.op # "ne") THEN "holds" ELSE "failed"

\* verify_files(): presence first, then the content of what is there.
FileVerdict(o, f, e) ==
    CASE e.op = "exists" -> IF f # Missing THEN "holds" ELSE "failed"
      [] e.op = "absent" -> IF f = Missing THEN "holds" ELSE "failed"
      [] OTHER -> CASE f = Missing   -> "failed"
                    [] f = Directory -> "invalid"
                    [] OTHER         -> Against(o, f, e)

Verdict(o, s, f, e) ==
    CASE e.on = "exitCode" -> Against(o, o[s].exit, e)
      [] e.on = "stdout"   -> Against(o, o[s].out, e)
      [] e.on = "json"     -> CASE At[o[s].out] = Missing   -> "failed"
                                [] At[o[s].out] = NeedIndex -> "invalid"
                                [] OTHER -> Against(o, At[o[s].out], e)
      [] e.on = "file"     -> FileVerdict(o, f, e)

\* A plausible slip: no expectation of a step that declares none.
EffectiveMutant(s) == s.expect

\* A step that says nothing of its exit code expects 0.
Effective(s) ==
    IF \E e \in s.expect : e.on = "exitCode"
    THEN s.expect
    ELSE s.expect \union {Expect("exitCode", "is", Lit("exit 0"))}

Operands(s) == {s.arg} \union {e.operand : e \in s.expect}

Seen(k) == {test.steps[j].id : j \in 1..(k - 1)}

\* A plausible slip: a reference may name any step of the declaration.
AcceptedMutant ==
    /\ \A k \in Steps :
          /\ test.steps[k].id \notin Seen(k)
          /\ \A x \in Operands(test.steps[k]) : x.from \in Seen(Len(test.steps) + 1) \union {None}
    /\ \A e \in test.expect : e.operand.from \in Seen(Len(test.steps) + 1) \union {None}

\* The first pass over the declaration, before any side effect.
Accepted ==
    /\ \A k \in Steps :
          /\ test.steps[k].id \notin Seen(k)
          /\ \A x \in Operands(test.steps[k]) : x.from \in Seen(k) \union {None}
    /\ \A e \in test.expect : e.operand.from \in Seen(Len(test.steps) + 1) \union {None}

Unavailable == step.arg.from # None /\ Resolve(obs, step.arg) \notin Text

-----------------------------------------------------------------------------
Init ==
    /\ test \in Declarations
    /\ pc = "validate" /\ i = 1
    /\ obs = [s \in Id |-> NotSeen]
    /\ left = [s \in Id |-> Missing]
    /\ file = Missing
    /\ failures = {} /\ ran = {}
    /\ status = None

\* InvalidSpec leaves test(): whatever had failed before is dropped with it.
Reject ==
    /\ pc' = "done" /\ status' = "invalid" /\ failures' = {}
    /\ UNCHANGED <<test, i>>

\* A plausible slip: a failed step ends the sequence.
AdvanceMutant(fails) ==
    /\ failures' = failures \union fails
    /\ i' = i + 1
    /\ pc' = IF i = Len(test.steps) \/ fails # {} THEN "final" ELSE "step"
    /\ UNCHANGED <<test, status>>

\* The loop goes on with the next step, whatever this one did.
Advance(fails) ==
    /\ failures' = failures \union fails
    /\ i' = i + 1
    /\ pc' = IF i = Len(test.steps) THEN "final" ELSE "step"
    /\ UNCHANGED <<test, status>>

Validate ==
    /\ pc = "validate"
    /\ \/ /\ Accepted
          /\ pc' = "step" /\ file' = test.fixture
          /\ UNCHANGED <<test, i, failures, status>>
       \/ /\ ~Accepted
          /\ Reject /\ UNCHANGED file
    /\ UNCHANGED <<obs, ran, left>>

\* An argument that refers to nothing, or to something that is not a string.
SkipStep ==
    /\ pc = "step" /\ Unavailable
    /\ Advance({<<step.id, Execution>>})
    /\ UNCHANGED <<obs, file, ran, left>>

\* The step's expectations name an observation that does not exist: noticed
\* only now, after the steps before it have run.
RejectStep ==
    /\ pc = "step" /\ ~Unavailable
    /\ \E e \in step.expect : e.on = "unknown"
    /\ Reject
    /\ UNCHANGED <<obs, file, ran, left>>

Launch ==
    /\ pc = "step" /\ ~Unavailable
    /\ \A e \in step.expect : e.on # "unknown"
    /\ ran' = ran \union {step.id}

\* The command is killed at its timeout; what it had printed is kept.
TimesOut(out, f) ==
    /\ Launch
    /\ obs' = [obs EXCEPT ![step.id] = [exit |-> Missing, out |-> out]]
    /\ file' = f /\ left' = [left EXCEPT ![step.id] = f]
    /\ Advance({<<step.id, Execution>>})

CannotLaunch ==
    /\ Launch
    /\ Advance({<<step.id, Execution>>})
    /\ left' = [left EXCEPT ![step.id] = file]
    /\ UNCHANGED <<obs, file>>

\* The command exits: all expectations of the step are checked.
Exits(code, out, f) ==
    LET seen      == [obs EXCEPT ![step.id] = [exit |-> code, out |-> out]]
        having(v) == {e \in Effective(step) : Verdict(seen, step.id, f, e) = v}
    IN
    /\ Launch
    /\ obs' = seen
    /\ file' = f /\ left' = [left EXCEPT ![step.id] = f]
    /\ \/ having("invalid") # {} /\ Reject
       \/ having("invalid") = {} /\ Advance({<<step.id, e>> : e \in having("failed")})

\* The workspace expectations of the declaration, and the verdict.
Finalise ==
    LET having(v) == {e \in test.expect : Verdict(obs, None, file, e) = v}
        wrong     == failures \union {<<None, e>> : e \in having("failed")}
    IN
    /\ pc = "final"
    /\ \/ /\ \E e \in test.expect : e.on # "file"
          /\ Reject
       \/ /\ \A e \in test.expect : e.on = "file"
          /\ having("invalid") # {}
          /\ Reject
       \/ /\ \A e \in test.expect : e.on = "file"
          /\ having("invalid") = {}
          /\ failures' = wrong
          /\ status' = IF wrong = {} THEN "pass" ELSE "fail"
          /\ pc' = "done"
          /\ UNCHANGED <<test, i>>
    /\ UNCHANGED <<obs, file, ran, left>>

\* The runner has exited.
Done == pc = "done" /\ UNCHANGED vars

Workspace == Text \union {Missing, Directory}

Next ==
    \/ Validate \/ SkipStep \/ RejectStep \/ CannotLaunch \/ Finalise \/ Done
    \/ \E out \in Text, f \in Workspace :
          TimesOut(out, f) \/ \E code \in Code : Exits(code, out, f)

Spec == Init /\ [][Next]_vars

-----------------------------------------------------------------------------
(* Properties.                                                              *)

\* The runner's variables have the shapes the code gives them; it reaches the
\* workspace expectations only after the last step.
TypeOK ==
    /\ pc \in {"validate", "step", "final", "done"}
    /\ i \in 1..(Len(test.steps) + 1)
    /\ pc = "final" => i = Len(test.steps) + 1
    /\ \A s \in Id : obs[s].exit \in Code \union {Missing} /\ obs[s].out \in Text \union {Missing}
    /\ file \in Workspace
    /\ status \in {None, "pass", "fail", "invalid"}
    /\ status = None <=> pc # "done"

\* What an expectation says, of a step's observations and the file it left:
\* both sides are there, and they are related as the predicate demands.
Actual(s, f, e) ==
    CASE e.on = "exitCode" -> obs[s].exit
      [] e.on = "stdout"   -> obs[s].out
      [] e.on = "json"     -> Resolve(obs, Ref(s, "json"))
      [] e.on = "file"     -> f

\* A bare value means equality; a bare object, even one that was observed,
\* means the predicate it spells.
Satisfied(s, f, e) ==
    LET actual == Actual(s, f, e)
        want   == Resolve(obs, e.operand)
    IN
    CASE e.op = "exists" -> f # Missing
      [] e.op = "absent" -> f = Missing
      [] e.op = "is" /\ want \in Object ->
            /\ actual # Missing
            /\ \/ Reads[want].op = "eq" /\ actual = Reads[want].is
               \/ Reads[want].op = "ne" /\ actual # Reads[want].is
      [] OTHER ->
            /\ actual # Missing /\ want # Missing
            /\ (actual = want) <=> (e.op # "ne")

\* test() returns "pass" only for a run in which every step was launched and
\* exited, with 0 where nothing else was asked, and every expectation of the
\* declaration, well formed, holds of what was observed.  A bare reference to
\* something other than an object was therefore met exactly.  One to an object
\* was not compared with that object at all, though declarative-tests.md:87-89
\* call a bare value exact: Satisfied has the predicate the object spells.
PassSound ==
    status = "pass" =>
        /\ \A k \in Steps : LET s == test.steps[k] IN
              /\ s.id \in ran /\ obs[s.id].exit # Missing
              /\ (\A e \in s.expect : e.on # "exitCode") => obs[s.id].exit = "exit 0"
              /\ \A e \in s.expect :
                    /\ e.on # "unknown" /\ e.op # "malformed"
                    /\ Satisfied(s.id, left[s.id], e)
        /\ \A e \in test.expect : e.op # "malformed" /\ Satisfied(None, file, e)

\* What a verdict reports is exactly what went wrong: when test() returns, a
\* step was left out only because its argument was not to be had ("all steps
\* are attempted even after assertion failures", declarative-tests.md:79), and
\* the failures are the steps without an exit code and the unsatisfied
\* expectations.  A test that InvalidSpec ends has no verdict and reports none
\* of the failures it had found (main, lines 411-413).
AllReported ==
    status \in {"pass", "fail"} =>
        /\ \A k \in Steps : LET s == test.steps[k] IN
              s.id \in ran \/ (s.arg.from # None /\ Resolve(obs, s.arg) \notin Text)
        /\ failures =
              {<<test.steps[k].id, Execution>> :
                  k \in {j \in Steps : obs[test.steps[j].id].exit = Missing}}
              \union (UNION {{<<test.steps[k].id, e>> :
                  e \in {x \in Effective(test.steps[k]) :
                           ~Satisfied(test.steps[k].id, left[test.steps[k].id], x)}} :
                  k \in {j \in Steps : obs[test.steps[j].id].exit # Missing}})
              \union {<<None, e>> : e \in {x \in test.expect : ~Satisfied(None, file, x)}}

\* A declaration that uses an id twice, or refers to a step that is not an
\* earlier one, is rejected before any command executes.
RejectedUntouched ==
    LET names(k, x) == x.from # None => \E j \in 1..(k - 1) : test.steps[j].id = x.from
    IN  \/ \E j, k \in Steps : j # k /\ test.steps[j].id = test.steps[k].id
        \/ \E k \in Steps : \E x \in Operands(test.steps[k]) : ~names(k, x)
        \/ \E e \in test.expect : ~names(Len(test.steps) + 1, e.operand)
        => ran = {} /\ status \in {None, "invalid"}

=============================================================================
