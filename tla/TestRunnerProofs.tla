-------------------------- MODULE TestRunnerProofs --------------------------
(* For every set of texts, JSON pointer and set of well-shaped declarations  *)
(* of any length: the runner's types, that a declaration with a bad          *)
(* reference runs no command, that what test() reports is exactly what went  *)
(* wrong, and that a pass is a pass of everything declared.                  *)
EXTENDS TestRunner, TLAPS

StepShape == [id : Id, arg : Operand, expect : SUBSET Expectation]

\* Types the proof needs beyond TypeOK.
Typed ==
    /\ TypeOK
    /\ test \in Declarations
    /\ obs \in [Id -> [exit : Code \union {Missing}, out : Text \union {Missing}]]
    /\ left \in [Id -> Workspace]
    /\ \A s \in Id : obs[s].exit # Missing => obs[s].out \in Text
    /\ pc = "step" => i \in Steps

\* The steps still ahead have left no trace.
Ahead == \A k \in Steps : k >= i => test.steps[k].id \notin ran /\ obs[test.steps[k].id] = NotSeen

\* A step behind was launched, or could not be; if it exited, each of its
\* expectations could be decided.
BehindAt(k) ==
    LET s == test.steps[k] IN
        /\ IF s.id \in ran
           THEN \A e \in s.expect : e.on # "unknown"
           ELSE /\ s.arg.from # None /\ Resolve(obs, s.arg) \notin Text
                /\ obs[s.id] = NotSeen
        /\ obs[s.id].exit # Missing =>
              \A e \in Effective(s) : Verdict(obs, s.id, left[s.id], e) # "invalid"

Behind == \A k \in 1..(i - 1) : BehindAt(k)

\* What step s has to be reported for, by its observations o and what it left.
Failed(o, l, s) ==
    IF o[s.id].exit = Missing
    THEN {<<s.id, Execution>>}
    ELSE {<<s.id, e>> : e \in {x \in Effective(s) : Verdict(o, s.id, l[s.id], x) = "failed"}}

Recorded == failures = UNION {Failed(obs, left, test.steps[k]) : k \in 1..(i - 1)}

\* Nothing was run, and nothing will be.
Untouched == ran = {} /\ status \in {None, "invalid"} /\ pc \in {"validate", "done"}

IInv ==
    /\ Typed
    /\ pc = "validate" => ran = {} /\ failures = {} /\ i = 1 /\ \A s \in Id : obs[s] = NotSeen
    /\ Accepted \/ Untouched
    /\ pc \in {"step", "final"} => Ahead /\ Behind /\ Recorded
    /\ PassSound /\ AllReported

-----------------------------------------------------------------------------
(* Declarations, operands and verdicts.                                      *)

LEMMA Shapes ==
  ASSUME test \in Declarations
  PROVE  /\ Len(test.steps) \in Nat \ {0}
         /\ \A k \in Steps : /\ test.steps[k].id \in Id /\ test.steps[k].arg \in Operand
                             /\ Effective(test.steps[k]) \subseteq Expectation
                             /\ test.steps[k].expect \subseteq Effective(test.steps[k])
         /\ test.expect \subseteq Expectation /\ test.fixture \in Workspace
<1>1. /\ test.steps \in Seq(StepShape) /\ test.steps # <<>>
      /\ test.expect \in SUBSET Expectation /\ test.fixture \in Text \union {Missing}
  BY DeclarationsAssumption DEF StepShape
<1>2. Len(test.steps) \in Nat \ {0} /\ \A k \in Steps : test.steps[k] \in StepShape
  BY <1>1 DEF Steps
<1>3. Expect("exitCode", "is", Lit("exit 0")) \in Expectation
  BY DEF Expect, Lit, Expectation, Operand, Predicate, Code
<1>4. \A k \in Steps : /\ test.steps[k].id \in Id /\ test.steps[k].arg \in Operand
                       /\ test.steps[k].expect \subseteq Expectation
  BY <1>2 DEF StepShape
<1>5. \A k \in Steps : /\ Effective(test.steps[k]) \subseteq Expectation
                       /\ test.steps[k].expect \subseteq Effective(test.steps[k])
  BY <1>3, <1>4 DEF Effective
<1> QED
  BY <1>1, <1>2, <1>4, <1>5 DEF Workspace

\* The only expectation a step has that it does not declare refers to nothing.
LEMMA EffectiveIs ==
  ASSUME NEW s, NEW e \in Effective(s)
  PROVE  e \in s.expect \/ (e.on = "exitCode" /\ e.operand.from = None)
<1>1. e \in s.expect \/ e = Expect("exitCode", "is", Lit("exit 0"))
  BY DEF Effective
<1>2. /\ Expect("exitCode", "is", Lit("exit 0")).on = "exitCode"
      /\ Expect("exitCode", "is", Lit("exit 0")).operand.from = None
  BY DEF Expect, Lit
<1> QED
  BY <1>1, <1>2

LEMMA Values ==
  /\ None \notin Id /\ None \notin {"pass", "fail", "invalid"}
  /\ Missing \notin Text /\ NeedIndex \notin Text /\ Directory \notin Text
  /\ Missing \notin Code /\ NeedIndex \notin Code /\ Missing # NeedIndex /\ Missing # Directory
  /\ Missing \notin Object /\ Text \intersect Code = {} /\ Object \intersect Code = {}
BY ValuesDistinct DEF Code, Missing, NeedIndex, Directory

\* References are read from the observations of the step they name.
LEMMA ResolveAgrees ==
  ASSUME NEW o, NEW p, NEW x \in Operand, x.from # None => o[x.from] = p[x.from]
  PROVE  Resolve(o, x) = Resolve(p, x)
BY DEF Resolve

LEMMA VerdictAgrees ==
  ASSUME NEW o, NEW p, NEW s, NEW f, NEW e \in Expectation, e.on # "unknown",
         e.operand.from # None => o[e.operand.from] = p[e.operand.from],
         e.on # "file" => o[s] = p[s]
  PROVE  Verdict(o, s, f, e) = Verdict(p, s, f, e)
<1>1. e.operand \in Operand
  BY DEF Expectation
<1>2. Resolve(o, e.operand) = Resolve(p, e.operand)
  BY <1>1, ResolveAgrees
<1>3. \A actual : Against(o, actual, e) = Against(p, actual, e)
  BY <1>2 DEF Against
<1>4. FileVerdict(o, f, e) = FileVerdict(p, f, e)
  BY <1>3 DEF FileVerdict
<1>5. CASE e.on = "file"
  BY <1>4, <1>5 DEF Verdict
<1>6. CASE e.on # "file"
  BY <1>3, <1>6 DEF Verdict, Expectation
<1> QED
  BY <1>5, <1>6

\* check(), read as a relation: unless a predicate is refused, "failed" is
\* the failure of what the expectation says.
LEMMA VerdictMeans ==
  ASSUME NEW s \in Id \union {None}, NEW f \in Workspace, NEW e \in Expectation,
         e.on # "unknown", s = None => e.on = "file",
         s # None => obs[s].exit \in Code /\ obs[s].out \in Text,
         Verdict(obs, s, f, e) # "invalid"
  PROVE  /\ Verdict(obs, s, f, e) = "failed" <=> ~Satisfied(s, f, e)
         /\ Verdict(obs, s, f, e) # "failed" => e.op # "malformed"
<1> DEFINE want == Resolve(obs, e.operand)
<1> DEFINE met(actual) ==
      IF e.op = "is" /\ want \in Object
      THEN \/ Reads[want].op = "eq" /\ actual = Reads[want].is
           \/ Reads[want].op = "ne" /\ actual # Reads[want].is
      ELSE want # Missing /\ ((actual = want) <=> (e.op # "ne"))
<1>1. ASSUME NEW actual, actual # Missing, Against(obs, actual, e) # "invalid"
      PROVE  /\ Against(obs, actual, e) = "failed" <=> ~met(actual)
             /\ Against(obs, actual, e) # "failed" => e.op # "malformed"
  <2>1. CASE e.op = "is" /\ want \in Object
    <3>1. want # Missing /\ Reads[want].op \in {"eq", "ne", "malformed"}
      BY <2>1, Values, ValuesDistinct
    <3>2. Reading(e.op, want) = Reads[want]
      BY <2>1 DEF Reading
    <3>3. Reads[want].op # "malformed"
      BY <1>1, <3>1, <3>2 DEF Against
    <3>4. Against(obs, actual, e) = IF (actual = Reads[want].is) <=> (Reads[want].op # "ne")
                                    THEN "holds" ELSE "failed"
      BY <3>1, <3>2, <3>3 DEF Against
    <3> QED
      BY <2>1, <3>1, <3>3, <3>4
  <2>2. CASE ~(e.op = "is" /\ want \in Object)
    <3>1. Reading(e.op, want) = [op |-> e.op, is |-> want]
      BY <2>2 DEF Reading
    <3> QED
      BY <1>1, <2>2, <3>1 DEF Against
  <2> QED
    BY <2>1, <2>2
<1>2. ASSUME e.op \notin {"exists", "absent"}
      PROVE  Satisfied(s, f, e) <=> Actual(s, f, e) # Missing /\ met(Actual(s, f, e))
  <2>1. CASE e.op = "is" /\ want \in Object
    BY <1>2, <2>1 DEF Satisfied
  <2>2. CASE ~(e.op = "is" /\ want \in Object)
    BY <1>2, <2>2 DEF Satisfied
  <2> QED
    BY <2>1, <2>2
<1> HIDE DEF want, met
<1>3. CASE e.on \in {"exitCode", "stdout", "json"}
  <2>1. s \in Id /\ e.op \notin {"exists", "absent"}
    BY <1>3 DEF Expectation, Predicate
  <2>2. CASE e.on = "exitCode"
    <3>1. Actual(s, f, e) = obs[s].exit /\ obs[s].exit # Missing
      BY <2>1, <2>2, Values DEF Actual
    <3>2. Verdict(obs, s, f, e) = Against(obs, obs[s].exit, e)
      BY <2>2 DEF Verdict
    <3>3. Satisfied(s, f, e) <=> met(obs[s].exit)
      BY <1>2, <2>1, <3>1
    <3> QED
      BY <1>1, <3>1, <3>2, <3>3
  <2>3. CASE e.on = "stdout"
    <3>1. Actual(s, f, e) = obs[s].out /\ obs[s].out # Missing
      BY <2>1, <2>3, Values DEF Actual
    <3>2. Verdict(obs, s, f, e) = Against(obs, obs[s].out, e)
      BY <2>3 DEF Verdict
    <3>3. Satisfied(s, f, e) <=> met(obs[s].out)
      BY <1>2, <2>1, <3>1
    <3> QED
      BY <1>1, <3>1, <3>2, <3>3
  <2>4. CASE e.on = "json"
    <3> DEFINE found == At[obs[s].out]
    <3>1. Actual(s, f, e) = Resolve(obs, Ref(s, "json")) /\ obs[s].out \in Text
      BY <2>1, <2>4, Values DEF Actual
    <3>2. Resolve(obs, Ref(s, "json")) = IF found # NeedIndex THEN found ELSE Missing
      BY <2>1, <3>1, Values DEF Resolve, Ref
    <3>3. Verdict(obs, s, f, e) = CASE found = Missing   -> "failed"
                                    [] found = NeedIndex -> "invalid"
                                    [] OTHER -> Against(obs, found, e)
      BY <2>4 DEF Verdict
    <3> HIDE DEF found
    <3>4. found # NeedIndex
      BY <3>3, Values
    <3>5. Satisfied(s, f, e) <=> found # Missing /\ met(found)
      BY <1>2, <2>1, <3>1, <3>2, <3>4
    <3>6. CASE found = Missing
      BY <3>3, <3>5, <3>6
    <3>7. CASE found # Missing
      <4>1. Verdict(obs, s, f, e) = Against(obs, found, e)
        BY <3>3, <3>4, <3>7
      <4> QED
        BY <1>1, <3>5, <3>7, <4>1
    <3> QED
      BY <3>6, <3>7
  <2> QED
    BY <1>3, <2>2, <2>3, <2>4
<1>4. CASE e.on = "file"
  <2>1. Verdict(obs, s, f, e) = FileVerdict(obs, f, e) /\ Actual(s, f, e) = f
    BY <1>4 DEF Verdict, Actual
  <2>2. CASE e.op \in {"exists", "absent"}
    BY <2>1, <2>2 DEF FileVerdict, Satisfied
  <2>3. CASE e.op \notin {"exists", "absent"}
    <3>1. Satisfied(s, f, e) <=> f # Missing /\ met(f)
      BY <1>2, <2>1, <2>3
    <3>2. FileVerdict(obs, f, e) = CASE f = Missing   -> "failed"
                                     [] f = Directory -> "invalid"
                                     [] OTHER         -> Against(obs, f, e)
      BY <2>3 DEF FileVerdict
    <3>3. CASE f = Missing
      BY <2>1, <3>1, <3>2, <3>3
    <3>4. CASE f # Missing
      <4>1. FileVerdict(obs, f, e) = Against(obs, f, e)
        BY <2>1, <3>2, <3>4
      <4> QED
        BY <1>1, <2>1, <3>1, <3>4, <4>1
    <3> QED
      BY <3>3, <3>4
  <2> QED
    BY <2>2, <2>3
<1> QED
  BY <1>3, <1>4 DEF Expectation

\* What the first pass over the declaration guarantees.
LEMMA References ==
  ASSUME test \in Declarations, Accepted, NEW k \in Steps
  PROVE  /\ \A j \in Steps : j # k => test.steps[j].id # test.steps[k].id
         /\ \A x \in Operands(test.steps[k]) :
              x.from # None => \E j \in 1..(k - 1) : test.steps[j].id = x.from
         /\ \A e \in Effective(test.steps[k]) :
              e.operand.from # None => \E j \in 1..(k - 1) : test.steps[j].id = e.operand.from
<1>1. Len(test.steps) \in Nat
  BY Shapes
<1>2. \A j \in Steps : j # k => test.steps[j].id # test.steps[k].id
  BY <1>1 DEF Accepted, Seen, Steps
<1>3. \A x \in Operands(test.steps[k]) :
        x.from # None => \E j \in 1..(k - 1) : test.steps[j].id = x.from
  BY DEF Accepted, Seen
<1>4. \A e \in Effective(test.steps[k]) :
        e.operand \in Operands(test.steps[k]) \/ e.operand.from = None
  BY EffectiveIs DEF Operands
<1> QED
  BY <1>2, <1>3, <1>4

-----------------------------------------------------------------------------
(* What one step leaves alone, and what it adds.                             *)

\* What was found out about the earlier steps stays as it is: their ids and
\* their references are those of earlier steps.
LEMMA BehindKept ==
  ASSUME Typed, Accepted, Behind, i \in Steps, NEW k \in 1..(i - 1), UNCHANGED test,
         \A s \in Id : s # step.id => obs'[s] = obs[s] /\ left'[s] = left[s] /\ (s \in ran' <=> s \in ran)
  PROVE  BehindAt(k)' /\ Failed(obs', left', test.steps[k]) = Failed(obs, left, test.steps[k])
<1> DEFINE s == test.steps[k]
<1>1. test \in Declarations /\ Len(test.steps) \in Nat /\ i \in Nat
  BY Shapes DEF Typed, Steps
<1>2. k \in Steps /\ k # i
  BY <1>1 DEF Steps
<1>3. /\ s.id \in Id /\ s.arg \in Operand /\ Effective(s) \subseteq Expectation
      /\ s.expect \subseteq Effective(s)
  BY <1>1, <1>2, Shapes
<1>4. s.id # step.id
  BY <1>1, <1>2, References DEF step
<1>5. \A j \in 1..(k - 1) : test.steps[j].id \in Id /\ test.steps[j].id # step.id
  <2>1. \A j \in 1..(k - 1) : j \in Steps /\ j # i
    BY <1>1 DEF Steps
  <2> QED
    BY <1>1, <2>1, Shapes, References DEF step
<1>6. s.arg.from # None => obs'[s.arg.from] = obs[s.arg.from]
  <2>1. s.arg \in Operands(s)
    BY DEF Operands
  <2> QED
    BY <1>1, <1>2, <1>5, <2>1, References
<1>7. Resolve(obs', s.arg) = Resolve(obs, s.arg)
  BY <1>3, <1>6, ResolveAgrees
<1>8. ASSUME NEW e \in Effective(s), e.on # "unknown"
      PROVE  Verdict(obs', s.id, left'[s.id], e) = Verdict(obs, s.id, left[s.id], e)
  <2>1. e.operand.from # None => obs'[e.operand.from] = obs[e.operand.from]
    BY <1>1, <1>2, <1>5, References
  <2>2. obs'[s.id] = obs[s.id] /\ left'[s.id] = left[s.id]
    BY <1>3, <1>4
  <2> QED
    BY <1>3, <1>8, <2>1, <2>2, VerdictAgrees
<1>9. BehindAt(k)
  BY DEF Behind
<1>10. obs[s.id].exit # Missing => \A e \in Effective(s) : e.on # "unknown"
  <2>1. obs[s.id].exit # Missing => \A e \in s.expect : e.on # "unknown"
    BY <1>9 DEF BehindAt, NotSeen
  <2> QED
    BY <2>1, EffectiveIs
<1>11. /\ obs'[s.id] = obs[s.id] /\ left'[s.id] = left[s.id]
       /\ s.id \in ran' <=> s.id \in ran
  BY <1>3, <1>4
<1>12. BehindAt(k)'
  BY <1>7, <1>8, <1>9, <1>10, <1>11 DEF BehindAt
<1>13. Failed(obs', left', s) = Failed(obs, left, s)
  <2>1. CASE obs[s.id].exit = Missing
    BY <1>11, <2>1 DEF Failed
  <2>2. CASE obs[s.id].exit # Missing
    <3>1. {x \in Effective(s) : Verdict(obs', s.id, left'[s.id], x) = "failed"}
            = {x \in Effective(s) : Verdict(obs, s.id, left[s.id], x) = "failed"}
      BY <1>8, <1>10, <2>2
    <3> QED
      BY <1>11, <2>2, <3>1 DEF Failed
  <2> QED
    BY <2>1, <2>2
<1> QED
  BY <1>12, <1>13

\* A step that advances, and records what it has to be reported for.
LEMMA AdvanceInv ==
  ASSUME IInv, pc = "step", NEW fails, Advance(fails), NEW k \in Nat, k = i,
         obs' \in [Id -> [exit : Code \union {Missing}, out : Text \union {Missing}]],
         left' \in [Id -> Workspace], file' \in Workspace,
         \A s \in Id : s # step.id => obs'[s] = obs[s] /\ left'[s] = left[s] /\ (s \in ran' <=> s \in ran),
         obs'[step.id].exit # Missing => obs'[step.id].out \in Text,
         BehindAt(k)', Failed(obs', left', step) = fails
  PROVE  IInv'
<1>1. /\ test \in Declarations /\ Len(test.steps) \in Nat \ {0} /\ i \in Steps
      /\ Accepted /\ Behind /\ Ahead /\ Recorded /\ status = None
  <2>1. test \in Declarations /\ i \in Steps /\ status = None
    BY DEF IInv, Typed, TypeOK
  <2>2. Accepted /\ Behind /\ Ahead /\ Recorded
    BY DEF IInv, Untouched
  <2> QED
    BY <2>1, <2>2, Shapes
<1>2. /\ UNCHANGED <<test, status>> /\ i' = i + 1 /\ failures' = failures \union fails
      /\ pc' = IF i = Len(test.steps) THEN "final" ELSE "step"
  BY DEF Advance
<1>3. Typed'
  <2>1. i' \in 1..(Len(test.steps) + 1) /\ (pc' = "step" => i' \in Steps)
        /\ (pc' = "final" => i' = Len(test.steps) + 1)
    BY <1>1, <1>2 DEF Steps
  <2>2. TypeOK'
    BY <1>1, <1>2, <2>1, Values DEF TypeOK
  <2>3. \A s \in Id : obs'[s].exit # Missing => obs'[s].out \in Text
    BY DEF IInv, Typed
  <2> QED
    BY <1>1, <1>2, <2>1, <2>2, <2>3 DEF Typed, Steps
<1>4. \A j \in 1..(i - 1) : BehindAt(j)' /\ Failed(obs', left', test.steps[j]) = Failed(obs, left, test.steps[j])
  BY <1>1, <1>2, BehindKept DEF IInv
<1>5. i \in Nat /\ 1..(i' - 1) = 1..(i - 1) \union {k}
  BY <1>1, <1>2 DEF Steps
<1>6. Behind'
  BY <1>4, <1>5 DEF Behind
<1>7. Recorded'
  <2> DEFINE old(j) == Failed(obs, left, test.steps[j])
  <2> DEFINE new(j) == Failed(obs', left', test.steps[j])
  <2>1. new(k) = fails /\ \A j \in 1..(i - 1) : new(j) = old(j)
    BY <1>4 DEF step
  <2>2. failures = UNION {old(j) : j \in 1..(i - 1)}
    BY <1>1 DEF Recorded
  <2>3. Recorded' <=> failures' = UNION {new(j) : j \in 1..(i' - 1)}
    BY <1>2 DEF Recorded
  <2> HIDE DEF old, new
  <2>4. {new(j) : j \in 1..(i - 1) \union {k}} = {old(j) : j \in 1..(i - 1)} \union {fails}
    BY <2>1
  <2>5. UNION {new(j) : j \in 1..(i' - 1)} = failures \union fails
    BY <1>5, <2>2, <2>4
  <2> QED
    BY <1>2, <2>3, <2>5
<1>8. Ahead'
  <2> SUFFICES ASSUME NEW j \in Steps, j >= i + 1
               PROVE  test.steps[j].id \notin ran' /\ obs'[test.steps[j].id] = NotSeen
    BY <1>2 DEF Ahead, Steps
  <2>1. j # i /\ j >= i
    BY <1>1 DEF Steps
  <2>2. test.steps[j].id \in Id /\ test.steps[j].id # step.id
    BY <1>1, <2>1, Shapes, References DEF step
  <2> QED
    BY <1>1, <2>1, <2>2 DEF Ahead
<1>9. Accepted'
  BY <1>1, <1>2 DEF Accepted, Steps, Seen
<1>10. PassSound' /\ AllReported'
  BY <1>1, <1>2, Values DEF PassSound, AllReported
<1>11. pc' # "validate"
  BY <1>2
<1> QED
  BY <1>3, <1>6, <1>7, <1>8, <1>9, <1>10, <1>11 DEF IInv

\* A declaration that is refused ends the run, and drops what had failed.
LEMMA RejectInv ==
  ASSUME IInv, Reject, pc \in {"validate", "step", "final"}, pc = "validate" => UNCHANGED ran,
         obs' \in [Id -> [exit : Code \union {Missing}, out : Text \union {Missing}]],
         \A s \in Id : obs'[s].exit # Missing => obs'[s].out \in Text,
         left' \in [Id -> Workspace], file' \in Workspace
  PROVE  IInv'
<1>1. /\ UNCHANGED <<test, i>> /\ pc' = "done" /\ status' = "invalid"
      /\ test \in Declarations /\ i \in 1..(Len(test.steps) + 1)
  BY DEF Reject, IInv, Typed, TypeOK
<1>2. Typed'
  <2>1. TypeOK'
    BY <1>1, Values DEF TypeOK
  <2> QED
    BY <1>1, <2>1 DEF Typed
<1>3. (Accepted \/ Untouched)'
  <2>1. CASE Accepted
    BY <1>1, <2>1 DEF Accepted, Steps, Seen
  <2>2. CASE Untouched
    BY <1>1, <2>2 DEF Untouched
  <2> QED
    BY <2>1, <2>2 DEF IInv
<1>4. PassSound' /\ AllReported'
  BY <1>1 DEF PassSound, AllReported
<1> QED
  BY <1>1, <1>2, <1>3, <1>4 DEF IInv

-----------------------------------------------------------------------------
(* Every step preserves the invariant.                                       *)

LEMMA InitIInv == Init => IInv
<1> SUFFICES ASSUME Init PROVE IInv
  OBVIOUS
<1>1. /\ test \in Declarations /\ pc = "validate" /\ i = 1 /\ status = None
      /\ failures = {} /\ ran = {} /\ file = Missing
      /\ \A s \in Id : obs[s] = NotSeen
      /\ obs = [s \in Id |-> NotSeen] /\ left = [s \in Id |-> Missing]
  BY DEF Init
<1>2. Typed
  <2>1. 1 \in 1..(Len(test.steps) + 1)
    BY <1>1, Shapes
  <2>2. TypeOK
    BY <1>1, <2>1, Values DEF TypeOK, NotSeen, Workspace
  <2> QED
    BY <1>1, <2>2 DEF Typed, NotSeen, Workspace
<1>3. Untouched /\ PassSound /\ AllReported
  BY <1>1, Values DEF Untouched, PassSound, AllReported
<1> QED
  BY <1>1, <1>2, <1>3 DEF IInv

LEMMA ValidateInv == IInv /\ Validate => IInv'
<1> SUFFICES ASSUME IInv, Validate PROVE IInv'
  OBVIOUS
<1>1. /\ pc = "validate" /\ UNCHANGED <<obs, ran, left, test, i>> /\ test \in Declarations
      /\ obs \in [Id -> [exit : Code \union {Missing}, out : Text \union {Missing}]]
      /\ left \in [Id -> Workspace] /\ file \in Workspace
      /\ \A s \in Id : obs[s].exit # Missing => obs[s].out \in Text
      /\ i = 1 /\ ran = {} /\ failures = {} /\ status = None
      /\ \A s \in Id : obs[s] = NotSeen
  BY DEF Validate, Reject, IInv, Typed, TypeOK
<1>2. Len(test.steps) \in Nat \ {0} /\ test.fixture \in Workspace
  BY <1>1, Shapes
<1>3. CASE ~Accepted
  <2>1. Reject /\ UNCHANGED file
    BY <1>3 DEF Validate
  <2> QED
    BY <1>1, <2>1, RejectInv
<1>4. CASE Accepted
  <2>1. pc' = "step" /\ file' = test.fixture /\ UNCHANGED <<failures, status>>
    BY <1>4 DEF Validate
  <2>2. Typed'
    <3>1. TypeOK'
      BY <1>1, <1>2, <2>1, Values DEF IInv, Typed, TypeOK
    <3> QED
      BY <1>1, <1>2, <2>1, <3>1 DEF Typed, Steps
  <2>3. Accepted'
    BY <1>1, <1>4 DEF Accepted, Steps, Seen
  <2>4. Ahead'
    <3>1. \A j \in Steps : test.steps[j].id \in Id
      BY <1>1, Shapes
    <3> QED
      BY <1>1, <3>1 DEF Ahead, Steps
  <2>5. 1..(i' - 1) = {}
    BY <1>1
  <2>6. Behind' /\ Recorded'
    BY <1>1, <2>1, <2>5 DEF Behind, Recorded
  <2>7. PassSound' /\ AllReported'
    BY <1>1, <2>1, Values DEF PassSound, AllReported
  <2> QED
    BY <2>1, <2>2, <2>3, <2>4, <2>6, <2>7 DEF IInv
<1> QED
  BY <1>3, <1>4

\* The step at hand, before anything is known of it.
LEMMA StepAtHand ==
  ASSUME IInv, pc = "step"
  PROVE  /\ i \in Steps /\ i \in Nat /\ test \in Declarations
         /\ step.id \in Id /\ step.id \notin ran /\ obs[step.id] = NotSeen
         /\ obs \in [Id -> [exit : Code \union {Missing}, out : Text \union {Missing}]]
         /\ left \in [Id -> Workspace] /\ file \in Workspace
         /\ \A s \in Id : obs[s].exit # Missing => obs[s].out \in Text
         /\ step.arg \in Operand /\ step.arg \in Operands(step)
         /\ step.arg.from # None => step.arg.from \in Id \ {step.id}
         /\ Effective(step) \subseteq Expectation /\ step.expect \subseteq Effective(step)
         /\ \A e \in Effective(step) : e.operand.from # None => e.operand.from \in Id \ {step.id}
<1>1. /\ i \in Steps /\ test \in Declarations /\ Accepted /\ Ahead
      /\ obs \in [Id -> [exit : Code \union {Missing}, out : Text \union {Missing}]]
      /\ left \in [Id -> Workspace] /\ file \in Workspace
      /\ \A s \in Id : obs[s].exit # Missing => obs[s].out \in Text
  <2>1. Accepted /\ Ahead
    BY DEF IInv, Untouched
  <2> QED
    BY <2>1 DEF IInv, Typed, TypeOK
<1>2. /\ step.id \in Id /\ step.arg \in Operand /\ Effective(step) \subseteq Expectation
      /\ step.expect \subseteq Effective(step) /\ Len(test.steps) \in Nat
  BY <1>1, Shapes DEF step
<1>3. i \in Nat /\ i >= i /\ \A j \in 1..(i - 1) : j \in Steps /\ j # i
  BY <1>1, <1>2 DEF Steps
<1>4. step.id \notin ran /\ obs[step.id] = NotSeen
  BY <1>1, <1>3 DEF Ahead, step
<1>5. \A j \in 1..(i - 1) : test.steps[j].id \in Id \ {step.id}
  BY <1>1, <1>3, Shapes, References DEF step
<1>6. step.arg \in Operands(step)
  BY DEF Operands
<1>7. /\ step.arg.from # None => step.arg.from \in Id \ {step.id}
      /\ \A e \in Effective(step) : e.operand.from # None => e.operand.from \in Id \ {step.id}
  BY <1>1, <1>5, <1>6, References DEF step
<1> QED
  BY <1>1, <1>2, <1>3, <1>4, <1>6, <1>7

LEMMA SkipStepInv == IInv /\ SkipStep => IInv'
<1> SUFFICES ASSUME IInv, SkipStep PROVE IInv'
  OBVIOUS
<1>1. /\ pc = "step" /\ Unavailable /\ Advance({<<step.id, Execution>>})
      /\ UNCHANGED <<test, obs, file, ran, left>>
  BY DEF SkipStep, Advance
<1>2. PICK k \in Nat : k = i
  BY <1>1, StepAtHand
<1>3. BehindAt(k)'
  BY <1>1, <1>2, StepAtHand DEF BehindAt, step, Unavailable, NotSeen
<1>4. Failed(obs', left', step) = {<<step.id, Execution>>}
  BY <1>1, StepAtHand DEF Failed, NotSeen
<1> QED
  BY <1>1, <1>2, <1>3, <1>4, StepAtHand, AdvanceInv DEF NotSeen

LEMMA RejectStepInv == IInv /\ RejectStep => IInv'
<1> SUFFICES ASSUME IInv, RejectStep PROVE IInv'
  OBVIOUS
<1>1. pc = "step" /\ Reject /\ UNCHANGED <<obs, file, ran, left>>
  BY DEF RejectStep
<1> QED
  BY <1>1, StepAtHand, RejectInv

LEMMA CannotLaunchInv == IInv /\ CannotLaunch => IInv'
<1> SUFFICES ASSUME IInv, CannotLaunch PROVE IInv'
  OBVIOUS
<1>1. /\ pc = "step" /\ Advance({<<step.id, Execution>>})
      /\ ran' = ran \union {step.id} /\ \A e \in step.expect : e.on # "unknown"
      /\ left' = [left EXCEPT ![step.id] = file]
      /\ UNCHANGED <<test, obs, file>>
  BY DEF CannotLaunch, Launch, Advance
<1>2. PICK k \in Nat : k = i
  BY <1>1, StepAtHand
<1>3. BehindAt(k)'
  BY <1>1, <1>2, StepAtHand DEF BehindAt, step, NotSeen
<1>4. Failed(obs', left', step) = {<<step.id, Execution>>}
  BY <1>1, StepAtHand DEF Failed, NotSeen
<1>5. left' \in [Id -> Workspace] /\ \A s \in Id : s # step.id => left'[s] = left[s]
  BY <1>1, StepAtHand
<1> QED
  BY <1>1, <1>2, <1>3, <1>4, <1>5, StepAtHand, AdvanceInv DEF NotSeen

\* The command ran: what was observed is a step's own.
LEMMA Observed ==
  ASSUME IInv, pc = "step", NEW exit \in Code \union {Missing}, NEW out \in Text, NEW f \in Workspace,
         obs' = [obs EXCEPT ![step.id] = [exit |-> exit, out |-> out]],
         left' = [left EXCEPT ![step.id] = f]
  PROVE  /\ obs' \in [Id -> [exit : Code \union {Missing}, out : Text \union {Missing}]]
         /\ left' \in [Id -> Workspace]
         /\ \A s \in Id : s # step.id => obs'[s] = obs[s] /\ left'[s] = left[s]
         /\ obs'[step.id].exit = exit /\ obs'[step.id].out = out /\ left'[step.id] = f
         /\ \A s \in Id : obs'[s].exit # Missing => obs'[s].out \in Text
<1>1. [exit |-> exit, out |-> out] \in [exit : Code \union {Missing}, out : Text \union {Missing}]
  OBVIOUS
<1>2. obs' \in [Id -> [exit : Code \union {Missing}, out : Text \union {Missing}]]
  BY <1>1, StepAtHand
<1>3. /\ \A s \in Id : s # step.id => obs'[s] = obs[s] /\ left'[s] = left[s]
      /\ obs'[step.id].exit = exit /\ obs'[step.id].out = out /\ left'[step.id] = f
      /\ left' \in [Id -> Workspace]
  BY StepAtHand
<1>4. \A s \in Id : obs'[s].exit # Missing => obs'[s].out \in Text
  BY <1>3, StepAtHand
<1> QED
  BY <1>2, <1>3, <1>4

LEMMA TimesOutInv ==
  ASSUME IInv, NEW out \in Text, NEW f \in Workspace, TimesOut(out, f)
  PROVE  IInv'
<1>1. /\ pc = "step" /\ Advance({<<step.id, Execution>>})
      /\ ran' = ran \union {step.id} /\ \A e \in step.expect : e.on # "unknown"
      /\ obs' = [obs EXCEPT ![step.id] = [exit |-> Missing, out |-> out]]
      /\ left' = [left EXCEPT ![step.id] = f]
      /\ UNCHANGED test /\ file' = f
  BY DEF TimesOut, Launch, Advance
<1>2. PICK k \in Nat : k = i
  BY <1>1, StepAtHand
<1>3. obs'[step.id].exit = Missing
  BY <1>1, Observed
<1>4. BehindAt(k)'
  BY <1>1, <1>2, <1>3 DEF BehindAt, step
<1>5. Failed(obs', left', step) = {<<step.id, Execution>>}
  BY <1>3 DEF Failed
<1>6. \A s \in Id : s # step.id => (s \in ran' <=> s \in ran)
  BY <1>1
<1>7. /\ obs' \in [Id -> [exit : Code \union {Missing}, out : Text \union {Missing}]]
      /\ left' \in [Id -> Workspace] /\ file' \in Workspace
      /\ \A s \in Id : s # step.id => obs'[s] = obs[s] /\ left'[s] = left[s]
  BY <1>1, Observed
<1> QED
  BY <1>1, <1>2, <1>3, <1>4, <1>5, <1>6, <1>7, AdvanceInv

LEMMA ExitsInv ==
  ASSUME IInv, NEW code \in Code, NEW out \in Text, NEW f \in Workspace, Exits(code, out, f)
  PROVE  IInv'
<1> DEFINE having(v) == {e \in Effective(step) : Verdict(obs', step.id, f, e) = v}
<1>1. /\ pc = "step" /\ ran' = ran \union {step.id} /\ \A e \in step.expect : e.on # "unknown"
      /\ obs' = [obs EXCEPT ![step.id] = [exit |-> code, out |-> out]]
      /\ left' = [left EXCEPT ![step.id] = f] /\ file' = f /\ UNCHANGED test
      /\ \/ having("invalid") # {} /\ Reject
         \/ having("invalid") = {} /\ Advance({<<step.id, e>> : e \in having("failed")})
  BY DEF Exits, Launch, Advance, Reject
<1>2. /\ obs' \in [Id -> [exit : Code \union {Missing}, out : Text \union {Missing}]]
      /\ left' \in [Id -> Workspace] /\ file' \in Workspace
      /\ \A s \in Id : s # step.id => obs'[s] = obs[s] /\ left'[s] = left[s]
      /\ obs'[step.id].exit = code /\ obs'[step.id].out = out /\ left'[step.id] = f
      /\ \A s \in Id : obs'[s].exit # Missing => obs'[s].out \in Text
      /\ code # Missing
  BY <1>1, Observed, Values
<1>3. CASE Reject
  BY <1>1, <1>2, <1>3, RejectInv
<1>4. CASE having("invalid") = {} /\ Advance({<<step.id, e>> : e \in having("failed")})
  <2>1. PICK k \in Nat : k = i
    BY <1>1, StepAtHand
  <2>2. BehindAt(k)'
    <3>1. \A e \in Effective(step) : Verdict(obs', step.id, left'[step.id], e) # "invalid"
      BY <1>2, <1>4
    <3> QED
      BY <1>1, <1>2, <2>1, <3>1 DEF BehindAt, step
  <2>3. Failed(obs', left', step) = {<<step.id, e>> : e \in having("failed")}
    BY <1>2 DEF Failed
  <2>4. \A s \in Id : s # step.id => (s \in ran' <=> s \in ran)
    BY <1>1
  <2> HIDE DEF having
  <2> QED
    BY <1>1, <1>2, <1>4, <2>1, <2>2, <2>3, <2>4, AdvanceInv
<1> QED
  BY <1>1, <1>3, <1>4

\* After the last step: every step was launched or could not be, and what has
\* been recorded is what each one has to be reported for.
LEMMA AtTheEnd ==
  ASSUME IInv, pc = "final", NEW k \in Steps
  PROVE  LET s == test.steps[k] IN
         /\ s.id \in Id
         /\ s.id \in ran \/ (s.arg.from # None /\ Resolve(obs, s.arg) \notin Text)
         /\ s.expect \subseteq Effective(s)
         /\ Failed(obs, left, s) \subseteq failures
         /\ obs[s.id].exit # Missing =>
              /\ s.id \in ran
              /\ \A e \in Effective(s) :
                   /\ e.on # "unknown"
                   /\ Verdict(obs, s.id, left[s.id], e) = "failed" <=> ~Satisfied(s.id, left[s.id], e)
                   /\ Verdict(obs, s.id, left[s.id], e) # "failed" => e.op # "malformed"
<1> DEFINE s == test.steps[k]
<1>1. /\ test \in Declarations /\ Behind /\ Recorded /\ i = Len(test.steps) + 1
      /\ obs \in [Id -> [exit : Code \union {Missing}, out : Text \union {Missing}]]
      /\ left \in [Id -> Workspace]
      /\ \A t \in Id : obs[t].exit # Missing => obs[t].out \in Text
  BY DEF IInv, Typed, TypeOK
<1>2. k \in 1..(i - 1)
  BY <1>1, Shapes DEF Steps
<1>3. BehindAt(k) /\ Failed(obs, left, s) \subseteq failures
  BY <1>1, <1>2 DEF Behind, Recorded
<1>4. s.id \in Id /\ Effective(s) \subseteq Expectation /\ s.expect \subseteq Effective(s)
  BY <1>1, Shapes
<1>5. s.id \in ran \/ (s.arg.from # None /\ Resolve(obs, s.arg) \notin Text)
  BY <1>3 DEF BehindAt
<1>6. ASSUME obs[s.id].exit # Missing
      PROVE  /\ s.id \in ran
             /\ \A e \in Effective(s) :
                  /\ e.on # "unknown"
                  /\ Verdict(obs, s.id, left[s.id], e) = "failed" <=> ~Satisfied(s.id, left[s.id], e)
                  /\ Verdict(obs, s.id, left[s.id], e) # "failed" => e.op # "malformed"
  <2>1. s.id \in ran /\ \A e \in s.expect : e.on # "unknown"
    BY <1>3, <1>6 DEF BehindAt, NotSeen
  <2>2. \A e \in Effective(s) : e.on # "unknown" /\ Verdict(obs, s.id, left[s.id], e) # "invalid"
    BY <1>3, <1>6, <2>1, EffectiveIs DEF BehindAt
  <2>3. obs[s.id].exit \in Code /\ obs[s.id].out \in Text /\ left[s.id] \in Workspace /\ s.id # None
    BY <1>1, <1>4, <1>6, Values
  <2> QED
    BY <1>4, <2>1, <2>2, <2>3, VerdictMeans
<1> QED
  BY <1>3, <1>4, <1>5, <1>6

\* The same of the failures, as a set.
LEMMA RecordedMeans ==
  ASSUME IInv, pc = "final"
  PROVE  failures =
           {<<test.steps[k].id, Execution>> : k \in {j \in Steps : obs[test.steps[j].id].exit = Missing}}
           \union UNION {{<<test.steps[k].id, e>> :
               e \in {x \in Effective(test.steps[k]) :
                        ~Satisfied(test.steps[k].id, left[test.steps[k].id], x)}} :
               k \in {j \in Steps : obs[test.steps[j].id].exit # Missing}}
<1> DEFINE silent == {j \in Steps : obs[test.steps[j].id].exit = Missing}
<1> DEFINE exited == {j \in Steps : obs[test.steps[j].id].exit # Missing}
<1> DEFINE unmet(k) == {<<test.steps[k].id, e>> :
                          e \in {x \in Effective(test.steps[k]) :
                                   ~Satisfied(test.steps[k].id, left[test.steps[k].id], x)}}
<1> DEFINE one(k) == Failed(obs, left, test.steps[k])
<1> DEFINE unseen == {<<test.steps[k].id, Execution>> : k \in silent}
<1> DEFINE wrong == UNION {unmet(k) : k \in exited}
<1> SUFFICES failures = unseen \union wrong
  OBVIOUS
<1>1. failures = UNION {one(k) : k \in Steps}
  <2>1. i = Len(test.steps) + 1 /\ test \in Declarations /\ Recorded
    BY DEF IInv, Typed, TypeOK
  <2>2. 1..(i - 1) = Steps
    BY <2>1, Shapes DEF Steps
  <2> QED
    BY <2>1, <2>2 DEF Recorded
<1>2. \A k \in silent : one(k) = {<<test.steps[k].id, Execution>>}
  BY DEF Failed
<1>3. ASSUME NEW k \in exited PROVE one(k) = unmet(k)
  <2>1. \A x \in Effective(test.steps[k]) :
          Verdict(obs, test.steps[k].id, left[test.steps[k].id], x) = "failed"
            <=> ~Satisfied(test.steps[k].id, left[test.steps[k].id], x)
    BY AtTheEnd
  <2>2. {x \in Effective(test.steps[k]) :
           Verdict(obs, test.steps[k].id, left[test.steps[k].id], x) = "failed"}
          = {x \in Effective(test.steps[k]) :
               ~Satisfied(test.steps[k].id, left[test.steps[k].id], x)}
    BY <2>1
  <2> QED
    BY <2>2 DEF Failed
<1>4. Steps = silent \union exited
  OBVIOUS
<1> HIDE DEF silent, exited, unmet, one
<1>5. unseen = UNION {one(k) : k \in silent}
  BY <1>2
<1>6. wrong = UNION {one(k) : k \in exited}
  <2>1. {one(k) : k \in exited} = {unmet(k) : k \in exited}
    BY <1>3
  <2> QED
    BY <2>1
<1>7. {one(k) : k \in Steps} = {one(k) : k \in silent} \union {one(k) : k \in exited}
  BY <1>4
<1> HIDE DEF unseen, wrong
<1> QED
  BY <1>1, <1>5, <1>6, <1>7

LEMMA SatisfiedKept ==
  ASSUME UNCHANGED obs
  PROVE  \A s, f, e : Satisfied(s, f, e)' <=> Satisfied(s, f, e)
BY DEF Satisfied, Actual

\* The expectations of the workspace, once they could all be decided.
LEMMA Workspaced ==
  ASSUME IInv, NEW e \in test.expect, e.on = "file", Verdict(obs, None, file, e) # "invalid"
  PROVE  /\ Verdict(obs, None, file, e) = "failed" <=> ~Satisfied(None, file, e)
         /\ Verdict(obs, None, file, e) # "failed" => e.op # "malformed"
<1>1. e \in Expectation /\ file \in Workspace /\ None \in Id \union {None}
  BY Shapes DEF IInv, Typed, TypeOK
<1> QED
  BY <1>1, VerdictMeans

LEMMA FinaliseInv == IInv /\ Finalise => IInv'
<1> SUFFICES ASSUME IInv, Finalise PROVE IInv'
  OBVIOUS
<1> DEFINE unmet == {<<None, e>> : e \in {x \in test.expect : ~Satisfied(None, file, x)}}
<1>1. pc = "final" /\ UNCHANGED <<test, obs, file, ran, left>> /\ Typed
  BY DEF Finalise, Reject, IInv
<1>2. CASE Reject
  BY <1>1, <1>2, RejectInv DEF Typed, TypeOK
<1>3. CASE ~Reject
  <2>1. /\ \A e \in test.expect : e.on = "file" /\ Verdict(obs, None, file, e) # "invalid"
        /\ failures' = failures \union
             {<<None, e>> : e \in {x \in test.expect : Verdict(obs, None, file, x) = "failed"}}
        /\ status' = IF failures' = {} THEN "pass" ELSE "fail"
        /\ pc' = "done" /\ UNCHANGED i
    BY <1>3 DEF Finalise
  <2>2. {x \in test.expect : Verdict(obs, None, file, x) = "failed"}
          = {x \in test.expect : ~Satisfied(None, file, x)}
    BY <2>1, Workspaced
  <2>3. failures' = failures \union unmet
    BY <2>1, <2>2
  <2>4. Typed'
    <3>1. TypeOK'
      BY <1>1, <2>1, Values DEF Typed, TypeOK
    <3> QED
      BY <1>1, <2>1, <3>1 DEF Typed
  <2>5. Accepted'
    <3>1. Accepted
      BY <1>1 DEF IInv, Untouched
    <3> QED
      BY <1>1, <3>1 DEF Accepted, Steps, Seen
  <2>6. AllReported'
    <3>1. \A k \in Steps : \/ test.steps[k].id \in ran
                           \/ /\ test.steps[k].arg.from # None
                              /\ Resolve(obs, test.steps[k].arg) \notin Text
      BY <1>1, AtTheEnd
    <3> DEFINE recorded ==
          {<<test.steps[k].id, Execution>> :
              k \in {j \in Steps : obs[test.steps[j].id].exit = Missing}}
          \union UNION {{<<test.steps[k].id, e>> :
              e \in {x \in Effective(test.steps[k]) :
                       ~Satisfied(test.steps[k].id, left[test.steps[k].id], x)}} :
              k \in {j \in Steps : obs[test.steps[j].id].exit # Missing}}
    <3>2. failures = recorded
      BY <1>1, RecordedMeans
    <3>3. AllReported' <=>
            (status' \in {"pass", "fail"} =>
               /\ \A k \in Steps : \/ test.steps[k].id \in ran
                                   \/ /\ test.steps[k].arg.from # None
                                      /\ Resolve(obs, test.steps[k].arg) \notin Text
               /\ failures' = recorded \union unmet)
      BY <1>1, SatisfiedKept DEF AllReported, Steps, Satisfied, Actual
    <3> HIDE DEF unmet, recorded
    <3> QED
      BY <2>3, <3>1, <3>2, <3>3
  <2>7. PassSound'
    <3> SUFFICES ASSUME status' = "pass"
                 PROVE  /\ \A k \in Steps : LET s == test.steps[k] IN
                             /\ s.id \in ran /\ obs[s.id].exit # Missing
                             /\ (\A e \in s.expect : e.on # "exitCode") => obs[s.id].exit = "exit 0"
                             /\ \A e \in s.expect :
                                   /\ e.on # "unknown" /\ e.op # "malformed"
                                   /\ Satisfied(s.id, left[s.id], e)
                        /\ \A e \in test.expect : e.op # "malformed" /\ Satisfied(None, file, e)
      BY <1>1, SatisfiedKept DEF PassSound, Steps
    <3>1. failures = {} /\ {x \in test.expect : Verdict(obs, None, file, x) = "failed"} = {}
      BY <2>1
    <3>2. \A e \in test.expect : e.op # "malformed" /\ Satisfied(None, file, e)
      BY <2>1, <3>1, Workspaced
    <3>3. ASSUME NEW k \in Steps
          PROVE  LET s == test.steps[k] IN
                 /\ s.id \in ran /\ obs[s.id].exit # Missing
                 /\ (\A e \in s.expect : e.on # "exitCode") => obs[s.id].exit = "exit 0"
                 /\ \A e \in s.expect :
                       /\ e.on # "unknown" /\ e.op # "malformed"
                       /\ Satisfied(s.id, left[s.id], e)
      <4> DEFINE s == test.steps[k]
      <4>1. Failed(obs, left, s) = {} /\ s.id \in Id /\ s.expect \subseteq Effective(s)
        BY <1>1, <3>1, AtTheEnd
      <4>2. obs[s.id].exit # Missing
        BY <4>1 DEF Failed
      <4>3. \A e \in Effective(s) : Verdict(obs, s.id, left[s.id], e) # "failed"
        BY <4>1, <4>2 DEF Failed
      <4>4. /\ s.id \in ran
            /\ \A e \in Effective(s) : /\ e.on # "unknown" /\ e.op # "malformed"
                                       /\ Satisfied(s.id, left[s.id], e)
        BY <1>1, <4>2, <4>3, AtTheEnd
      <4>5. ASSUME \A e \in s.expect : e.on # "exitCode" PROVE obs[s.id].exit = "exit 0"
        <5> DEFINE zero == Expect("exitCode", "is", Lit("exit 0"))
        <5>1. zero \in Effective(s)
          BY <4>5 DEF Effective
        <5>2. Satisfied(s.id, left[s.id], zero)
          BY <4>4, <5>1
        <5>3. /\ zero.on = "exitCode" /\ zero.op = "is" /\ Resolve(obs, zero.operand) = "exit 0"
              /\ Actual(s.id, left[s.id], zero) = obs[s.id].exit
          BY DEF Expect, Lit, Resolve, Actual
        <5>4. Resolve(obs, zero.operand) \notin Object
          BY <5>3, Values DEF Code
        <5> QED
          BY <5>2, <5>3, <5>4 DEF Satisfied
      <4> QED
        BY <4>1, <4>2, <4>4, <4>5
    <3> QED
      BY <3>2, <3>3
  <2> QED
    BY <2>1, <2>4, <2>5, <2>6, <2>7 DEF IInv
<1> QED
  BY <1>2, <1>3

LEMMA NextInv == IInv /\ [Next]_vars => IInv'
<1> SUFFICES ASSUME IInv, [Next]_vars PROVE IInv'
  OBVIOUS
<1>1. CASE UNCHANGED vars \/ Done
  <2>1. UNCHANGED <<test, pc, i, obs, file, failures, status, ran, left>>
    BY <1>1 DEF vars, Done
  <2>2. Typed'
    BY <2>1 DEF IInv, Typed, TypeOK, Steps
  <2>5. PassSound'
    BY <2>1, SatisfiedKept DEF IInv, PassSound, Steps
  <2>6. AllReported'
    <3>1. AllReported' <=> AllReported
      BY <2>1, SatisfiedKept DEF AllReported, Steps, Satisfied, Actual
    <3> QED
      BY <3>1 DEF IInv
  <2>3. (Accepted \/ Untouched)'
    BY <2>1 DEF IInv, Accepted, Untouched, Steps, Seen
  <2>4. pc \in {"step", "final"} => Ahead' /\ Behind' /\ Recorded'
    BY <2>1 DEF IInv, Ahead, Behind, BehindAt, Recorded, Steps
  <2> QED
    BY <2>1, <2>2, <2>3, <2>4, <2>5, <2>6 DEF IInv
<1>2. ASSUME NEW out \in Text, NEW f \in Workspace,
             TimesOut(out, f) \/ \E code \in Code : Exits(code, out, f)
      PROVE  IInv'
  BY <1>2, TimesOutInv, ExitsInv
<1> QED
  BY <1>1, <1>2, ValidateInv, SkipStepInv, CannotLaunchInv, FinaliseInv, RejectStepInv DEF Next

\* A bad reference keeps the declaration from being accepted.
LEMMA RefusedUntouched == IInv => RejectedUntouched
<1> SUFFICES ASSUME IInv, Accepted PROVE RejectedUntouched
  BY DEF IInv, Untouched, RejectedUntouched
<1>1. test \in Declarations
  BY DEF IInv, Typed
<1>2. \A j, k \in Steps : j # k => test.steps[j].id # test.steps[k].id
  BY <1>1, References
<1>3. \A k \in Steps : \A x \in Operands(test.steps[k]) :
        x.from # None => \E j \in 1..(k - 1) : test.steps[j].id = x.from
  BY <1>1, References
<1>4. \A e \in test.expect : e.operand.from # None =>
        \E j \in 1..((Len(test.steps) + 1) - 1) : test.steps[j].id = e.operand.from
  BY DEF Accepted, Seen
<1> QED
  BY <1>2, <1>3, <1>4 DEF RejectedUntouched

-----------------------------------------------------------------------------
\* The strengthening is an invariant of every run of every declaration.
THEOREM Invariance == Spec => []IInv
<1> QED
  BY InitIInv, NextInv, PTL DEF Spec

\* The runner's variables keep their types, and it reaches the workspace
\* expectations after the last step only.
THEOREM TypeCorrect == Spec => []TypeOK
<1>1. IInv => TypeOK
  BY DEF IInv, Typed
<1> QED
  BY <1>1, Invariance, PTL

\* A declaration that refers to what is not an earlier step runs no command.
THEOREM BadReferencesRunNothing == Spec => []RejectedUntouched
BY Invariance, RefusedUntouched, PTL

\* test() passes only what did all it was declared to do, whatever objects the
\* steps print: a bare reference to one has the meaning of the predicate that
\* the object spells.
THEOREM PassIsSound == Spec => []PassSound
<1>1. IInv => PassSound
  BY DEF IInv
<1> QED
  BY <1>1, Invariance, PTL

\* A verdict, pass or fail, reports every failure there is, and no other.
THEOREM ReportIsComplete == Spec => []AllReported
<1>1. IInv => AllReported
  BY DEF IInv
<1> QED
  BY <1>1, Invariance, PTL
=============================================================================
