---------------------------- MODULE MCCargoImpact ----------------------------
(* Three crates, a job for the whole workspace and one for a list of them. *)
EXTENDS CargoImpact

MCCrate   == {"core", "api", "app"}
MCJob     == {"clippy", "unit"}
MCWitness == "unit"

Deps == {{}, {<<"api", "core">>}, {<<"api", "core">>, <<"app", "api">>},
         {<<"api", "core">>, <<"core", "api">>}}

Paths == {Path(c, f) : c \in {"core", "api", "app"}, f \in {"source", "manifest"}}
         \union {Path("workspace", f) : f \in {"lock", "root", "build"}}
         \union {Path("docs", "text")}
         \union {Path("elsewhere", f) : f \in {"ci", "workflow", "other"}}

Small(S, n) == {X \in SUBSET S : Cardinality(X) <= n}

(* The meaning of an edit to a shared file is only there if it was edited. *)
If(path, edited, choices, none) == IF path \in edited THEN choices ELSE {none}

Change(members, deps, edited, moved, targets) ==
  {[members |-> members, deps |-> deps, edited |-> edited, moved |-> moved,
    lock |-> l, added |-> a, rootRest |-> r, listed |-> n, listRest |-> s,
    targets |-> [clippy |-> Unset, unit |-> targets], metadata |-> m] :
     l \in If(Lock, edited, {{}, {"core"}, {"core", "api"}, {"api", "external"}}, {}),
     a \in If(Root, edited, {{}, {"app"} \cap members}, {}),
     r \in If(Root, edited, BOOLEAN, FALSE),
     n \in If(Path("elsewhere", "ci"), edited, {{"api"}, {"app", "api"}}, {}),
     s \in If(Path("elsewhere", "ci"), edited, BOOLEAN, FALSE),
     m \in IF edited = {} THEN BOOLEAN ELSE {TRUE}}

Edits ==
  UNION {Change(MCCrate, d, e, {}, t) :
           d \in Deps, e \in Small(Paths, 3), t \in {{"api"}, {"app", "core"}}}
  \union
  UNION {Change({"core", "api"}, {<<"api", "core">>}, e, {}, t) :
           e \in Small(Paths, 3), t \in {{"api"}, {"app", "core"}}}

(* Files whose place can change and leave a workspace that cargo accepts.  *)
Movable == {Path(c, f) : c \in MCCrate, f \in {"source", "test"}}
           \union {Path("docs", f) : f \in {"text", "guide"}}
           \union {Path("workspace", "build"), Path("elsewhere", "other")}

Renames ==
  UNION {Change(MCCrate, {<<"api", "core">>}, e, {m}, {"core", "api"}) :
           e \in Small({Manifest("app")}, 1),
           m \in {x \in Movable \X Movable : x[1] # x[2]}}

Within == {c \in Renames : \A m \in c.moved : m[1].dir = m[2].dir}

MCChanges == Edits \union Within
=============================================================================
