---------------------------- MODULE MCTestRunner ----------------------------
(* Declarations of one to three steps over every kind of expectation, every  *)
(* kind of reference, and texts in which the pointer finds a string, a       *)
(* number, an object, one that spells a predicate, nothing, or an array      *)
(* where a key was asked for.                                                *)
EXTENDS TestRunner

MCText   == {"word", "names word", "names 1", "holds object", "holds ne", "is array"}
MCObject == {"an object", "ne word"}
MCReads  == [x \in MCObject |-> [op |-> IF x = "ne word" THEN "ne" ELSE "malformed", is |-> "word"]]
MCAt   == [t \in MCText |->
             CASE t = "names word"   -> "word"
               [] t = "names 1"      -> "exit 1"
               [] t = "holds object" -> "an object"
               [] t = "holds ne"     -> "ne word"
               [] t = "is array"     -> NeedIndex
               [] t = "word"         -> Missing]

Step(id, arg, expect) == [id |-> id, arg |-> arg, expect |-> expect]
Plain  == Lit("word")
Word   == Lit("word")

FirstSteps == {Step("a", Plain, x) : x \in
    {{}, {Expect("exitCode", "ne", Lit("exit 0"))},
     {Expect("json", "is", Word), Expect("file", "exists", Word)},
     {Expect("stdout", "malformed", Word)}, {Expect("json", "eq", Ref("b", "json"))}}}

LaterSteps(id) ==
    {Step(id, arg, {}) : arg \in {Ref("a", "json"), Ref("a", "exitCode"), Ref(id, "stdout")}}
    \union {Step(id, Plain, {x}) : x \in
       {Expect("json", "is", Ref("a", "json")), Expect("json", "eq", Ref("a", "json")),
        Expect("stdout", "ne", Ref("a", "stdout")), Expect("exitCode", "eq", Ref("a", "exitCode")),
        Expect("file", "eq", Ref("a", "stdout")), Expect("file", "absent", Word),
        Expect("unknown", "is", Word)}}

Ends == {{}, {Expect("file", "eq", Ref("b", "json"))}, {Expect("json", "is", Word)}}

Declared(steps, expect, fixture) == [steps |-> steps, expect |-> expect, fixture |-> fixture]

MCDeclarations ==
    {Declared(<<s>>, x, "word") : s \in FirstSteps, x \in Ends}
    \union {Declared(<<s, t>>, x, Missing) :
              s \in FirstSteps, t \in LaterSteps("b") \union LaterSteps("a"), x \in Ends}
    \union {Declared(<<Step("a", Plain, {}), Step("b", Ref("a", "json"), {}), t>>, {}, "word") :
              t \in {Step("c", Plain, {Expect("file", "eq", Ref("b", "stdout"))}),
                     Step("c", Ref("b", "json"), {}), Step("c", Ref("c", "json"), {})}}
=============================================================================
