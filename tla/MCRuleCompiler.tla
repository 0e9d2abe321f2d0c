--------------------------- MODULE MCRuleCompiler ---------------------------
(***************************************************************************)
(* Files of rules for TLC, each set for one part of the compiler.          *)
(***************************************************************************)
EXTENDS RuleCompiler

Tok(k, v) == [k |-> k, v |-> v, parts |-> <<>>]
Lp == Tok("(", "")
Rp == Tok(")", "")
Comma == Tok(",", "")
Op(v) == Tok("operator", v)
Fun(f) == Tok("function", f)
Str == Tok("text", "s")

Name(v)   == [v |-> v, n |-> -1]
Figure(n) == [v |-> "", n |-> n]
Spell(parts) == [k |-> "word", v |-> "", parts |-> parts]
Var(v, ref) == Spell(IF ref = 0 THEN <<Name("p"), Name(v)>> ELSE <<Name("p"), Name(v), Figure(ref)>>)
Num == Spell(<<Figure(1)>>)

(* x, y and z are numbers, a is a string, t a time, u of a type not supported. *)
Types == ( <<"p", "x">> :> "u16" @@ <<"p", "y">> :> "u32" @@ <<"p", "z">> :> "port" @@
           <<"p", "a">> :> "string" @@ <<"p", "t">> :> "timeval" @@ <<"p", "u">> :> "other" )

Lim(n, sign) == [n |-> n, sign |-> sign]
Delay(lo, hi, unit) == [min |-> lo, max |-> hi, unit |-> unit]
None == Delay(Lim(0, ""), Lim(0, ""), "s")
Short(lo, hi) == Delay(Lim(lo, ""), Lim(hi, ""), "mms")

Elem(tag, value, id, delay, expr, children) ==
  [tag |-> tag, value |-> value, id |-> id, delay |-> delay, expr |-> expr,
   children |-> children, call |-> <<>>]
Ev(id, expr) == Elem("event", "", id, None, expr, <<>>)
Own == << Var("x", 0) >>
E == Ev(UNSET, Own)
Oper(value, delay, children) == Elem("operator", value, UNSET, delay, <<>>, children)
Property(value, delay, children) == Elem("property", value, 1, delay, <<>>, children)

(* One event with any expression of up to MaxTokens tokens. *)
Alphabet == {Lp, Rp, Comma, Op("&&"), Op("||"), Op("=="), Var("x", 0), Fun("f")}
Some == {Lp, Rp, Op("&&"), Op("<"), Var("a", 0), Num}
Compute(expr) == << Property("COMPUTE", None, << Ev(UNSET, expr) >>) >>
ExprFiles(short, long) ==
  {Compute(e) : e \in UNION {[1 .. n -> Alphabet] : n \in 1 .. short}} \cup
  {Compute(<<Lp>> \o e \o <<Rp>>) : e \in [1 .. long -> Some \ {Num}]}
Words == {<<Name("true")>>, <<Name("yes")>>, <<Figure(1), Figure(5)>>, <<Name("p"), Name("q")>>,
          <<Name("p"), Name("x"), Name("y")>>, <<Name("p"), Name("x"), Figure(65535)>>,
          <<Name("p"), Name("x"), Figure(65537)>>, <<Name("p"), Name("t")>>, <<Name("p"), Name("u")>>}
WordFiles == {Compute(<<Lp, Spell(w), Op("=="), s, Rp>>) : w \in Words, s \in {Str, Num}}
StringFiles == {Compute(<<Lp, a, Op(v), b, Rp>>) :
                  a, b \in {Var("a", 0), Str, Fun("f"), Num}, v \in Comparison}

(* Rules of up to two levels, events numbered by the reader. *)
Inner == {"THEN", "OR", "AND", "NOT", "BEFORE", "COMPUTE"}
Part(d) == {E} \cup {Oper(v, d, <<E, E>>) : v \in Inner \ {"COMPUTE"}}
               \cup {Oper("COMPUTE", None, <<E>>)}
TreeFiles == {<< Property(v, Short(1, 2), <<a, b>>) >> :
                v \in Inner \ {"COMPUTE"}, a, b \in Part(Short(0, 1)) \cup Part(None)}
DeepFiles == {<< Property(v, Short(1, 2), <<E, Oper(w, Short(0, 1), <<E, p>>)>>) >> :
                v, w \in {"THEN", "OR", "AND", "NOT"}, p \in Part(Short(0, 2))}
PartFiles == {<< Property(v, None, s) >> :
                v \in {"THEN", "COMPUTE", "XOR"},
                s \in UNION {[1 .. n -> {E, Elem("comment", "", UNSET, None, <<>>, <<>>)}] : n \in 0 .. 3}}

(* Two events looked for in one message, which may read the other one's. *)
PacketFiles == {<< Property(v, None, <<Ev(f[1], Own), Ev(f[2], b)>>) >> :
                  v \in {"THEN", "NOT", "OR"}, f \in {<<1, 2>>, <<2, 1>>},
                  b \in {Own, <<Var("x", 1)>>, <<Var("x", 2)>>}}

(* Three events, any numbers; three events, any variables; any delay. *)
Three(a, b, c) == << Property("THEN", Short(0, 1), <<a, Oper("OR", None, <<b, c>>)>>) >>
NumberFiles == {Three(Ev(f[1], Own), Ev(f[2], Own), Ev(f[3], Own)) :
                  f \in [1 .. 3 -> {UNSET, -2, 0, 1, 2, 3, 65535, 65536, 65537}]}
Read == { <<Num>>, <<Var("x", 0)>>, <<Var("x", 1)>>, <<Var("y", 1)>>, <<Var("y", 4)>>,
          <<Var("x", 0), Op("=="), Var("z", 2)>>, <<Var("y", 3), Op("=="), Var("z", 1)>>,
          <<Fun("is_exist"), Lp, Var("x", 0), Rp, Op("&&"), Var("y", 0)>> }
VariableFiles == {Three(Ev(1, f[1]), Ev(UNSET, f[2]), Ev(3, f[3])) : f \in [1 .. 3 -> Read]}
DelayFiles == {<< Property("THEN", Delay(Lim(a, s), Lim(b, t), u), <<E, E>>) >> :
                 a, b \in {-1, 0, 1, 2}, s, t \in {"", "+", "-"}, u \in {"m", "s", "ms", "mms"}}

(* Two rules; what a rule calls. *)
TwoFiles == {<< [Property("THEN", None, <<E, E>>) EXCEPT !.id = i],
                [Property("COMPUTE", None, <<E>>) EXCEPT !.id = j] >> : i, j \in {-2, 1, 2, 65537}}
Calls == { <<Fun("f"), Lp, Var("x", 1), Rp>>, <<Fun("drop"), Lp, Rp>>, <<Fun("drop"), Lp, Num, Rp>>,
           <<Fun("update"), Lp, Var("x", 0), Comma, Num, Rp>>,
           <<Fun("update"), Lp, Var("x", 1), Comma, Num, Rp>>,
           <<Fun("update"), Lp, Num, Comma, Var("x", 0), Rp>>, <<Fun("update"), Lp, Rp>>,
           <<Fun("f"), Lp, Rp, Comma>>, <<Num>>, <<Fun("f"), Num, Rp, Num>> }
CallFiles == {<< [Property("COMPUTE", None, <<E>>) EXCEPT !.call = c] >> : c \in Calls}

AllFiles == ExprFiles(4, 5) \cup WordFiles \cup TreeFiles \cup DeepFiles \cup PartFiles \cup PacketFiles \cup NumberFiles
              \cup VariableFiles \cup DelayFiles \cup TwoFiles \cup CallFiles
=============================================================================
