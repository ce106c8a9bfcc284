----------------------------- MODULE MCServices -----------------------------
(* Two or three of everything; three rows to import, of which two are of one *)
(* contact; prices whose rounding differs; texts with and without nesting.   *)
EXTENDS Services

CONSTANTS j1, j2, t1, t2, m1, m2, i1, i2, v1, v2, c1, c2, c3, ann, bob, cyd, p1, p2, w1, k1, k2

MCContacts == <<ann, bob, ann>>
MCLineItems ==
  {<<[quantity |-> 3, unitPrice |-> 333, discount |-> 15]>>,
   <<[quantity |-> 1, unitPrice |-> 1005, discount |-> 50]>>}
MCDiscounts ==
  {[type |-> "percentage", value |-> 0], [type |-> "percentage", value |-> 33],
   [type |-> "fixed", value |-> 600]}

MCSources ==
  LET piece(is, key) == [is |-> is, key |-> key]
  IN  {<<piece("<", "none"), piece("var", k1), piece(">", "none"), piece("var", k2)>>,
       <<piece("<", "none"), piece(">", "none"), piece("var", k1), piece("<", "none"), piece("var", k2)>>,
       <<piece("if", k1), piece("var", k2), piece("endif", "none"), piece("default", k1)>>,
       <<piece("if", k1), Text, piece("if", k2), piece("endif", "none"), piece("endif", "none")>>}
\* A claim of one's own, of another, none or several; an nbf to come; no signature.
MCSignOptions ==
  {<<>>, [issuer |-> "b"], [issuer |-> NoClaim], [audience |-> {}], [audience |-> {"b"}],
   [issuer |-> "a", audience |-> {"a", "b"}], [notBefore |-> "future"], [algorithm |-> "none"]}
MCVerifyOptions ==
  {<<>>, [issuer |-> "b"], [ignoreExpiration |-> TRUE], [ignoreNotBefore |-> TRUE]}
    \union [{"issuer", "audience"} -> {"a", "b", ""}]
\* Nothing passed; a falsy number; a value with a placeholder in it.
MCAssignments ==
  LET unset == Value(FALSE, FALSE, NoText)
      word == Value(TRUE, TRUE, <<Text>>)
      zero == Value(TRUE, FALSE, <<Text>>)
      tricky == Value(TRUE, TRUE, <<[is |-> "var", key |-> k2]>>)
  IN  {[k \in {k1, k2} |-> IF k = k1 THEN v ELSE w] :
          v \in {unset, word, zero, tricky}, w \in {unset, word}}
=============================================================================
