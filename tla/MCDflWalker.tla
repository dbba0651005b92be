---------------------------- MODULE MCDflWalker ----------------------------
(* Every tree of 4 headers whose links go forward, with one or two branches or *)
(* another parameter block at each.                                            *)
EXTENDS DflWalker

MCDfh == 1..4

BlockSeqs == {<<>>, <<0>>} \cup {<<b>> : b \in MCDfh} \cup {<<b, 0>> : b \in MCDfh}
             \cup {<<0, b>> : b \in MCDfh} \cup {<<a, b>> : a, b \in MCDfh}

\* What header d may link to.
Links(d) ==
  {[next |-> n, blocks |-> s, null |-> e] :
     n \in {0} \cup (d + 1)..4,
     s \in {t \in BlockSeqs : \A i \in DOMAIN t : t[i] = 0 \/ t[i] > d},
     e \in {d = 1}}

Once(l) ==
  \A d \in 2..4 :
    Cardinality({p \in MCDfh : l[p].next = d})
      + Cardinality({<<p, i>> \in MCDfh \X (1..2) :
                       i \in DOMAIN l[p].blocks /\ l[p].blocks[i] = d}) = 1

MCLists ==
  {l \in {<<a, b, c, d>> : a \in Links(1), b \in Links(2), c \in Links(3), d \in Links(4)} :
     Once(l)}
=============================================================================
