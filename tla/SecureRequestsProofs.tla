------------------------ MODULE SecureRequestsProofs ------------------------
(***************************************************************************)
(* Theorems about SecureRequests, for every value of its constants: the    *)
(* components' invariants first, each of its own operations, then the      *)
(* requests over all of them.                                              *)
(***************************************************************************)
EXTENDS SecureRequests, WellFoundedInduction, TLAPS

-----------------------------------------------------------------------------
(* The consent graph                                                       *)

(* The edges an edge was delegated from, at all removes, are older, with   *)
(* each of them come those it was delegated from itself, and memory and    *)
(* storage name the nearest as the parent.                                 *)
FromParent(p) == IF p = 0 THEN {} ELSE {p} \cup forebears[p]

Lineage ==
    /\ \A e \in EdgeIds : \A x \in forebears[e] : x < e
    /\ \A e \in EdgeIds : e > minted => forebears[e] = {}
    /\ \A e \in EdgeIds : \A x \in forebears[e] : forebears[x] \subseteq forebears[e]
    /\ \A e \in DOMAIN edges : forebears[e] = FromParent(edges[e].parent)
    /\ \A e \in DOMAIN savedEdges : forebears[e] = FromParent(savedEdges[e].parent)

ConsentInv ==
    /\ ConsentTypeOK
    /\ RevokedIsFinal
    /\ RevocationReachesDelegates
    /\ Lineage

(* An edge that memory or storage already had, with its parent, may change *)
(* its place.                                                              *)
LEMMA LineageKept ==
    ASSUME Lineage, UNCHANGED <<minted, forebears>>,
           \A e \in DOMAIN edges' :
              \/ e \in DOMAIN edges /\ edges'[e].parent = edges[e].parent
              \/ e \in DOMAIN savedEdges /\ edges'[e].parent = savedEdges[e].parent,
           \A e \in DOMAIN savedEdges' :
              \/ e \in DOMAIN edges /\ savedEdges'[e].parent = edges[e].parent
              \/ e \in DOMAIN savedEdges /\ savedEdges'[e].parent = savedEdges[e].parent
    PROVE  Lineage'
<1>1. \A p : FromParent(p)' = FromParent(p)  BY DEF FromParent
<1> QED  BY <1>1 DEF Lineage

LEMMA LeastOf ==
    ASSUME NEW T \in SUBSET Nat, T # {}
    PROVE  \E x \in T : \A y \in T : x <= y
<1>1. PICK x \in T : \A y \in T : <<y, x>> \notin OpToRel(<, Nat)
  BY NatLessThanWellFounded, WFMin
<1>2. \A y \in T : ~ (y < x)  BY <1>1 DEF OpToRel
<1> QED  BY <1>2

(* What was delegated from an edge of a set closed under delegation in     *)
(* memory is in the set, if it and all edges between are in memory.        *)
LEMMA DescendantsBelow ==
    ASSUME ConsentTypeOK, Lineage,
           NEW ids, \A x \in DOMAIN edges : edges[x].parent \in ids => x \in ids,
           NEW e \in EdgeIds, NEW a \in ids, a \in forebears[e],
           \A x \in {e} \cup forebears[e] : a \in forebears[x] => x \in DOMAIN edges
    PROVE  e \in ids
<1> DEFINE T == {x \in {e} \cup forebears[e] : a \in forebears[x] /\ x \notin ids}
<1>1. SUFFICES ASSUME T # {} PROVE FALSE
  OBVIOUS
<1>2. forebears[e] \subseteq EdgeIds /\ EdgeIds \subseteq Nat
  BY DEF ConsentTypeOK, EdgeIds
<1>3. PICK x \in T : \A y \in T : x <= y
  <2>1. T \in SUBSET Nat  BY <1>2
  <2> HIDE DEF T
  <2> QED  BY <1>1, <2>1, LeastOf
<1>4. x \in EdgeIds /\ x \in DOMAIN edges /\ a \in forebears[x] /\ x \notin ids  BY <1>2
<1> DEFINE p == edges[x].parent
<1>5. p # 0 /\ forebears[x] = {p} \cup forebears[p]  BY <1>4 DEF Lineage, FromParent
<1>6. p \notin ids  BY <1>4
<1>7. a \in forebears[p]  BY <1>4, <1>5, <1>6
<1>8. p \in forebears[e]
  <2>1. x = e \/ forebears[x] \subseteq forebears[e]  BY DEF Lineage
  <2> QED  BY <1>5, <2>1
<1>9. p \in T  BY <1>6, <1>7, <1>8
<1>10. p < x  BY <1>4, <1>5 DEF Lineage
<1>11. x <= p /\ x \in Nat /\ p \in Nat  BY <1>2, <1>3, <1>4, <1>8, <1>9
<1> HIDE DEF p
<1> QED  BY <1>10, <1>11

LEMMA BelowIsClosed ==
    ASSUME NEW roots
    PROVE  /\ Below(roots) \subseteq DOMAIN edges
           /\ roots \cap DOMAIN edges \subseteq Below(roots)
           /\ \A e \in DOMAIN edges : edges[e].parent \in Below(roots) => e \in Below(roots)
  BY DEF Below

(* An edge with its status changed is an edge with the same parent.        *)
LEMMA RevokedEdge ==
    ASSUME NEW x \in Edges
    PROVE  LET y == [x EXCEPT !.status = "revoked"]
           IN  y \in Edges /\ y.parent = x.parent /\ y.status = "revoked"
  BY DEF Edges

LEMMA RevokedMap ==
    ASSUME EdgeMap(edges), NEW ids
    PROVE  /\ EdgeMap(Revoked(edges, ids)) /\ DOMAIN Revoked(edges, ids) = DOMAIN edges
           /\ \A e \in DOMAIN edges : Revoked(edges, ids)[e].parent = edges[e].parent
           /\ Active(Revoked(edges, ids)) = Active(edges) \ ids
<1>1. \A e \in DOMAIN edges : edges[e] \in Edges  BY DEF EdgeMap
<1>2. \A e \in DOMAIN edges :
         LET y == [edges[e] EXCEPT !.status = "revoked"]
         IN  y \in Edges /\ y.parent = edges[e].parent /\ y.status = "revoked"
  BY <1>1, RevokedEdge
<1> QED  BY <1>1, <1>2 DEF Revoked, EdgeMap, Active

LEMMA SavedRevokedMap ==
    ASSUME EdgeMap(edges), EdgeMap(savedEdges), NEW ids \in SUBSET DOMAIN edges
    PROVE  /\ EdgeMap(SavedRevoked(ids)) /\ DOMAIN SavedRevoked(ids) = DOMAIN savedEdges \cup ids
           /\ \A e \in ids : SavedRevoked(ids)[e].parent = edges[e].parent
           /\ \A e \in DOMAIN savedEdges \ ids : SavedRevoked(ids)[e] = savedEdges[e]
           /\ Active(SavedRevoked(ids)) = Active(savedEdges) \ ids
<1>1. \A e \in ids :
         LET y == [edges[e] EXCEPT !.status = "revoked"]
         IN  y \in Edges /\ y.parent = edges[e].parent /\ y.status = "revoked"
  BY RevokedEdge DEF EdgeMap
<1> QED  BY <1>1 DEF SavedRevoked, EdgeMap, Active

(* Edges are revoked in memory and, some of them, in storage.              *)
LEMMA CascadeInv ==
    ASSUME ConsentInv, NEW here \in SUBSET DOMAIN edges, NEW stored \in SUBSET DOMAIN edges,
           edges' = Revoked(edges, here), savedEdges' = SavedRevoked(stored),
           UNCHANGED <<members, savedMembers, minted, withdrawn, forebears, missed>>
    PROVE  ConsentInv'
<1>1. EdgeMap(edges) /\ EdgeMap(savedEdges)  BY DEF ConsentInv, ConsentTypeOK
<1>2. /\ EdgeMap(edges') /\ DOMAIN edges' = DOMAIN edges
      /\ \A e \in DOMAIN edges : edges'[e].parent = edges[e].parent
      /\ Active(edges') = Active(edges) \ here
  BY <1>1, RevokedMap
<1>3. /\ EdgeMap(savedEdges') /\ DOMAIN savedEdges' = DOMAIN savedEdges \cup stored
      /\ \A e \in stored : savedEdges'[e].parent = edges[e].parent
      /\ \A e \in DOMAIN savedEdges \ stored : savedEdges'[e] = savedEdges[e]
      /\ Active(savedEdges') = Active(savedEdges) \ stored
  BY <1>1, SavedRevokedMap
<1>5. ConsentTypeOK'
  BY <1>2, <1>3 DEF ConsentInv, ConsentTypeOK, EdgeMap
<1>6. RevokedIsFinal'
  BY <1>2, <1>3 DEF ConsentInv, RevokedIsFinal
<1>7. RevocationReachesDelegates'
  BY <1>2, <1>3 DEF ConsentInv, RevocationReachesDelegates
<1>8. Lineage'  BY <1>2, <1>3, LineageKept DEF ConsentInv
<1> QED  BY <1>5, <1>6, <1>7, <1>8 DEF ConsentInv

LEMMA RevokeFailsInv ==
    ASSUME ConsentInv, NEW roots, RevokeFails(roots)
    PROVE  ConsentInv'
<1>1. PICK last \in Below(roots), done \in SUBSET Below(roots) :
         \/ /\ edges' = Revoked(edges, done \cup {last})
            /\ savedEdges' = SavedRevoked(done)
         \/ /\ edges' = Revoked(edges, done \cup Below({last}))
            /\ savedEdges' = SavedRevoked(done \cup Below({last}))
  BY DEF RevokeFails
<1>2. Below(roots) \subseteq DOMAIN edges /\ Below({last}) \subseteq DOMAIN edges
  BY BelowIsClosed
<1>3. UNCHANGED <<members, savedMembers, minted, withdrawn, forebears, missed>>  BY DEF RevokeFails
<1>4. /\ done \cup {last} \in SUBSET DOMAIN edges
      /\ done \in SUBSET DOMAIN edges
      /\ done \cup Below({last}) \in SUBSET DOMAIN edges
  BY <1>1, <1>2
<1> QED  BY <1>1, <1>3, <1>4, CascadeInv

(* The whole cascade: nothing delegated from a revoked edge stays active,  *)
(* except where the graph in memory no longer connects it.                 *)
LEMMA RevokeInv ==
    ASSUME ConsentInv, NEW roots, Revoke(roots)
    PROVE  ConsentInv'
<1> DEFINE ids == Below(roots)
<1>0. /\ ids \in SUBSET DOMAIN edges
      /\ \A e \in DOMAIN edges : edges[e].parent \in ids => e \in ids
  BY BelowIsClosed
<1>1. /\ edges' = Revoked(edges, ids) /\ savedEdges' = SavedRevoked(ids)
      /\ withdrawn' = withdrawn \cup ids
      /\ missed' = missed \cup OutOfReach(ids)
      /\ UNCHANGED <<members, savedMembers, minted, forebears>>
  BY DEF Revoke
<1> HIDE DEF ids
<1>2. EdgeMap(edges) /\ EdgeMap(savedEdges)  BY DEF ConsentInv, ConsentTypeOK
<1>3. /\ EdgeMap(edges') /\ DOMAIN edges' = DOMAIN edges
      /\ \A e \in DOMAIN edges : edges'[e].parent = edges[e].parent
      /\ Active(edges') = Active(edges) \ ids
  BY <1>1, <1>2, RevokedMap
<1>4. /\ EdgeMap(savedEdges') /\ DOMAIN savedEdges' = DOMAIN savedEdges \cup ids
      /\ \A e \in ids : savedEdges'[e].parent = edges[e].parent
      /\ \A e \in DOMAIN savedEdges \ ids : savedEdges'[e] = savedEdges[e]
      /\ Active(savedEdges') = Active(savedEdges) \ ids
  BY <1>0, <1>1, <1>2, SavedRevokedMap
<1>5. /\ ids \subseteq 1..minted /\ 1..minted \subseteq EdgeIds
      /\ \A m \in {edges, savedEdges} : Active(m) \subseteq 1..minted
  BY <1>0, <1>2, ConsentAssumption DEF EdgeMap, Active, EdgeIds, ConsentInv, ConsentTypeOK
<1>6. OutOfReach(ids) \subseteq EdgeIds \X EdgeIds  BY <1>5 DEF OutOfReach
<1>7. ConsentTypeOK'
  BY <1>1, <1>3, <1>4, <1>5, <1>6 DEF ConsentInv, ConsentTypeOK, EdgeMap
<1>8. RevokedIsFinal'
  BY <1>1, <1>3, <1>4 DEF ConsentInv, RevokedIsFinal
<1>9. RevocationReachesDelegates'
  <2>1. SUFFICES ASSUME NEW m \in {edges, savedEdges}, NEW e \in Active(m), e \notin ids,
                        NEW a \in withdrawn \cup ids, a \in forebears[e]
                 PROVE  \E x \in {e} \cup forebears[e] : <<a, x>> \in missed'
    BY <1>1, <1>3, <1>4 DEF RevocationReachesDelegates
  <2>2. CASE a \in withdrawn
    BY <1>1, <2>1, <2>2 DEF ConsentInv, RevocationReachesDelegates
  <2>3. CASE a \in ids
    <3>1. e \in EdgeIds  BY <1>5
    <3>2. PICK x \in {e} \cup forebears[e] : a \in forebears[x] /\ x \notin DOMAIN edges
      BY <1>0, <2>1, <2>3, <3>1, DescendantsBelow DEF ConsentInv
    <3>3. x \in 1..minted
      BY <1>5, <3>1, <3>2 DEF ConsentInv, ConsentTypeOK, Lineage, EdgeIds
    <3>4. <<a, x>> \in OutOfReach(ids)  BY <2>3, <3>2, <3>3 DEF OutOfReach
    <3> QED  BY <1>1, <3>4
  <2> QED  BY <2>2, <2>3
<1>10. Lineage'  BY <1>0, <1>1, <1>3, <1>4, LineageKept DEF ConsentInv
<1> QED  BY <1>7, <1>8, <1>9, <1>10 DEF ConsentInv

(* An edge enters memory, and storage if it can; whoever delegated it held *)
(* an active edge, so what that edge escaped it escapes with it.           *)
LEMMA AddEdgeInv ==
    ASSUME ConsentInv, NEW edge \in Edges, AddEdge(edge),
           edge.parent = 0 \/ edge.parent \in Active(edges)
    PROVE  ConsentInv'
<1> DEFINE n == minted + 1
           q == edge.parent
           above == IF q = 0 THEN {} ELSE {q} \cup forebears[q]
<1>1. /\ edges' = With(edges, n, edge)
      /\ savedEdges' \in {savedEdges, With(savedEdges, n, edge)}
      /\ n \in EdgeIds /\ n \notin 1..minted /\ 1..minted \subseteq 1..n
      /\ minted' = n /\ n \in 0..MaxEdges
      /\ forebears' = [forebears EXCEPT ![n] = above]
      /\ UNCHANGED <<members, savedMembers, withdrawn, missed>>
  BY ConsentAssumption DEF ConsentInv, ConsentTypeOK, AddEdge, EdgeIds
<1>2. EdgeMap(edges) /\ EdgeMap(savedEdges)  BY DEF ConsentInv, ConsentTypeOK
<1>3. n \in 1..n /\ 1..minted \subseteq EdgeIds
  BY <1>1, ConsentAssumption DEF EdgeIds, ConsentInv, ConsentTypeOK
<1>4. q # 0 => q \in 1..minted  BY <1>2 DEF Active, EdgeMap
<1>5. above \subseteq 1..minted /\ \A x \in above : x < n /\ forebears[x] \subseteq above
  <2>1. CASE q = 0  BY <2>1
  <2>2. CASE q # 0
    <3>1. forebears[q] \subseteq EdgeIds /\ \A x \in forebears[q] : x < q
      BY <1>3, <1>4, <2>2 DEF ConsentInv, ConsentTypeOK, Lineage
    <3>2. \A x \in forebears[q] : forebears[x] \subseteq forebears[q]
      BY <1>3, <1>4, <2>2 DEF ConsentInv, Lineage
    <3>3. minted \in Nat  BY DEF ConsentInv, ConsentTypeOK
    <3>4. above \subseteq 1..minted  BY <1>4, <2>2, <3>1, <3>3 DEF EdgeIds
    <3> QED  BY <2>2, <3>2, <3>3, <3>4
  <2> QED  BY <2>1, <2>2
<1>6. /\ \A e \in EdgeIds : e # n => forebears'[e] = forebears[e]
      /\ forebears'[n] = above
      /\ \A e \in EdgeIds : e # n => n \notin forebears[e]
  BY <1>1 DEF ConsentInv, ConsentTypeOK, Lineage, EdgeIds
<1> HIDE DEF n, above
<1>7. ASSUME NEW m, EdgeMap(m)
      PROVE  /\ DOMAIN With(m, n, edge) = DOMAIN m \cup {n} /\ n \notin DOMAIN m
             /\ With(m, n, edge)[n] = edge
             /\ \A e \in DOMAIN m : With(m, n, edge)[e] = m[e]
             /\ Active(With(m, n, edge)) \subseteq Active(m) \cup {n}
             /\ DOMAIN With(m, n, edge) \subseteq 1..n
             /\ \A e \in DOMAIN With(m, n, edge) : With(m, n, edge)[e] \in Edges
  BY <1>1, <1>3, <1>7 DEF With, EdgeMap, Active
<1>8. withdrawn \subseteq 1..minted  BY DEF ConsentInv, ConsentTypeOK
<1>9. ConsentTypeOK'
  <2>1. \A m \in {edges, savedEdges} :
           DOMAIN m \subseteq 1..n /\ \A e \in DOMAIN m : m[e] \in Edges
    BY <1>1, <1>2 DEF EdgeMap
  <2>2. \A m \in {With(edges, n, edge), With(savedEdges, n, edge)} :
           DOMAIN m \subseteq 1..n /\ \A e \in DOMAIN m : m[e] \in Edges
    BY <1>2, <1>7
  <2>3. EdgeMap(edges)' /\ EdgeMap(savedEdges)'  BY <1>1, <2>1, <2>2 DEF EdgeMap
  <2>4. forebears' \in [EdgeIds -> SUBSET EdgeIds]
    BY <1>1, <1>3, <1>5 DEF ConsentInv, ConsentTypeOK
  <2> QED  BY <1>1, <1>8, <2>3, <2>4 DEF ConsentInv, ConsentTypeOK
<1>10. RevokedIsFinal'
  <2>1. n \notin withdrawn  BY <1>1, <1>8
  <2> QED  BY <1>1, <1>2, <1>7, <2>1 DEF ConsentInv, RevokedIsFinal
<1>11. RevocationReachesDelegates'
  <2>1. \A m \in {edges', savedEdges'} :
           Active(m) \subseteq Active(edges) \cup {n} \/ Active(m) \subseteq Active(savedEdges) \cup {n}
    BY <1>1, <1>2, <1>7
  <2>2. SUFFICES ASSUME NEW e, e \in Active(edges) \/ e \in Active(savedEdges) \/ e = n,
                        NEW a \in withdrawn, a \in forebears'[e]
                 PROVE  \E x \in {e} \cup forebears'[e] : <<a, x>> \in missed
    BY <1>1, <2>1 DEF RevocationReachesDelegates
  <2>3. CASE e # n
    <3>1. e \in EdgeIds  BY <1>2, <1>3, <2>2, <2>3 DEF Active, EdgeMap
    <3>2. forebears'[e] = forebears[e]  BY <1>6, <2>3, <3>1
    <3> QED  BY <2>2, <2>3, <3>2 DEF ConsentInv, RevocationReachesDelegates
  <2>4. CASE e = n
    <3>1. q \in Active(edges) /\ a \in {q} \cup forebears[q] /\ above = {q} \cup forebears[q]
      BY <1>6, <2>2, <2>4 DEF above
    <3>2. a \in forebears[q]  BY <3>1 DEF ConsentInv, RevokedIsFinal
    <3>3. PICK x \in {q} \cup forebears[q] : <<a, x>> \in missed
      BY <3>1, <3>2 DEF ConsentInv, RevocationReachesDelegates
    <3> QED  BY <1>6, <2>4, <3>1, <3>3
  <2> QED  BY <2>3, <2>4
<1>12. Lineage'
  <2>1. ASSUME NEW e \in EdgeIds
        PROVE  /\ \A x \in forebears'[e] : x < e
               /\ e > minted' => forebears'[e] = {}
               /\ \A x \in forebears'[e] : forebears'[x] \subseteq forebears'[e]
    <3>1. CASE e = n
      <4>1. forebears'[e] = above /\ n \notin above  BY <1>1, <1>5, <1>6, <3>1
      <4>2. \A x \in above : forebears'[x] = forebears[x]  BY <1>3, <1>5, <1>6, <4>1
      <4>3. ~ (e > minted')  BY <1>1, <3>1 DEF EdgeIds
      <4> QED  BY <1>5, <3>1, <4>1, <4>2, <4>3
    <3>2. CASE e # n
      <4>1. forebears'[e] = forebears[e] /\ n \notin forebears[e] /\ forebears[e] \subseteq EdgeIds
        BY <1>6, <3>2 DEF ConsentInv, ConsentTypeOK
      <4>2. \A x \in forebears[e] : forebears'[x] = forebears[x]  BY <1>6, <4>1
      <4>3. e > minted' => e > minted
        BY <1>1 DEF n, ConsentInv, ConsentTypeOK, EdgeIds
      <4> QED  BY <4>1, <4>2, <4>3 DEF ConsentInv, Lineage
    <3> QED  BY <3>1, <3>2
  <2>2. ASSUME NEW m \in {edges, savedEdges}, NEW e \in DOMAIN m
        PROVE  forebears'[e] = IF m[e].parent = 0 THEN {}
                               ELSE {m[e].parent} \cup forebears'[m[e].parent]
    <3>1. e \in EdgeIds /\ e # n /\ m[e].parent \in 0..MaxEdges
      BY <1>1, <1>2, <1>3 DEF EdgeMap, Edges
    <3>2. forebears'[e] = forebears[e] /\ n \notin forebears[e]  BY <1>6, <3>1
    <3>3. forebears[e] = IF m[e].parent = 0 THEN {}
                         ELSE {m[e].parent} \cup forebears[m[e].parent]
      BY DEF ConsentInv, Lineage, FromParent
    <3>4. CASE m[e].parent = 0  BY <3>2, <3>3, <3>4
    <3>5. CASE m[e].parent # 0
      <4>1. m[e].parent \in EdgeIds /\ m[e].parent # n
        BY <3>1, <3>2, <3>3, <3>5 DEF EdgeIds
      <4> QED  BY <1>6, <3>2, <3>3, <3>5, <4>1
    <3> QED  BY <3>4, <3>5
  <2>3. forebears'[n] = IF q = 0 THEN {} ELSE {q} \cup forebears'[q]
    <3>1. q # 0 => q \in EdgeIds /\ q # n  BY <1>1, <1>3, <1>4
    <3> QED  BY <1>6, <3>1 DEF above
  <2>4. ASSUME NEW m \in {edges', savedEdges'}, NEW e \in DOMAIN m
        PROVE  forebears'[e] = IF m[e].parent = 0 THEN {}
                               ELSE {m[e].parent} \cup forebears'[m[e].parent]
    <3>1. CASE e = n
      <4>1. m[e] = edge  BY <1>1, <1>2, <1>7, <2>4, <3>1
      <4> QED  BY <2>3, <3>1, <4>1
    <3>2. CASE e # n
      <4>1. PICK k \in {edges, savedEdges} : m = k \/ m = With(k, n, edge)
        BY <1>1, <2>4
      <4>2. EdgeMap(k)  BY <1>2
      <4>3. CASE m = k  BY <2>2, <2>4, <4>3
      <4>4. CASE m = With(k, n, edge)
        <5>1. e \in DOMAIN k /\ m[e] = k[e]  BY <1>7, <2>4, <3>2, <4>2, <4>4
        <5> QED  BY <2>2, <5>1
      <4> QED  BY <4>1, <4>3, <4>4
    <3> QED  BY <3>1, <3>2
  <2> QED  BY <2>1, <2>4 DEF Lineage, FromParent
<1> QED  BY <1>9, <1>10, <1>11, <1>12 DEF ConsentInv

LEMMA GrantInv ==
    ASSUME ConsentInv, NEW g \in Grants, Grant(g)
    PROVE  ConsentInv'
<1> DEFINE edge == [src |-> g.src, tgt |-> g.tgt, delegatable |-> g.delegatable,
                    limit |-> g.limit, depth |-> 0, parent |-> 0, status |-> "active"]
<1>1. edge \in Edges /\ edge.parent = 0
  BY GrantsAssumption, ConsentAssumption DEF Edges
<1>2. AddEdge(edge)  BY DEF Grant
<1> HIDE DEF edge
<1> QED  BY <1>1, <1>2, AddEdgeInv

LEMMA DelegateInv ==
    ASSUME ConsentInv, NEW p \in EdgeIds, NEW t \in Holders, Delegate(p, t)
    PROVE  ConsentInv'
<1> DEFINE edge == [edges[p] EXCEPT !.tgt = t, !.depth = @ + 1, !.parent = p]
<1>1. /\ p \in DOMAIN edges /\ p \in Active(edges)
      /\ edges[p] \in Edges
  BY DEF ConsentInv, ConsentTypeOK, EdgeMap, Delegate, CanDelegate, Active
<1>2. edge \in Edges /\ edge.parent = p
  <2>1. t \in Nodes /\ p \in 0..MaxEdges
    BY ConsentAssumption DEF Nodes, EdgeIds
  <2>2. edges[p].depth + 1 \in Nat  BY <1>1 DEF Edges
  <2> QED  BY <1>1, <2>1, <2>2 DEF Edges
<1>3. AddEdge(edge)  BY DEF Delegate
<1> HIDE DEF edge
<1> QED  BY <1>1, <1>2, <1>3, AddEdgeInv

LEMMA RemoveNodeInv ==
    ASSUME ConsentInv, NEW n \in Nodes, RemoveNode(n)
    PROVE  ConsentInv'
<1>1. /\ edges' = [e \in DOMAIN edges \ Touching(n) |-> edges[e]]
      /\ UNCHANGED <<savedEdges, minted, withdrawn, forebears, missed>>
  BY DEF RemoveNode
<1>2. /\ DOMAIN edges' = DOMAIN edges \ Touching(n)
      /\ \A e \in DOMAIN edges' : edges'[e] = edges[e]
  BY <1>1
<1>3. Active(edges') \subseteq Active(edges)  BY <1>2 DEF Active
<1>4. ConsentTypeOK'
  <2>1. ASSUME NEW m \in [Groups -> SUBSET Nodes], NEW gs
        PROVE  Left(m, n, gs) \in [Groups -> SUBSET Nodes]
    BY <2>1 DEF ConsentInv, ConsentTypeOK, Left
  <2>2. members' \in [Groups -> SUBSET Nodes] /\ savedMembers' \in [Groups -> SUBSET Nodes]
    <3>1. \E gs, hs : members' = Left(members, n, gs) /\ savedMembers' = Left(savedMembers, n, hs)
      BY Zenon DEF RemoveNode
    <3>2. members \in [Groups -> SUBSET Nodes] /\ savedMembers \in [Groups -> SUBSET Nodes]
      BY DEF ConsentInv, ConsentTypeOK
    <3> QED  BY <2>1, <3>1, <3>2, Zenon
  <2> QED  BY <1>1, <1>2, <2>2 DEF ConsentInv, ConsentTypeOK, EdgeMap
<1>5. RevokedIsFinal'  BY <1>1, <1>3 DEF ConsentInv, RevokedIsFinal
<1>6. RevocationReachesDelegates'
  BY <1>1, <1>3 DEF ConsentInv, RevocationReachesDelegates
<1>7. Lineage'  BY <1>1, <1>2, LineageKept DEF ConsentInv
<1> QED  BY <1>4, <1>5, <1>6, <1>7 DEF ConsentInv

LEMMA SetMembersInv ==
    ASSUME ConsentInv, NEW g \in Groups, NEW group \in SUBSET Nodes, SetMembers(g, group)
    PROVE  ConsentInv'
<1>1. UNCHANGED <<edges, savedEdges, minted, withdrawn, forebears, missed>>  BY DEF SetMembers
<1>2. members' \in [Groups -> SUBSET Nodes] /\ savedMembers' \in [Groups -> SUBSET Nodes]
  BY DEF SetMembers, ConsentInv, ConsentTypeOK
<1>3. Lineage'  BY <1>1, LineageKept DEF ConsentInv
<1> QED
  BY <1>1, <1>2, <1>3 DEF ConsentInv, ConsentTypeOK, EdgeMap, Active, RevokedIsFinal,
                          RevocationReachesDelegates

LEMMA ReloadConsentInv ==
    ASSUME ConsentInv, ReloadConsent
    PROVE  ConsentInv'
<1>1. Lineage'  BY LineageKept DEF ReloadConsent, ConsentInv
<1> QED
  BY <1>1 DEF ReloadConsent, ConsentInv, ConsentTypeOK, EdgeMap, Active, RevokedIsFinal,
              RevocationReachesDelegates

LEMMA ConsentStill ==
    ASSUME ConsentInv, UNCHANGED consentVars
    PROVE  ConsentInv'
<1>1. Lineage'  BY LineageKept DEF consentVars, ConsentInv
<1> QED
  BY <1>1 DEF consentVars, ConsentInv, ConsentTypeOK, EdgeMap, Active, RevokedIsFinal,
              RevocationReachesDelegates

LEMMA ConsentNextInv ==
    ASSUME ConsentInv, ConsentNext
    PROVE  ConsentInv'
<1>1. ASSUME NEW g \in Groups, NEW n \in Holders \cup {Owner},
             SetMembers(g, members[g] \cup {n}) \/ SetMembers(g, members[g] \ {n})
      PROVE  ConsentInv'
  <2>1. members[g] \cup {n} \in SUBSET Nodes /\ members[g] \ {n} \in SUBSET Nodes
    BY DEF ConsentInv, ConsentTypeOK, Nodes
  <2> QED  BY <1>1, <2>1, SetMembersInv
<1> QED
  BY <1>1, GrantInv, DelegateInv, RevokeInv, RevokeFailsInv, RemoveNodeInv DEF ConsentNext

LEMMA ConsentStarts ==
    ASSUME ConsentInit
    PROVE  ConsentInv
  BY ConsentAssumption DEF ConsentInit, ConsentInv, ConsentTypeOK, EdgeMap, Active,
     RevokedIsFinal, RevocationReachesDelegates, Lineage, FromParent

-----------------------------------------------------------------------------
(* The contract broker                                                     *)

(* Memory knows every stored contract, and the log the server's signature  *)
(* of every contract in memory.                                            *)
ContractPart ==
    /\ ContractMap(contracts) /\ ContractMap(savedContracts)
    /\ made \in 0..MaxContracts /\ entries \subseteq Entries /\ ended \subseteq 1..made
    /\ EndedContractsStayEnded
    /\ StoredContractsLogged
    /\ \A c \in ContractIds :
          /\ savedContracts[c] # None => contracts[c] # None
          /\ contracts[c] # None => <<"contract_signed", c>> \in entries

(* A session that was refused is over for good, and no request of it is    *)
(* being evaluated.                                                        *)
SessionPart ==
    /\ sessions \in [SessionIds -> Sessions \cup {None}]
    /\ evaluating \in SessionIds \cup {None}
    /\ opened \in 0..MaxSessions /\ refused \subseteq 1..opened
    /\ evaluating # None => /\ evaluating \in 1..opened /\ sessions[evaluating] # None
                            /\ evaluating \notin refused
    /\ \A s \in refused : sessions[s] = None \/ TooLate(s)
    /\ \A s \in SessionIds : sessions[s] # None => s \in 1..opened

BrokerInv == ContractPart /\ SessionPart

LEMMA ContractsStill ==
    ASSUME ContractPart, UNCHANGED <<contracts, savedContracts, made, entries, ended>>
    PROVE  ContractPart'
  BY DEF ContractPart, ContractMap, EndedContractsStayEnded, StoredContractsLogged

LEMMA SessionsStill ==
    ASSUME SessionPart, UNCHANGED <<sessions, evaluating, opened, refused>>
    PROVE  SessionPart'
  BY DEF SessionPart, TooLate

(* Sessions change: only those that were refused matter.                   *)
LEMMA OpenSessionPart ==
    ASSUME SessionPart, NEW a \in Agents, OpenSession(a)
    PROVE  SessionPart'
<1> DEFINE new == [agent |-> a, status |-> "pending", rounds |-> 0, timedOut |-> FALSE]
<1>1. /\ opened + 1 \in SessionIds /\ opened + 1 \in 1..(opened + 1) /\ opened + 1 \notin 1..opened
      /\ opened + 1 \in 0..MaxSessions /\ 1..opened \subseteq 1..(opened + 1)
  BY BrokerAssumption DEF SessionPart, OpenSession, SessionIds
<1>2. new \in Sessions /\ new # None
  <2>1. new \in Sessions  BY DEF Sessions
  <2> QED  BY <2>1, NoneAssumption
<1>3. /\ sessions' = [sessions EXCEPT ![opened + 1] = new]
      /\ opened' = opened + 1 /\ refused' = refused
      /\ evaluating' \in {opened + 1, None}
  BY DEF OpenSession
<1> HIDE DEF new
<1> QED  BY <1>1, <1>2, <1>3 DEF SessionPart, TooLate

(* A session gets another status, and more rounds, or times out.           *)
LEMMA SessionChange ==
    ASSUME SessionPart, NEW s \in SessionIds, sessions[s] # None, NEW x \in Sessions,
           sessions' = [sessions EXCEPT ![s] = x],
           UNCHANGED opened, s \in refused => TooLate(s)',
           \/ refused' = refused
           \/ refused' = refused \cup {s} /\ s \in 1..opened /\ evaluating = None /\ TooLate(s)',
           evaluating' \in {evaluating, None, s},
           evaluating' = s => s \notin refused' /\ s \in 1..opened
    PROVE  SessionPart'
<1>1. x # None  BY NoneAssumption
<1>2. /\ sessions' \in [SessionIds -> Sessions \cup {None}]
      /\ sessions'[s] = x
      /\ \A q \in SessionIds : q # s => sessions'[q] = sessions[q]
  BY DEF SessionPart
<1>3. refused' \subseteq 1..opened /\ 1..opened \subseteq SessionIds
  <2>1. 1..opened \subseteq SessionIds  BY BrokerAssumption DEF SessionPart, SessionIds
  <2>2. refused \subseteq 1..opened  BY DEF SessionPart
  <2> QED  BY <2>1, <2>2
<1>4. ASSUME NEW q \in refused' PROVE sessions'[q] = None \/ TooLate(q)'
  <2>1. CASE q = s  BY <2>1, <1>4
  <2>2. CASE q # s
    <3>1. q \in refused /\ q \in SessionIds  BY <1>3, <1>4, <2>2
    <3>2. sessions'[q] = sessions[q]  BY <1>2, <2>2, <3>1
    <3> QED  BY <3>1, <3>2 DEF SessionPart, TooLate
  <2> QED  BY <2>1, <2>2
<1>5. evaluating' # None =>
         /\ evaluating' \in 1..opened /\ sessions'[evaluating'] # None
         /\ evaluating' \notin refused'
  BY <1>1, <1>2, <1>3 DEF SessionPart
<1>6. evaluating' \in SessionIds \cup {None}  BY DEF SessionPart
<1>7. \A q \in SessionIds : sessions'[q] # None => q \in 1..opened
  BY <1>2 DEF SessionPart
<1>8. UNCHANGED opened /\ opened \in 0..MaxSessions  BY DEF SessionPart
<1> QED  BY <1>2, <1>3, <1>4, <1>5, <1>6, <1>7, <1>8 DEF SessionPart

LEMMA SessionNext ==
    ASSUME SessionPart, NEW s \in SessionIds, SessionTimesOut(s) \/ Refuse(s) \/ Continue(s)
    PROVE  SessionPart' /\ UNCHANGED <<contracts, savedContracts, made, entries, ended>>
<1>1. sessions[s] # None /\ sessions[s] \in Sessions /\ s \in 1..opened
  BY DEF SessionPart, SessionTimesOut, Refuse, Continue
<1>2. sessions \in [SessionIds -> Sessions \cup {None}]  BY DEF SessionPart
<1>3. CASE SessionTimesOut(s)
  <2> DEFINE x == [sessions[s] EXCEPT !.timedOut = TRUE]
  <2>1. sessions' = [sessions EXCEPT ![s] = x]  BY <1>3 DEF SessionTimesOut
  <2>2. x \in Sessions /\ x.timedOut  BY <1>1 DEF Sessions
  <2>3. UNCHANGED <<evaluating, opened, refused>>  BY <1>3 DEF SessionTimesOut
  <2> HIDE DEF x
  <2>4. TooLate(s)'  BY <1>2, <2>1, <2>2 DEF TooLate
  <2>5. evaluating' = s => s \notin refused' /\ s \in 1..opened
    BY <1>1, <2>3, BrokerAssumption DEF SessionPart, SessionIds
  <2>6. SessionPart'  BY <1>1, <2>1, <2>2, <2>3, <2>4, <2>5, SessionChange
  <2> QED  BY <1>3, <2>6 DEF SessionTimesOut
<1>4. CASE Refuse(s)
  <2> DEFINE x == [sessions[s] EXCEPT !.status = "rejected"]
  <2>1. /\ sessions' = [sessions EXCEPT ![s] = x] /\ evaluating = None /\ TooLate(s)
        /\ refused' = refused \/ refused' = refused \cup {s}
        /\ UNCHANGED <<evaluating, opened>>
    BY <1>4 DEF Refuse
  <2>2. x \in Sessions /\ x.timedOut = sessions[s].timedOut /\ x.rounds = sessions[s].rounds
    BY <1>1 DEF Sessions
  <2> HIDE DEF x
  <2>3. TooLate(s)'  BY <1>2, <2>1, <2>2 DEF TooLate
  <2>4. evaluating' # s  BY <2>1, BrokerAssumption DEF SessionIds
  <2>5. SessionPart'  BY <1>1, <2>1, <2>2, <2>3, <2>4, SessionChange
  <2> QED  BY <1>4, <2>5 DEF Refuse
<1>5. CASE Continue(s)
  <2> DEFINE x == [sessions[s] EXCEPT !.rounds = @ + 1]
  <2>1. /\ sessions' = [sessions EXCEPT ![s] = x] /\ ~TooLate(s)
        /\ evaluating' \in {None, s} /\ UNCHANGED <<opened, refused>>
    BY <1>5 DEF Continue
  <2>2. x \in Sessions  BY <1>1 DEF Sessions
  <2>3. s \notin refused  BY <1>1, <2>1 DEF SessionPart
  <2> HIDE DEF x
  <2>4. SessionPart'  BY <1>1, <2>1, <2>2, <2>3, SessionChange
  <2> QED  BY <1>5, <2>4 DEF Continue
<1> QED  BY <1>3, <1>4, <1>5

LEMMA CounterProposePart ==
    ASSUME SessionPart, CounterPropose
    PROVE  SessionPart' /\ UNCHANGED <<contracts, savedContracts, made, entries, ended>>
<1> DEFINE s == evaluating
           x == [sessions[s] EXCEPT !.status = "counter", !.rounds = IF @ = 0 THEN 1 ELSE @]
<1>1. /\ s \in SessionIds /\ sessions[s] # None /\ sessions[s] \in Sessions
      /\ s \notin refused
  BY DEF SessionPart, CounterPropose
<1>2. x \in Sessions  BY <1>1 DEF Sessions
<1>3. sessions \in [SessionIds -> Sessions \cup {None}]  BY DEF SessionPart
<1>4. /\ sessions' = [sessions EXCEPT ![s] = x] /\ evaluating' = None
      /\ UNCHANGED <<opened, refused>>
  BY <1>1, <1>3 DEF CounterPropose
<1>5. None # s  BY <1>1, BrokerAssumption DEF SessionIds
<1> HIDE DEF s, x
<1>6. SessionPart'  BY <1>1, <1>2, <1>4, <1>5, SessionChange
<1> QED  BY <1>6 DEF CounterPropose

(* A contract gets a status, an entry is logged and the contract is saved, *)
(* as far as it comes.                                                     *)
LEMMA UpdatePart ==
    ASSUME ContractPart, NEW c \in ContractIds, NEW status \in {"active", "revoked"},
           NEW event \in SUBSET Entries, NEW done \in Progress, Update(c, status, event, done),
           status = "active" => c \notin ended /\ <<"agent_signed", c>> \in event,
           ended' = IF status = "revoked" /\ done = "all" THEN ended \cup {c} ELSE ended
    PROVE  ContractPart'
<1> DEFINE x == [contracts[c] EXCEPT !.status = status]
<1>1. /\ contracts[c] # None /\ contracts[c] \in Contracts /\ c \in 1..made
      /\ \A m \in {contracts, savedContracts} : DOMAIN m = ContractIds
      /\ \A b \in ContractIds : /\ contracts[b] \in Contracts \cup {None}
                              /\ savedContracts[b] \in Contracts \cup {None}
  <2>1. contracts[c] # None /\ c <= made
    BY DEF Update, ContractPart, ContractMap
  <2> QED  BY <2>1, BrokerAssumption DEF ContractPart, ContractMap, ContractIds
<1>2. x \in Contracts /\ x.status = status  BY <1>1 DEF Contracts
<1>3. x # None  BY <1>2, NoneAssumption
<1>4. /\ contracts' = [contracts EXCEPT ![c] = x]
      /\ entries' \in {entries, entries \cup event}
      /\ savedContracts' = IF done = "all" THEN [savedContracts EXCEPT ![c] = x]
                                           ELSE savedContracts
      /\ done = "all" => entries' = entries \cup event
      /\ UNCHANGED made
  BY <1>1 DEF Update
<1> HIDE DEF x
<1>5. /\ contracts'[c] = x /\ \A b \in ContractIds \ {c} : contracts'[b] = contracts[b]
      /\ DOMAIN contracts' = ContractIds /\ DOMAIN savedContracts' = ContractIds
      /\ savedContracts'[c] = IF done = "all" THEN x ELSE savedContracts[c]
      /\ \A b \in ContractIds \ {c} : savedContracts'[b] = savedContracts[b]
  BY <1>1, <1>4
<1>6. ended' \subseteq 1..made /\ 1..made \subseteq ContractIds /\ entries' \subseteq Entries
  BY <1>1, <1>4, BrokerAssumption DEF ContractPart, ContractIds
<1>7. ContractMap(contracts)' /\ ContractMap(savedContracts)'
  BY <1>1, <1>2, <1>4, <1>5, BrokerAssumption DEF ContractPart, ContractMap, ContractIds
<1>8. EndedContractsStayEnded'
  <2> SUFFICES ASSUME NEW b \in ended'
               PROVE  /\ contracts'[b] # None /\ contracts'[b].status = "revoked"
                      /\ savedContracts'[b] # None /\ savedContracts'[b].status = "revoked"
    BY DEF EndedContractsStayEnded
  <2>1. CASE b = c
    <3>1. status = "revoked"  BY <2>1
    <3>2. done = "all" \/ b \in ended  BY <2>1
    <3> QED
      BY <1>2, <1>3, <1>5, <2>1, <3>1, <3>2 DEF ContractPart, EndedContractsStayEnded
  <2>2. CASE b # c
    <3>1. b \in ended /\ b \in ContractIds  BY <1>6, <2>2
    <3> QED  BY <1>5, <2>2, <3>1 DEF ContractPart, EndedContractsStayEnded
  <2> QED  BY <2>1, <2>2
<1>9. ASSUME NEW b \in ContractIds
      PROVE  /\ savedContracts'[b] # None => contracts'[b] # None
             /\ contracts'[b] # None => <<"contract_signed", b>> \in entries'
  BY <1>1, <1>3, <1>4, <1>5 DEF ContractPart
<1>10. StoredContractsLogged'
  <2> SUFFICES ASSUME NEW b \in ContractIds, savedContracts'[b] # None,
                      Countersigned, savedContracts'[b].status = "active"
               PROVE  <<"agent_signed", b>> \in entries'
    BY <1>9 DEF StoredContractsLogged
  <2>1. CASE b = c /\ done = "all"  BY <1>2, <1>4, <1>5, <2>1
  <2>2. CASE ~(b = c /\ done = "all")
    <3>1. savedContracts'[b] = savedContracts[b]  BY <1>5, <2>2
    <3> QED  BY <1>4, <3>1 DEF ContractPart, StoredContractsLogged
  <2> QED  BY <2>1, <2>2
<1> QED  BY <1>4, <1>6, <1>7, <1>8, <1>9, <1>10 DEF ContractPart

LEMMA SignPart ==
    ASSUME BrokerInv, NEW c \in ContractIds, NEW done \in Progress, Sign(c, done)
    PROVE  BrokerInv'
<1>1. c \notin ended
  BY DEF Sign, BrokerInv, ContractPart, EndedContractsStayEnded
<1>2. /\ Update(c, "active", {<<"agent_signed", c>>}, done) /\ ended' = ended
      /\ {<<"agent_signed", c>>} \in SUBSET Entries
  BY DEF Sign, Entries
<1>3. ContractPart'  BY <1>1, <1>2, UpdatePart DEF BrokerInv
<1>4. SessionPart'  BY <1>2, SessionsStill DEF Update, BrokerInv
<1> QED  BY <1>3, <1>4 DEF BrokerInv

LEMMA RevokeContractPart ==
    ASSUME BrokerInv, NEW c \in ContractIds, NEW done \in Progress, RevokeContract(c, done)
    PROVE  BrokerInv'
<1>1. /\ Update(c, "revoked", {}, done) /\ {} \in SUBSET Entries
      /\ ended' = IF done = "all" THEN ended \cup {c} ELSE ended
  BY DEF RevokeContract
<1>2. ContractPart'  BY <1>1, UpdatePart DEF BrokerInv
<1>3. SessionPart'  BY <1>1, SessionsStill DEF Update, BrokerInv
<1> QED  BY <1>2, <1>3 DEF BrokerInv

LEMMA AcceptPart ==
    ASSUME BrokerInv, Accept
    PROVE  BrokerInv'
<1> DEFINE c == made + 1
           x == NewContract
<1>1. /\ evaluating \in SessionIds /\ sessions[evaluating] \in Sessions
      /\ sessions[evaluating] # None /\ evaluating \notin refused /\ evaluating \in 1..opened
      /\ sessions \in [SessionIds -> Sessions \cup {None}] /\ made < MaxContracts
  BY DEF Accept, BrokerInv, SessionPart
<1>2. /\ x \in Contracts /\ x.status \in {"active", "pending_countersign"}
      /\ Countersigned => x.status = "pending_countersign"
  BY <1>1 DEF NewContract, Contracts, Sessions
<1>3. x # None  BY <1>2, NoneAssumption
<1>4. /\ c \in ContractIds /\ c \in 0..MaxContracts /\ c \notin 1..made
      /\ 1..made \subseteq 1..c /\ c \in 1..c
  BY <1>1, BrokerAssumption DEF BrokerInv, ContractPart, ContractIds
<1>5. /\ UNCHANGED <<opened, refused, ended>> /\ evaluating' = None
      /\ \/ UNCHANGED <<contracts, savedContracts, sessions, made, entries>>
         \/ /\ made' = c
            /\ entries' = entries \cup {<<"contract_signed", c>>}
            /\ contracts' = [contracts EXCEPT ![c] = x]
            /\ savedContracts' \in {savedContracts, [savedContracts EXCEPT ![c] = x]}
            /\ sessions' \in {sessions, [sessions EXCEPT ![evaluating].status = "accepted"]}
  BY DEF Accept
<1> HIDE DEF c, x
<1>6. SessionPart'
  <2> DEFINE y == [sessions[evaluating] EXCEPT !.status = "accepted"]
  <2>1. y \in Sessions  BY <1>1 DEF Sessions
  <2>2. sessions' \in {[sessions EXCEPT ![evaluating] = sessions[evaluating]],
                       [sessions EXCEPT ![evaluating] = y]}
    BY <1>1, <1>5
  <2>3. None # evaluating  BY <1>1, BrokerAssumption DEF SessionIds
  <2> HIDE DEF y
  <2>4. SessionPart  BY DEF BrokerInv
  <2>5. CASE sessions' = [sessions EXCEPT ![evaluating] = y]
    BY <1>1, <1>5, <2>1, <2>3, <2>4, <2>5, SessionChange
  <2>6. CASE sessions' = [sessions EXCEPT ![evaluating] = sessions[evaluating]]
    BY <1>1, <1>5, <2>3, <2>4, <2>6, SessionChange
  <2> QED  BY <2>2, <2>5, <2>6
<1>7. CASE UNCHANGED <<contracts, savedContracts, sessions, made, entries>>
  <2>1. ContractPart'  BY <1>5, <1>7, ContractsStill DEF BrokerInv
  <2> QED  BY <1>6, <2>1 DEF BrokerInv
<1>8. CASE /\ made' = c
           /\ entries' = entries \cup {<<"contract_signed", c>>}
           /\ contracts' = [contracts EXCEPT ![c] = x]
           /\ savedContracts' \in {savedContracts, [savedContracts EXCEPT ![c] = x]}
  <2>1. /\ contracts[c] = None /\ savedContracts[c] = None
        /\ DOMAIN contracts = ContractIds /\ DOMAIN savedContracts = ContractIds
        /\ ended \subseteq 1..made
    BY <1>4, BrokerAssumption DEF BrokerInv, ContractPart, ContractMap, ContractIds
  <2>2. /\ contracts'[c] = x /\ savedContracts'[c] \in {None, x}
        /\ DOMAIN contracts' = ContractIds /\ DOMAIN savedContracts' = ContractIds
        /\ \A b \in ContractIds \ {c} : /\ contracts'[b] = contracts[b]
                                     /\ savedContracts'[b] = savedContracts[b]
    BY <1>4, <1>8, <2>1
  <2>3. ContractMap(contracts)' /\ ContractMap(savedContracts)'
    BY <1>2, <1>4, <1>8, <2>2, BrokerAssumption
       DEF BrokerInv, ContractPart, ContractMap, ContractIds, c
  <2>4. ended' \subseteq 1..made' /\ made' \in 0..MaxContracts /\ entries' \subseteq Entries
    BY <1>4, <1>5, <1>8, <2>1 DEF BrokerInv, ContractPart, Entries
  <2>5. EndedContractsStayEnded'
    <3>1. \A b \in ended : b \in ContractIds \ {c}
      BY <1>4, <2>1, BrokerAssumption DEF BrokerInv, ContractPart, ContractIds
    <3> QED  BY <1>5, <2>2, <3>1 DEF BrokerInv, ContractPart, EndedContractsStayEnded
  <2>6. \A b \in ContractIds :
           /\ savedContracts'[b] # None => contracts'[b] # None
           /\ contracts'[b] # None => <<"contract_signed", b>> \in entries'
    BY <1>3, <1>8, <2>2 DEF BrokerInv, ContractPart
  <2>7. StoredContractsLogged'
    BY <1>2, <1>8, <2>2, <2>6 DEF BrokerInv, ContractPart, StoredContractsLogged
  <2> QED  BY <1>6, <2>3, <2>4, <2>5, <2>6, <2>7 DEF BrokerInv, ContractPart
<1> QED  BY <1>5, <1>7, <1>8

LEMMA ReloadBrokerInv ==
    ASSUME BrokerInv, ReloadBroker
    PROVE  BrokerInv'
<1>1. ContractPart'
  BY DEF ReloadBroker, BrokerInv, ContractPart, ContractMap, EndedContractsStayEnded,
         StoredContractsLogged
<1>2. SessionPart'
  <2>1. refused \subseteq SessionIds
    BY BrokerAssumption DEF BrokerInv, SessionPart, SessionIds
  <2> QED  BY <2>1 DEF ReloadBroker, BrokerInv, SessionPart
<1> QED  BY <1>1, <1>2 DEF BrokerInv

LEMMA BrokerStill ==
    ASSUME BrokerInv, UNCHANGED brokerVars
    PROVE  BrokerInv'
  BY ContractsStill, SessionsStill DEF BrokerInv, brokerVars

LEMMA BrokerNextInv ==
    ASSUME BrokerInv, BrokerNext
    PROVE  BrokerInv'
<1>1. ASSUME NEW a \in Agents, OpenSession(a) PROVE BrokerInv'
  BY <1>1, OpenSessionPart, ContractsStill DEF BrokerInv, OpenSession
<1>2. ASSUME NEW s \in SessionIds, SessionTimesOut(s) \/ Refuse(s) \/ Continue(s)
      PROVE  BrokerInv'
  BY <1>2, SessionNext, ContractsStill DEF BrokerInv
<1>3. CASE CounterPropose
  BY <1>3, CounterProposePart, ContractsStill DEF BrokerInv
<1> QED
  BY <1>1, <1>2, <1>3, AcceptPart, SignPart, RevokeContractPart DEF BrokerNext

LEMMA BrokerStarts ==
    ASSUME BrokerInit
    PROVE  BrokerInv
  BY BrokerAssumption DEF BrokerInit, BrokerInv, ContractPart, SessionPart, ContractMap,
     EndedContractsStayEnded, StoredContractsLogged, ContractIds, SessionIds

(* The sessions that are refused get no contract.                          *)
LEMMA RefusedGetNone ==
    ASSUME BrokerInv, BrokerNext, NEW c \in ContractIds, contracts[c] = None,
           contracts'[c] # None
    PROVE  contracts'[c].session \notin refused
<1>1. ASSUME NEW b \in ContractIds, NEW status, NEW event, NEW done,
             Update(b, status, event, done)
      PROVE  FALSE
  BY <1>1 DEF Update, BrokerInv, ContractPart, ContractMap
<1>2. Accept
  BY <1>1 DEF BrokerNext, OpenSession, SessionTimesOut, Refuse, Continue, CounterPropose,
              Sign, RevokeContract
<1>3. evaluating \notin refused  BY <1>2 DEF Accept, BrokerInv, SessionPart
<1>4. DOMAIN contracts = ContractIds  BY DEF BrokerInv, ContractPart, ContractMap
<1>5. contracts' = [contracts EXCEPT ![made + 1] = NewContract]  BY <1>2 DEF Accept
<1>6. contracts'[c] = NewContract  BY <1>4, <1>5
<1> QED  BY <1>3, <1>6 DEF NewContract

-----------------------------------------------------------------------------
(* The provenance ledger                                                   *)

Events == {"tool_called", "error", "receipt"} \X Calls
Recs == [hash : Nat, prev : Int, what : Events]
Ledgers == [mem : Seq(Recs), disk : Seq(Recs), genesis : Int, since : Nat,
            anchored : SUBSET Seq(Nat), made : Nat, lost : SUBSET Nat]

Bounded(l) ==
    /\ \A chain \in {l.mem, l.disk} : \A i \in DOMAIN chain : chain[i].hash \in 1..l.made
    /\ l.lost \subseteq 1..l.made /\ l.since <= l.made /\ Len(l.disk) <= l.made

(* GapsAreLosses of any ledger, chain by chain.                            *)
Gapless(l, chain) ==
    \A i \in DOMAIN chain :
        \/ chain[i].prev = (IF i = 1 THEN l.genesis ELSE chain[i - 1].hash)
        \/ chain[i].prev \in l.lost

(* Storage ends where memory ends, or the end of memory was lost; it has   *)
(* what memory has, or something in memory was lost.                       *)
Follows(l) ==
    /\ l.mem = <<>> => l.disk = <<>>
    /\ l.mem # <<>> => \/ Last(l.mem).hash \in l.lost
                       \/ l.disk # <<>> /\ Last(l.disk) = Last(l.mem)
    /\ l.mem = l.disk \/ \E i \in DOMAIN l.mem : l.mem[i].hash \in l.lost

Anchors(l) ==
    \A root \in l.anchored :
        IsPrefix(root, Hashes(l.disk)) \/ Range(root) \cap l.lost # {}

LedgerOK(l) ==
    /\ l \in Ledgers
    /\ Bounded(l)
    /\ Gapless(l, l.mem) /\ Gapless(l, l.disk)
    /\ Follows(l)
    /\ Anchors(l)

LEMMA ChainAt ==
    ASSUME NEW chain \in Seq(Recs)
    PROVE  /\ Len(chain) \in Nat /\ DOMAIN chain = 1..Len(chain)
           /\ \A i \in DOMAIN chain : chain[i] \in Recs
  OBVIOUS

LEMMA LedgerShows ==
    ASSUME LedgerOK(ledger)
    PROVE  LedgerTypeOK /\ GapsAreLosses /\ AnchorsMatch
<1>1. LedgerTypeOK
  <2>1. \A chain \in {ledger.mem, ledger.disk} : \A i \in DOMAIN chain : chain[i].prev \in Int
    <3>1. ledger.mem \in Seq(Recs) /\ ledger.disk \in Seq(Recs)  BY DEF LedgerOK, Ledgers
    <3> QED  BY <3>1, ChainAt DEF Recs
  <2> QED  BY <2>1 DEF LedgerOK, Ledgers, Bounded, LedgerTypeOK
<1>2. GapsAreLosses  BY DEF LedgerOK, Gapless, GapsAreLosses, Linked
<1>3. AnchorsMatch  BY DEF LedgerOK, Anchors, AnchorsMatch
<1> QED  BY <1>1, <1>2, <1>3

LEMMA HashesType ==
    ASSUME NEW chain \in Seq(Recs)
    PROVE  /\ Hashes(chain) \in Seq(Nat) /\ Len(Hashes(chain)) = Len(chain)
           /\ \A i \in 1..Len(chain) : Hashes(chain)[i] = chain[i].hash
<1>1. /\ Len(chain) \in Nat /\ DOMAIN chain = 1..Len(chain)
      /\ \A i \in 1..Len(chain) : chain[i].hash \in Nat
  BY ChainAt DEF Recs
<1>2. Hashes(chain) = [i \in 1..Len(chain) |-> chain[i].hash]  BY <1>1 DEF Hashes
<1> QED  BY <1>1, <1>2

LEMMA HashesAppend ==
    ASSUME NEW chain \in Seq(Recs), NEW rec \in Recs
    PROVE  Hashes(Append(chain, rec)) = Append(Hashes(chain), rec.hash)
<1>1. /\ Append(chain, rec) \in Seq(Recs) /\ Len(Append(chain, rec)) = Len(chain) + 1
      /\ \A i \in 1..Len(chain) : Append(chain, rec)[i] = chain[i]
      /\ Append(chain, rec)[Len(chain) + 1] = rec
  OBVIOUS
<1>2. /\ Hashes(chain) \in Seq(Nat) /\ Len(Hashes(chain)) = Len(chain)
      /\ \A i \in 1..Len(chain) : Hashes(chain)[i] = chain[i].hash
      /\ rec.hash \in Nat
  <2>1. rec.hash \in Nat  BY DEF Recs
  <2> QED  BY <2>1, HashesType
<1>3. /\ Hashes(Append(chain, rec)) \in Seq(Nat)
      /\ Len(Hashes(Append(chain, rec))) = Len(chain) + 1
      /\ \A i \in 1..(Len(chain) + 1) :
            Hashes(Append(chain, rec))[i] = Append(chain, rec)[i].hash
  BY <1>1, HashesType
<1>4. \A i \in 1..(Len(chain) + 1) :
         Hashes(Append(chain, rec))[i] = Append(Hashes(chain), rec.hash)[i]
  <2> TAKE i \in 1..(Len(chain) + 1)
  <2>1. CASE i \in 1..Len(chain)
    <3>1. Append(Hashes(chain), rec.hash)[i] = Hashes(chain)[i]  BY <1>2, <2>1
    <3>2. Hashes(Append(chain, rec))[i] = chain[i].hash  BY <1>1, <1>3, <2>1
    <3> QED  BY <1>2, <2>1, <3>1, <3>2
  <2>2. CASE i = Len(chain) + 1
    BY <1>1, <1>2, <1>3, <2>2
  <2>3. Len(chain) \in Nat  OBVIOUS
  <2>4. i \in 1..Len(chain) \/ i = Len(chain) + 1  BY <2>3
  <2> QED  BY <2>1, <2>2, <2>4
<1> QED  BY <1>2, <1>3, <1>4

LEMMA PrefixSelf ==
    ASSUME NEW s \in Seq(Nat)
    PROVE  IsPrefix(s, s)
  BY DEF IsPrefix

LEMMA PrefixGrows ==
    ASSUME NEW s \in Seq(Nat), NEW t \in Seq(Nat), NEW n \in Nat, IsPrefix(s, t)
    PROVE  IsPrefix(s, Append(t, n))
  BY DEF IsPrefix

LEMMA PrefixOf ==
    ASSUME NEW t \in Seq(Nat), NEW n \in 0..Len(t)
    PROVE  SubSeq(t, 1, n) \in Seq(Nat) /\ IsPrefix(SubSeq(t, 1, n), t)
  BY DEF IsPrefix

LEMMA ModBound ==
    ASSUME NEW a \in Nat, NEW n \in Nat \ {0}
    PROVE  a % n \in Nat /\ a % n <= a
  OBVIOUS

(* Whatever comes of a record, it is the last one of memory.               *)
NewRec(l, what) == [hash |-> l.made + 1, prev |-> Link(l), what |-> what]
IsRecorded(l, rec, o, r) ==
    /\ rec \in Recs /\ r \in Ledgers
    /\ r.mem = Append(l.mem, rec) /\ Last(r.mem) = rec
    /\ r.disk = IF o = "kept" THEN Append(l.disk, rec) ELSE l.disk
    /\ r.genesis = IF l.mem = <<>> THEN Genesis(l) ELSE l.genesis
    /\ r.since \in {0, l.since + 1}
    /\ r.made = l.made + 1
    /\ r.lost = IF o = "kept" THEN l.lost ELSE l.lost \cup {l.made + 1}
    /\ r.anchored \in {l.anchored, l.anchored \cup {Hashes(r.mem)}}

LEMMA RecordedIs ==
    ASSUME NEW l, LedgerOK(l), NEW what \in Events, NEW o \in Outcomes
    PROVE  IsRecorded(l, NewRec(l, what), o, Recorded(l, what, o))
<1> DEFINE rec == NewRec(l, what)
           mem == Append(l.mem, rec)
<1>1. /\ l.mem \in Seq(Recs) /\ l.disk \in Seq(Recs) /\ l.genesis \in Int /\ l.since \in Nat
      /\ l.anchored \in SUBSET Seq(Nat) /\ l.made \in Nat /\ l.lost \in SUBSET Nat
  BY DEF LedgerOK, Ledgers
<1>2. Genesis(l) \in Int  BY <1>1 DEF Genesis
<1>3. Link(l) \in Int
  <2>1. CASE l.mem = <<>>  BY <1>2, <2>1 DEF Link
  <2>2. CASE l.mem # <<>>
    <3>1. Len(l.mem) \in DOMAIN l.mem  BY <1>1, <2>2
    <3>2. Last(l.mem) \in Recs  BY <1>1, <3>1, ChainAt DEF Last
    <3> QED  BY <2>2, <3>2 DEF Link, Recs
  <2> QED  BY <2>1, <2>2
<1>4. rec \in Recs  BY <1>1, <1>3 DEF Recs, NewRec
<1> HIDE DEF rec
<1>5. mem \in Seq(Recs) /\ Last(mem) = rec  BY <1>1, <1>4 DEF Last
<1>6. Hashes(mem) \in Seq(Nat)  BY <1>5, HashesType
<1>7. Append(l.disk, rec) \in Seq(Recs)  BY <1>1, <1>4
<1> HIDE DEF mem
<1> DEFINE anchors == AnchorDue(l) /\ o # "unanchored"
           r == [mem      |-> mem,
                 disk     |-> IF o = "kept" THEN Append(l.disk, rec) ELSE l.disk,
                 genesis  |-> IF l.mem = <<>> THEN Genesis(l) ELSE l.genesis,
                 since    |-> IF anchors THEN 0 ELSE l.since + 1,
                 anchored |-> IF anchors THEN l.anchored \cup {Hashes(mem)} ELSE l.anchored,
                 made     |-> l.made + 1,
                 lost     |-> IF o = "kept" THEN l.lost ELSE l.lost \cup {l.made + 1}]
<1>8. r \in Ledgers
  <2> HIDE DEF anchors
  <2>1. /\ l.made + 1 \in Nat /\ l.since + 1 \in Nat
        /\ (IF o = "kept" THEN l.lost ELSE l.lost \cup {l.made + 1}) \in SUBSET Nat
    BY <1>1
  <2>2. (IF anchors THEN l.anchored \cup {Hashes(mem)} ELSE l.anchored) \in SUBSET Seq(Nat)
    BY <1>1, <1>6
  <2> QED  BY <1>1, <1>2, <1>5, <1>7, <2>1, <2>2 DEF Ledgers
<1>9. Recorded(l, what, o) = r  BY <1>5 DEF Recorded, mem, rec, NewRec
<1>10. IsRecorded(l, rec, o, r)
  <2>1. r.anchored \in {l.anchored, l.anchored \cup {Hashes(mem)}} /\ r.since \in {0, l.since + 1}
    OBVIOUS
  <2>2. r.mem = mem /\ mem = Append(l.mem, rec)  BY DEF mem
  <2> QED  BY <1>4, <1>5, <1>8, <2>1, <2>2 DEF IsRecorded
<1> QED  BY <1>9, <1>10 DEF rec

LEMMA RecordedOK ==
    ASSUME NEW l, LedgerOK(l), NEW what \in Events, NEW o \in Outcomes
    PROVE  LedgerOK(Recorded(l, what, o))
<1> DEFINE rec == NewRec(l, what)
           r   == Recorded(l, what, o)
<1>0. IsRecorded(l, rec, o, r)  BY RecordedIs
<1>1. /\ rec \in Recs /\ r \in Ledgers
      /\ r.mem = Append(l.mem, rec) /\ Last(r.mem) = rec
      /\ r.disk = IF o = "kept" THEN Append(l.disk, rec) ELSE l.disk
      /\ r.genesis = IF l.mem = <<>> THEN Genesis(l) ELSE l.genesis
      /\ r.since \in {0, l.since + 1}
      /\ r.made = l.made + 1
      /\ r.lost = IF o = "kept" THEN l.lost ELSE l.lost \cup {l.made + 1}
      /\ r.anchored \in {l.anchored, l.anchored \cup {Hashes(r.mem)}}
  BY <1>0 DEF IsRecorded
<1>2. rec.hash = l.made + 1 /\ rec.prev = Link(l)  BY DEF NewRec
<1> HIDE DEF rec, r
<1>3. /\ l.mem \in Seq(Recs) /\ l.disk \in Seq(Recs) /\ l.since \in Nat
      /\ l.anchored \in SUBSET Seq(Nat) /\ l.made \in Nat /\ l.lost \in SUBSET Nat
  BY DEF LedgerOK, Ledgers
<1>4. /\ Len(r.mem) = Len(l.mem) + 1 /\ DOMAIN r.mem = 1..(Len(l.mem) + 1)
      /\ DOMAIN l.mem = 1..Len(l.mem) /\ Len(l.mem) \in Nat
      /\ \A i \in DOMAIN l.mem : r.mem[i] = l.mem[i]
      /\ r.mem[Len(l.mem) + 1] = rec
  BY <1>1, <1>3
<1>5. /\ DOMAIN l.disk = 1..Len(l.disk) /\ Len(l.disk) \in Nat
      /\ o = "kept" => /\ Len(r.disk) = Len(l.disk) + 1
                       /\ DOMAIN r.disk = 1..(Len(l.disk) + 1)
                       /\ \A i \in DOMAIN l.disk : r.disk[i] = l.disk[i]
                       /\ r.disk[Len(l.disk) + 1] = rec
      /\ o # "kept" => r.disk = l.disk
  BY <1>1, <1>3
<1>6. l.lost \subseteq r.lost /\ (o # "kept" => rec.hash \in r.lost)  BY <1>1, <1>2
<1>7. Bounded(r)
  <2>1. /\ 1..l.made \subseteq 1..r.made /\ rec.hash \in 1..r.made
        /\ l.since <= l.made /\ Len(l.disk) <= l.made /\ l.lost \subseteq 1..l.made
    BY <1>1, <1>2, <1>3 DEF LedgerOK, Bounded
  <2>2. ASSUME NEW i \in DOMAIN r.mem PROVE r.mem[i].hash \in 1..r.made
    <3>1. CASE i \in DOMAIN l.mem
      <4>1. l.mem[i].hash \in 1..l.made  BY <3>1 DEF LedgerOK, Bounded
      <4> QED  BY <1>4, <2>1, <3>1, <4>1
    <3>2. CASE i = Len(l.mem) + 1  BY <1>4, <2>1, <3>2
    <3> QED  BY <1>4, <2>2, <3>1, <3>2
  <2>3. ASSUME NEW i \in DOMAIN r.disk PROVE r.disk[i].hash \in 1..r.made
    <3>1. CASE i \in DOMAIN l.disk
      <4>1. l.disk[i].hash \in 1..l.made  BY <3>1 DEF LedgerOK, Bounded
      <4> QED  BY <1>5, <2>1, <3>1, <4>1
    <3>2. CASE o = "kept" /\ i = Len(l.disk) + 1  BY <1>5, <2>1, <3>2
    <3> QED  BY <1>5, <2>3, <3>1, <3>2
  <2>4. r.lost \subseteq 1..r.made  BY <1>1, <1>2, <2>1
  <2>5. r.since <= r.made /\ Len(r.disk) <= r.made  BY <1>1, <1>3, <1>5, <2>1
  <2> QED  BY <2>2, <2>3, <2>4, <2>5 DEF Bounded
<1>8. Gapless(r, r.mem)
  <2> SUFFICES ASSUME NEW i \in DOMAIN r.mem
               PROVE  \/ r.mem[i].prev = (IF i = 1 THEN r.genesis ELSE r.mem[i - 1].hash)
                      \/ r.mem[i].prev \in r.lost
    BY DEF Gapless
  <2>1. CASE i \in DOMAIN l.mem
    <3>1. l.mem # <<>>  BY <1>3, <2>1
    <3>2. \/ l.mem[i].prev = (IF i = 1 THEN l.genesis ELSE l.mem[i - 1].hash)
          \/ l.mem[i].prev \in l.lost
      BY <2>1 DEF LedgerOK, Gapless
    <3>3. i # 1 => i - 1 \in DOMAIN l.mem  BY <1>4, <2>1
    <3> QED  BY <1>1, <1>4, <1>6, <2>1, <3>1, <3>2, <3>3
  <2>2. CASE i = Len(l.mem) + 1
    <3>1. CASE l.mem = <<>>  BY <1>1, <1>2, <1>3, <1>4, <2>2, <3>1 DEF Link
    <3>2. CASE l.mem # <<>>
      <4>1. Len(l.mem) \in DOMAIN l.mem /\ i # 1 /\ i - 1 = Len(l.mem)
        BY <1>3, <1>4, <2>2, <3>2
      <4>2. rec.prev = l.mem[Len(l.mem)].hash  BY <1>2, <3>2 DEF Link, Last
      <4> QED  BY <1>4, <2>2, <4>1, <4>2
    <3> QED  BY <3>1, <3>2
  <2> QED  BY <1>4, <2>1, <2>2
<1>9. Gapless(r, r.disk)
  <2> SUFFICES ASSUME NEW i \in DOMAIN r.disk
               PROVE  \/ r.disk[i].prev = (IF i = 1 THEN r.genesis ELSE r.disk[i - 1].hash)
                      \/ r.disk[i].prev \in r.lost
    BY DEF Gapless
  <2>1. CASE i \in DOMAIN l.disk
    <3>1. l.mem # <<>>  BY <1>3, <2>1 DEF LedgerOK, Follows
    <3>2. \/ l.disk[i].prev = (IF i = 1 THEN l.genesis ELSE l.disk[i - 1].hash)
          \/ l.disk[i].prev \in l.lost
      BY <2>1 DEF LedgerOK, Gapless
    <3>3. i # 1 => i - 1 \in DOMAIN l.disk  BY <1>5, <2>1
    <3> QED  BY <1>1, <1>5, <1>6, <2>1, <3>1, <3>2, <3>3
  <2>2. CASE o = "kept" /\ i = Len(l.disk) + 1
    <3>1. CASE l.mem = <<>>
      <4>1. l.disk = <<>>  BY <3>1 DEF LedgerOK, Follows
      <4> QED  BY <1>1, <1>2, <1>3, <1>5, <2>2, <3>1, <4>1 DEF Link
    <3>2. CASE l.mem # <<>>
      <4>1. rec.prev = Last(l.mem).hash  BY <1>2, <3>2 DEF Link
      <4>2. CASE Last(l.mem).hash \in l.lost  BY <1>5, <1>6, <2>2, <4>1, <4>2
      <4>3. CASE l.disk # <<>> /\ Last(l.disk) = Last(l.mem)
        <5>1. Len(l.disk) \in DOMAIN l.disk /\ i # 1 /\ i - 1 = Len(l.disk)
          BY <1>3, <1>5, <2>2, <4>3
        <5>2. rec.prev = l.disk[Len(l.disk)].hash  BY <4>1, <4>3 DEF Last
        <5> QED  BY <1>5, <2>2, <5>1, <5>2
      <4> QED  BY <3>2, <4>2, <4>3 DEF LedgerOK, Follows
    <3> QED  BY <3>1, <3>2
  <2> QED  BY <1>5, <2>1, <2>2
<1>10. Follows(r)
  <2>1. r.mem # <<>>
    <3>1. r.mem = Append(l.mem, rec) /\ l.mem \in Seq(Recs)  BY <1>1, <1>3
    <3> QED  BY <3>1
  <2>2. Last(r.mem).hash \in r.lost \/ (r.disk # <<>> /\ Last(r.disk) = Last(r.mem))
    <3>1. CASE o = "kept"  BY <1>1, <1>3, <1>5, <3>1 DEF Last
    <3>2. CASE o # "kept"  BY <1>1, <1>6, <3>2
    <3> QED  BY <3>1, <3>2
  <2>3. r.mem = r.disk \/ \E i \in DOMAIN r.mem : r.mem[i].hash \in r.lost
    <3>1. CASE o = "kept" /\ l.mem = l.disk  BY <1>1, <3>1
    <3>2. CASE l.mem # l.disk
      <4>1. PICK i \in DOMAIN l.mem : l.mem[i].hash \in l.lost  BY <3>2 DEF LedgerOK, Follows
      <4>2. i \in DOMAIN r.mem /\ r.mem[i].hash \in r.lost  BY <1>4, <1>6, <4>1
      <4> QED  BY <4>2
    <3>3. CASE o # "kept"
      <4>1. Len(l.mem) + 1 \in DOMAIN r.mem /\ r.mem[Len(l.mem) + 1].hash \in r.lost
        BY <1>4, <1>6, <3>3
      <4> QED  BY <4>1
    <3> QED  BY <3>1, <3>2, <3>3
  <2> QED  BY <2>1, <2>2, <2>3 DEF Follows
<1>11. Anchors(r)
  <2> SUFFICES ASSUME NEW root \in r.anchored
               PROVE  IsPrefix(root, Hashes(r.disk)) \/ Range(root) \cap r.lost # {}
    BY DEF Anchors
  <2>1. CASE root \in l.anchored
    <3>1. CASE Range(root) \cap l.lost # {}  BY <1>6, <3>1
    <3>2. CASE IsPrefix(root, Hashes(l.disk))
      <4>1. root \in Seq(Nat) /\ Hashes(l.disk) \in Seq(Nat) /\ rec.hash \in Nat
        BY <1>2, <1>3, <2>1, HashesType
      <4>2. Hashes(r.disk) \in {Hashes(l.disk), Append(Hashes(l.disk), rec.hash)}
        BY <1>1, <1>3, HashesAppend
      <4> QED  BY <3>2, <4>1, <4>2, PrefixGrows
    <3> QED  BY <2>1, <3>1, <3>2 DEF LedgerOK, Anchors
  <2>2. CASE root = Hashes(r.mem)
    <3>1. r.mem \in Seq(Recs)  BY <1>1 DEF Ledgers
    <3>2. /\ Hashes(r.mem) \in Seq(Nat)
          /\ \A i \in DOMAIN r.mem : i \in DOMAIN root /\ root[i] = r.mem[i].hash
      BY <2>2, <3>1, HashesType
    <3>3. CASE r.mem = r.disk  BY <2>2, <3>2, <3>3, PrefixSelf
    <3>4. CASE \E i \in DOMAIN r.mem : r.mem[i].hash \in r.lost
      BY <3>2, <3>4 DEF Range
    <3> QED  BY <1>10, <3>3, <3>4 DEF Follows
  <2> QED  BY <1>1, <2>1, <2>2
<1> QED  BY <1>1, <1>7, <1>8, <1>9, <1>10, <1>11 DEF LedgerOK, r

LEMMA ReloadedOK ==
    ASSUME NEW l, LedgerOK(l)
    PROVE  LedgerOK(Reloaded(l))
<1> DEFINE r == Reloaded(l)
           met == {SubSeq(Hashes(l.disk), 1, n) :
                     n \in {k \in 1..Len(l.disk) : k % AnchorInterval = 0}}
<1>1. /\ l \in Ledgers
      /\ l.mem \in Seq(Recs) /\ l.disk \in Seq(Recs) /\ l.since \in Nat /\ l.genesis \in Int
      /\ l.anchored \in SUBSET Seq(Nat) /\ l.made \in Nat /\ l.lost \in SUBSET Nat
  BY DEF LedgerOK, Ledgers
<1>2. /\ DOMAIN l.disk = 1..Len(l.disk) /\ Len(l.disk) \in Nat
      /\ \A i \in DOMAIN l.disk : l.disk[i] \in Recs
  BY <1>1, ChainAt
<1>3. /\ Hashes(l.disk) \in Seq(Nat) /\ Len(Hashes(l.disk)) = Len(l.disk)
  BY <1>1, HashesType
<1>4. \A root \in met : root \in Seq(Nat) /\ IsPrefix(root, Hashes(l.disk))
  <2>1. ASSUME NEW n \in 1..Len(l.disk)
        PROVE  /\ SubSeq(Hashes(l.disk), 1, n) \in Seq(Nat)
               /\ IsPrefix(SubSeq(Hashes(l.disk), 1, n), Hashes(l.disk))
    <3>1. n \in 0..Len(Hashes(l.disk))  BY <1>2, <1>3
    <3> QED  BY <1>3, <3>1, PrefixOf
  <2> QED  BY <2>1
<1>5. Len(l.disk) % AnchorInterval \in Nat /\ Len(l.disk) % AnchorInterval <= Len(l.disk)
  BY <1>2, LedgerAssumption, ModBound
<1>6. (IF l.disk = <<>> THEN NoGenesis ELSE l.disk[1].prev) \in Int
  <2>1. CASE l.disk = <<>>  BY <2>1 DEF NoGenesis
  <2>2. CASE l.disk # <<>>
    <3>1. 1 \in DOMAIN l.disk  BY <1>1, <1>2, <2>2
    <3>2. l.disk[1] \in Recs  BY <1>2, <3>1
    <3> QED  BY <2>2, <3>2 DEF Recs
  <2> QED  BY <2>1, <2>2
<1>7. /\ r \in Ledgers
      /\ r.mem = l.disk /\ r.disk = l.disk /\ r.made = l.made /\ r.lost = l.lost
      /\ r.genesis = (IF l.disk = <<>> THEN NoGenesis ELSE l.disk[1].prev)
      /\ r.since = Len(l.disk) % AnchorInterval
      /\ r.anchored = l.anchored \cup met
  <2>1. l.anchored \cup met \in SUBSET Seq(Nat)  BY <1>1, <1>4
  <2> HIDE DEF met
  <2>2. r = [l EXCEPT !.mem = l.disk,
                      !.genesis = IF l.disk = <<>> THEN NoGenesis ELSE l.disk[1].prev,
                      !.since = Len(l.disk) % AnchorInterval,
                      !.anchored = l.anchored \cup met]
    BY <1>1 DEF Reloaded, met
  <2> QED  BY <1>1, <1>5, <1>6, <2>1, <2>2 DEF Ledgers
<1> HIDE DEF r, met
<1>8. Bounded(r)
  BY <1>1, <1>2, <1>5, <1>7 DEF LedgerOK, Bounded
<1>9. Gapless(r, l.disk)
  <2> SUFFICES ASSUME NEW i \in DOMAIN l.disk
               PROVE  \/ l.disk[i].prev = (IF i = 1 THEN r.genesis ELSE l.disk[i - 1].hash)
                      \/ l.disk[i].prev \in r.lost
    BY DEF Gapless
  <2>1. l.disk # <<>>  BY <1>1
  <2> QED  BY <1>7, <2>1 DEF LedgerOK, Gapless
<1>10. Follows(r)  BY <1>7 DEF Follows
<1>11. Anchors(r)  BY <1>4, <1>7 DEF LedgerOK, Anchors
<1> QED  BY <1>7, <1>8, <1>9, <1>10, <1>11 DEF LedgerOK, r

LEMMA LedgerStarts ==
    ASSUME LedgerInit
    PROVE  LedgerOK(ledger)
  BY DEF LedgerInit, NoGenesis, LedgerOK, Ledgers, Bounded, Gapless, Follows, Anchors

-----------------------------------------------------------------------------
(* The requests                                                            *)

CallRecords == [phase : Phases, agent : Agents \cup {None},
                contract : ContractIds \cup {None}]

CallsOK ==
    /\ faults \in 0..MaxFaults
    /\ calls \in [Calls -> CallRecords]
    /\ \A c \in Calls : calls[c].phase \in {"throttled", "running"} => calls[c].agent \in Agents
    /\ suspended \subseteq Agents
    /\ operations \in 0..MaxOperations

RequestsInv ==
    /\ BrokerInv
    /\ ConsentInv
    /\ LedgerOK(ledger)
    /\ CallsOK
    /\ ReceiptFollowsItsRecord
    /\ AnsweredIsRecorded

LEMMA RequestsType ==
    ASSUME RequestsInv
    PROVE  TypeOK
<1>1. LedgerTypeOK  BY LedgerShows DEF RequestsInv
<1>2. BrokerTypeOK  BY DEF RequestsInv, BrokerInv, ContractPart, SessionPart, BrokerTypeOK
<1> QED  BY <1>1, <1>2 DEF RequestsInv, ConsentInv, CallsOK, CallRecords, TypeOK

(* The record of call c and its receipt are on the chain.                  *)
ReceiptOf(c, chain) ==
    \E i \in DOMAIN chain :
        /\ chain[i].what = <<"tool_called", c>>
        /\ i + 1 \in DOMAIN chain
        /\ chain[i + 1].what = <<"receipt", c>>

Grown ==
    \A i \in DOMAIN ledger.disk : i \in DOMAIN ledger'.disk /\ ledger'.disk[i] = ledger.disk[i]

(* What any step of a call does to the ledger.                             *)
LedgerStep ==
    /\ LedgerOK(ledger')
    /\ Grown
    /\ ReceiptFollowsItsRecord'
    /\ faults' \in 0..MaxFaults

LEMMA NoRecord ==
    ASSUME RequestsInv, UNCHANGED <<ledger, faults>>
    PROVE  LedgerStep
  BY DEF RequestsInv, CallsOK, LedgerStep, Grown, ReceiptFollowsItsRecord

LEMMA StoringCounts ==
    ASSUME faults \in 0..MaxFaults, NEW ok \in BOOLEAN, Storing(ok)
    PROVE  faults' \in 0..MaxFaults
  BY MaxFaultsAssumption DEF Storing

(* A record that is no receipt keeps the receipts in their places.         *)
LEMMA OneMore ==
    ASSUME ReceiptFollowsItsRecord, LedgerOK(ledger), NEW rec \in Recs, rec.what[1] # "receipt",
           NEW chain \in {ledger.disk, Append(ledger.disk, rec)}
    PROVE  /\ chain \in Seq(Recs)
           /\ \A i \in DOMAIN ledger.disk : i \in DOMAIN chain /\ chain[i] = ledger.disk[i]
           /\ \A i \in DOMAIN chain : chain[i].what[1] = "receipt" =>
                 /\ i > 1 /\ chain[i].prev = chain[i - 1].hash
                 /\ chain[i - 1].what \in {"tool_called", "error"} \X {chain[i].what[2]}
<1>1. ledger.disk \in Seq(Recs)  BY DEF LedgerOK, Ledgers
<1>2. CASE chain = ledger.disk  BY <1>1, <1>2 DEF ReceiptFollowsItsRecord
<1>3. CASE chain = Append(ledger.disk, rec)
  <2>1. /\ chain \in Seq(Recs) /\ Len(ledger.disk) \in Nat
        /\ DOMAIN ledger.disk = 1..Len(ledger.disk)
        /\ DOMAIN chain = 1..(Len(ledger.disk) + 1)
        /\ \A i \in 1..Len(ledger.disk) : chain[i] = ledger.disk[i]
        /\ chain[Len(ledger.disk) + 1] = rec
    BY <1>1, <1>3
  <2>2. ASSUME NEW i \in DOMAIN chain, chain[i].what[1] = "receipt"
        PROVE  /\ i > 1 /\ chain[i].prev = chain[i - 1].hash
               /\ chain[i - 1].what \in {"tool_called", "error"} \X {chain[i].what[2]}
    <3>1. i \in DOMAIN ledger.disk  BY <2>1, <2>2
    <3>2. /\ i > 1 /\ ledger.disk[i].prev = ledger.disk[i - 1].hash
          /\ ledger.disk[i - 1].what \in {"tool_called", "error"} \X {ledger.disk[i].what[2]}
      BY <2>1, <2>2, <3>1 DEF ReceiptFollowsItsRecord
    <3>3. i - 1 \in 1..Len(ledger.disk)  BY <2>1, <3>1, <3>2
    <3> QED  BY <2>1, <3>1, <3>2, <3>3
  <2> QED  BY <2>1, <2>2
<1> QED  BY <1>2, <1>3

LEMMA RecordOutcomeStep ==
    ASSUME RequestsInv, NEW event \in {"tool_called", "error"}, NEW c \in Calls,
           NEW o1 \in Outcomes, NEW o2 \in Outcomes, RecordOutcome(event, c, o1, o2)
    PROVE  /\ LedgerStep
           /\ event = "tool_called" /\ o2 = "kept" => ReceiptOf(c, ledger'.disk)
<1> DEFINE d == ledger.disk
           first == Recorded(ledger, <<event, c>>, o1)
           rec == NewRec(ledger, <<event, c>>)
           second == Recorded(first, <<"receipt", c>>, o2)
           rcpt == NewRec(first, <<"receipt", c>>)
<1>1. LedgerOK(ledger) /\ <<event, c>> \in Events /\ <<"receipt", c>> \in Events
  BY DEF RequestsInv, Events
<1>2. /\ LedgerOK(first) /\ rec \in Recs /\ Last(first.mem) = rec
      /\ first.mem = Append(ledger.mem, rec)
      /\ first.disk = IF o1 = "kept" THEN Append(d, rec) ELSE d
  <2>1. LedgerOK(first)  BY <1>1, RecordedOK
  <2>2. /\ rec \in Recs /\ Last(first.mem) = rec
        /\ first.mem = Append(ledger.mem, rec)
        /\ first.disk = IF o1 = "kept" THEN Append(d, rec) ELSE d
    <3>1. IsRecorded(ledger, rec, o1, first)  BY <1>1, RecordedIs
    <3> QED  BY <3>1 DEF IsRecorded
  <2> QED  BY <2>1, <2>2
<1>3. rec.what = <<event, c>> /\ rec.what[1] # "receipt"  BY DEF NewRec
<1>4. d \in Seq(Recs) /\ ledger.mem \in Seq(Recs)  BY <1>1 DEF LedgerOK, Ledgers
<1> HIDE DEF first, rec
<1>5. first.mem # <<>>  BY <1>2, <1>4
<1>6. rcpt.what = <<"receipt", c>> /\ rcpt.prev = rec.hash  BY <1>2, <1>5 DEF Link, NewRec
<1>7. /\ LedgerOK(second) /\ rcpt \in Recs
      /\ second.disk = IF o2 = "kept" THEN Append(first.disk, rcpt) ELSE first.disk
  <2>1. LedgerOK(first) /\ <<"receipt", c>> \in Events  BY <1>1, <1>2
  <2>2. LedgerOK(second)  BY <2>1, RecordedOK
  <2>3. /\ rcpt \in Recs
        /\ second.disk = IF o2 = "kept" THEN Append(first.disk, rcpt) ELSE first.disk
    <3>1. IsRecorded(first, rcpt, o2, second)  BY <2>1, RecordedIs
    <3> QED  BY <3>1 DEF IsRecorded
  <2> QED  BY <2>2, <2>3
<1> HIDE DEF second, rcpt
<1>8. /\ o1 = "kept" => ledger' = second
      /\ o1 # "kept" => ledger' = first /\ o2 = o1
      /\ Storing(TRUE) \/ Storing(FALSE)
  BY DEF RecordOutcome, first, second
<1>9. faults' \in 0..MaxFaults  BY <1>8, StoringCounts DEF RequestsInv, CallsOK
<1>10. ReceiptFollowsItsRecord  BY DEF RequestsInv
<1>11. /\ first.disk \in Seq(Recs)
       /\ \A i \in DOMAIN d : i \in DOMAIN first.disk /\ first.disk[i] = d[i]
       /\ \A i \in DOMAIN first.disk : first.disk[i].what[1] = "receipt" =>
             /\ i > 1 /\ first.disk[i].prev = first.disk[i - 1].hash
             /\ first.disk[i - 1].what \in {"tool_called", "error"} \X {first.disk[i].what[2]}
  BY <1>1, <1>2, <1>3, <1>10, OneMore
<1>12. CASE ledger' = first /\ o2 # "kept"
  BY <1>2, <1>9, <1>11, <1>12 DEF LedgerStep, Grown, ReceiptFollowsItsRecord
<1>13. CASE o1 = "kept" /\ o2 # "kept"
  BY <1>7, <1>8, <1>9, <1>11, <1>13 DEF LedgerStep, Grown, ReceiptFollowsItsRecord
<1>14. CASE o1 = "kept" /\ o2 = "kept"
  <2> DEFINE s == ledger'.disk
             n == Len(d)
  <2>1. /\ n \in Nat /\ DOMAIN d = 1..n
        /\ DOMAIN first.disk = 1..(n + 1) /\ Len(first.disk) = n + 1
        /\ first.disk[n + 1] = rec
    BY <1>2, <1>4, <1>14
  <2>2. /\ DOMAIN s = 1..(n + 2)
        /\ \A i \in 1..(n + 1) : s[i] = first.disk[i]
        /\ s[n + 2] = rcpt
    <3>1. s = Append(first.disk, rcpt)  BY <1>7, <1>8, <1>14
    <3>2. first.disk \in Seq(Recs) /\ Len(first.disk) = n + 1 /\ n \in Nat  BY <1>11, <2>1
    <3>3. /\ DOMAIN s = 1..(Len(first.disk) + 1)
          /\ \A i \in 1..Len(first.disk) : s[i] = first.disk[i]
          /\ s[Len(first.disk) + 1] = rcpt
      <4> HIDE DEF s, n
      <4> QED  BY <3>1, <3>2
    <3> HIDE DEF s, n
    <3> QED  BY <3>2, <3>3
  <2> HIDE DEF s, n
  <2>3. Grown
    <3>1. \A i \in DOMAIN d : i \in DOMAIN s /\ s[i] = d[i]  BY <1>11, <2>1, <2>2
    <3> QED  BY <3>1 DEF Grown, s
  <2>4. ReceiptFollowsItsRecord'
    <3> SUFFICES ASSUME NEW i \in DOMAIN s, s[i].what[1] = "receipt"
                 PROVE  /\ i > 1 /\ s[i].prev = s[i - 1].hash
                        /\ s[i - 1].what \in {"tool_called", "error"} \X {s[i].what[2]}
      BY DEF ReceiptFollowsItsRecord, s
    <3>1. CASE i \in 1..(n + 1)
      <4>1. i > 1  BY <1>11, <2>1, <2>2, <3>1
      <4>2. i - 1 \in 1..(n + 1)  BY <2>1, <3>1, <4>1
      <4> QED  BY <1>11, <2>1, <2>2, <3>1, <4>1, <4>2
    <3>2. CASE i = n + 2
      <4>1. s[i] = rcpt /\ i - 1 = n + 1 /\ i > 1 /\ n + 1 \in 1..(n + 1)
        BY <2>1, <2>2, <3>2
      <4>2. s[i - 1] = rec  BY <2>1, <2>2, <4>1
      <4>3. s[i].what[2] = c  BY <1>6, <4>1
      <4>4. s[i - 1].what = <<event, c>>  BY <1>3, <4>2
      <4>5. s[i - 1].what \in {"tool_called", "error"} \X {s[i].what[2]}  BY <4>3, <4>4
      <4>6. s[i].prev = s[i - 1].hash  BY <1>6, <4>1, <4>2
      <4> QED  BY <4>1, <4>5, <4>6
    <3> QED  BY <2>1, <2>2, <3>1, <3>2
  <2>5. event = "tool_called" => ReceiptOf(c, ledger'.disk)
    <3>1. n + 1 \in DOMAIN s /\ n + 1 + 1 \in DOMAIN s /\ n + 1 + 1 = n + 2
      BY <2>1, <2>2
    <3>2. s[n + 1] = rec  BY <2>1, <2>2
    <3> QED  BY <1>3, <1>6, <2>2, <3>1, <3>2 DEF ReceiptOf, s
  <2> QED  BY <1>7, <1>8, <1>9, <1>14, <2>3, <2>4, <2>5 DEF LedgerStep
<1> QED  BY <1>8, <1>12, <1>13, <1>14

(* The call c, of agent a under contract k, moves to phase p.              *)
MovesTo(c, a, k, p) ==
    /\ LedgerStep
    /\ Move(c, a, k, p)
    /\ suspended' \subseteq Agents
    /\ p = "answered" => ReceiptOf(c, ledger'.disk)
    /\ p = "running" => Consented(edges, a)

LEMMA FailStep ==
    ASSUME RequestsInv, NEW c \in Calls, NEW a, NEW k, Fail(c, a, k), suspended' \subseteq Agents
    PROVE  MovesTo(c, a, k, "failed")
<1>1. PICK o1, o2 \in Outcomes : RecordOutcome("error", c, o1, o2)  BY DEF Fail
<1>2. LedgerStep  BY <1>1, RecordOutcomeStep
<1> QED  BY <1>2 DEF Fail, MovesTo

LEMMA DriftStep ==
    ASSUME RequestsInv, NEW a \in Agents, Drift(a)
    PROVE  suspended' \subseteq Agents
  BY DEF RequestsInv, CallsOK, Drift

LEMMA ConsentGateStep ==
    ASSUME RequestsInv, NEW c \in Calls, NEW a \in Agents, NEW k, ConsentGate(c, a, k)
    PROVE  \E p \in {"running", "failed"} : MovesTo(c, a, k, p)
<1>1. CASE Fail(c, a, k) /\ Drift(a)
  <2>1. MovesTo(c, a, k, "failed")  BY <1>1, DriftStep, FailStep
  <2> QED  BY <2>1
<1>2. CASE Consented(edges, a) /\ Move(c, a, k, "running") /\ UNCHANGED <<ledger, suspended, faults>>
  <2>1. LedgerStep  BY <1>2, NoRecord
  <2>2. suspended' \subseteq Agents  BY <1>2 DEF RequestsInv, CallsOK
  <2>3. MovesTo(c, a, k, "running")  BY <1>2, <2>1, <2>2 DEF MovesTo
  <2> QED  BY <2>3
<1> QED  BY <1>1, <1>2 DEF ConsentGate

LEMMA ReflexiveGateStep ==
    ASSUME RequestsInv, NEW c \in Calls, NEW a \in Agents, NEW k, ReflexiveGate(c, a, k)
    PROVE  \E p \in {"throttled", "running", "failed"} : MovesTo(c, a, k, p)
<1>1. suspended \subseteq Agents  BY DEF RequestsInv, CallsOK
<1>2. CASE Fail(c, a, k) /\ UNCHANGED suspended
  <2>1. MovesTo(c, a, k, "failed")  BY <1>1, <1>2, FailStep
  <2> QED  BY <2>1
<1>3. CASE Move(c, a, k, "throttled") /\ UNCHANGED <<ledger, suspended, faults>>
  <2>1. LedgerStep  BY <1>3, NoRecord
  <2>2. MovesTo(c, a, k, "throttled")  BY <1>1, <1>3, <2>1 DEF MovesTo
  <2> QED  BY <2>2
<1>4. CASE ConsentGate(c, a, k)
  <2>1. PICK p \in {"running", "failed"} : MovesTo(c, a, k, p)  BY <1>4, ConsentGateStep
  <2> QED  BY <2>1
<1> QED  BY <1>2, <1>3, <1>4 DEF ReflexiveGate

(* Every step of a call moves it on from where it was.                     *)
CallStep(c) ==
    \E a \in Agents \cup {None}, k \in ContractIds \cup {None}, p \in Phases \ {"idle"} :
        /\ MovesTo(c, a, k, p)
        /\ p \in {"throttled", "running"} => a \in Agents
        /\ p = "throttled" => calls[c] = Idle
        /\ calls[c].phase # "answered"
        /\ calls[c] = Idle /\ p \in {"throttled", "running"} => k \in ActiveContracts(a)

LEMMA CallSteps ==
    ASSUME RequestsInv, NEW c \in Calls,
           \/ \E a \in Agents : Arrive(c, a) \/ Deny(c, a)
           \/ Wake(c) \/ Return(c) \/ Raise(c) \/ Ask(c) \/ Cancel(c)
    PROVE  /\ CallStep(c)
           /\ UNCHANGED <<brokerVars, consentVars, operations>>
<1>1. /\ calls[c] \in CallRecords /\ suspended \subseteq Agents
      /\ calls[c].phase \in {"throttled", "running"} => calls[c].agent \in Agents
  BY DEF RequestsInv, CallsOK
<1>2. calls[c].agent \in Agents \cup {None} /\ calls[c].contract \in ContractIds \cup {None}
  BY <1>1 DEF CallRecords
<1>3. ASSUME NEW a \in Agents, Arrive(c, a) PROVE CallStep(c)
  <2>1. PICK k \in ActiveContracts(a) : ReflexiveGate(c, a, k)  BY <1>3 DEF Arrive
  <2>2. k \in ContractIds  BY DEF ActiveContracts
  <2>3. PICK p \in {"throttled", "running", "failed"} : MovesTo(c, a, k, p)
    BY <2>1, ReflexiveGateStep
  <2>4. calls[c] = Idle /\ calls[c].phase # "answered"  BY <1>3 DEF Arrive, Idle
  <2> QED  BY <2>2, <2>3, <2>4 DEF CallStep, Phases
<1>4. ASSUME NEW a \in Agents, Deny(c, a) PROVE CallStep(c)
  <2>1. LedgerStep  BY <1>4, NoRecord DEF Deny
  <2>2. MovesTo(c, a, None, "failed")  BY <1>1, <1>4, <2>1 DEF Deny, MovesTo
  <2>3. calls[c].phase # "answered"  BY <1>4 DEF Deny, Idle
  <2> QED  BY <2>2, <2>3 DEF CallStep, Phases
<1>5. ASSUME Wake(c) PROVE CallStep(c)
  <2>1. /\ calls[c].phase = "throttled" /\ calls[c].agent \in Agents
        /\ ConsentGate(c, calls[c].agent, calls[c].contract)
    BY <1>1, <1>5 DEF Wake
  <2>2. PICK p \in {"running", "failed"} : MovesTo(c, calls[c].agent, calls[c].contract, p)
    BY <2>1, ConsentGateStep
  <2>3. calls[c] # Idle  BY <2>1 DEF Idle
  <2> QED  BY <1>2, <2>1, <2>2, <2>3 DEF CallStep, Phases
<1>6. ASSUME Return(c) PROVE CallStep(c)
  <2>1. calls[c].phase = "running" /\ calls[c].agent \in Agents  BY <1>1, <1>6 DEF Return
  <2>2. PICK o1, o2 \in Outcomes :
           /\ RecordOutcome("tool_called", c, o1, o2)
           /\ Move(c, calls[c].agent, calls[c].contract, IF o2 = "kept" THEN "answered" ELSE "failed")
    BY <1>6 DEF Return
  <2>3. LedgerStep /\ (o2 = "kept" => ReceiptOf(c, ledger'.disk))  BY <2>2, RecordOutcomeStep
  <2>4. suspended' \subseteq Agents  BY <1>6, <2>1, DriftStep DEF Return
  <2>5. PICK p \in {"answered", "failed"} : MovesTo(c, calls[c].agent, calls[c].contract, p)
    BY <2>2, <2>3, <2>4 DEF MovesTo
  <2>6. calls[c] # Idle  BY <2>1 DEF Idle
  <2> QED  BY <1>2, <2>1, <2>5, <2>6 DEF CallStep, Phases
<1>7. ASSUME Raise(c) PROVE CallStep(c)
  <2>1. calls[c].phase = "running" /\ calls[c].agent \in Agents  BY <1>1, <1>7 DEF Raise
  <2>2. MovesTo(c, calls[c].agent, calls[c].contract, "failed")
    BY <1>7, <2>1, DriftStep, FailStep DEF Raise
  <2>3. calls[c] # Idle  BY <2>1 DEF Idle
  <2> QED  BY <1>2, <2>1, <2>2, <2>3 DEF CallStep, Phases
<1>8. ASSUME Ask(c) PROVE CallStep(c)
  <2>1. calls[c].phase = "running" /\ calls[c].agent \in Agents  BY <1>1, <1>8 DEF Ask
  <2>2. LedgerStep  BY <1>8, NoRecord DEF Ask
  <2>3. MovesTo(c, calls[c].agent, calls[c].contract, "asking")
    BY <1>8, <2>1, <2>2, DriftStep DEF Ask, MovesTo
  <2>4. calls[c] # Idle  BY <2>1 DEF Idle
  <2> QED  BY <1>2, <2>1, <2>3, <2>4 DEF CallStep, Phases
<1>9. ASSUME Cancel(c) PROVE CallStep(c)
  <2>1. calls[c].phase \in {"throttled", "running"}  BY <1>9 DEF Cancel
  <2>2. LedgerStep  BY <1>9, NoRecord DEF Cancel
  <2>3. MovesTo(c, calls[c].agent, calls[c].contract, "failed")
    BY <1>1, <1>9, <2>2 DEF Cancel, MovesTo
  <2>4. calls[c] # Idle  BY <2>1 DEF Idle
  <2> QED  BY <1>2, <2>1, <2>3, <2>4 DEF CallStep, Phases
<1>10. UNCHANGED <<brokerVars, consentVars, operations>>
  BY DEF Arrive, Deny, Wake, Return, Raise, Ask, Cancel
<1> QED  BY <1>3, <1>4, <1>5, <1>6, <1>7, <1>8, <1>9, <1>10

(* Answered calls keep their records.                                      *)
LEMMA AnswersKept ==
    ASSUME AnsweredIsRecorded, Grown,
           \A c \in Calls : calls'[c].phase = "answered" =>
                             calls[c].phase = "answered" \/ ReceiptOf(c, ledger'.disk)
    PROVE  AnsweredIsRecorded'
<1>1. ASSUME NEW c \in Calls, ReceiptOf(c, ledger.disk) PROVE ReceiptOf(c, ledger'.disk)
  BY <1>1 DEF ReceiptOf, Grown
<1>2. \A c \in Calls : calls[c].phase = "answered" => ReceiptOf(c, ledger.disk)
  BY DEF AnsweredIsRecorded, ReceiptOf
<1>3. \A c \in Calls : calls'[c].phase = "answered" => ReceiptOf(c, ledger'.disk)
  BY <1>1, <1>2
<1> QED  BY <1>3 DEF AnsweredIsRecorded, ReceiptOf

LEMMA CallStepInv ==
    ASSUME RequestsInv, NEW c \in Calls, CallStep(c),
           UNCHANGED <<brokerVars, consentVars, operations>>
    PROVE  RequestsInv'
<1>1. PICK a \in Agents \cup {None}, k \in ContractIds \cup {None}, p \in Phases :
         /\ MovesTo(c, a, k, p)
         /\ p \in {"throttled", "running"} => a \in Agents
  BY DEF CallStep
<1> DEFINE x == [phase |-> p, agent |-> a, contract |-> k]
<1>2. /\ calls \in [Calls -> CallRecords] /\ calls' = [calls EXCEPT ![c] = x]
      /\ x \in CallRecords /\ x.phase = p /\ x.agent = a
  BY <1>1 DEF RequestsInv, CallsOK, MovesTo, Move, CallRecords
<1> HIDE DEF x
<1>3. calls'[c] = x /\ \A b \in Calls \ {c} : calls'[b] = calls[b]  BY <1>2
<1>4. CallsOK'
  <2>1. calls' \in [Calls -> CallRecords]  BY <1>2
  <2>2. faults' \in 0..MaxFaults /\ suspended' \subseteq Agents
    BY <1>1 DEF MovesTo, LedgerStep
  <2>3. \A b \in Calls : calls'[b].phase \in {"throttled", "running"} => calls'[b].agent \in Agents
    BY <1>1, <1>2, <1>3 DEF RequestsInv, CallsOK
  <2> QED  BY <2>1, <2>2, <2>3 DEF RequestsInv, CallsOK
<1>5. AnsweredIsRecorded'
  BY <1>1, <1>2, <1>3, AnswersKept DEF RequestsInv, MovesTo, LedgerStep
<1>6. BrokerInv' /\ ConsentInv'  BY BrokerStill, ConsentStill DEF RequestsInv
<1>7. LedgerOK(ledger)' /\ ReceiptFollowsItsRecord'  BY <1>1 DEF MovesTo, LedgerStep
<1> QED  BY <1>4, <1>5, <1>6, <1>7 DEF RequestsInv

-----------------------------------------------------------------------------
(* Management operations                                                   *)

LEMMA FaultsCounted ==
    ASSUME faults \in 0..MaxFaults, BrokerNext \/ ConsentNext
    PROVE  faults' \in 0..MaxFaults
<1>1. (\E ok \in BOOLEAN : Storing(ok)) \/ UNCHANGED faults
  <2>1. CASE BrokerNext
    <3>1. ASSUME NEW c \in ContractIds, NEW done \in Progress, Sign(c, done) \/ RevokeContract(c, done)
          PROVE  \E ok \in BOOLEAN : Storing(ok)
      <4>1. Storing(done = "all")  BY <3>1 DEF Sign, RevokeContract, Update
      <4> QED  BY <4>1
    <3> QED
      BY <2>1, <3>1 DEF BrokerNext, OpenSession, SessionTimesOut, Refuse, Continue,
                        CounterPropose, Accept
  <2>2. CASE ConsentNext
    BY <2>2 DEF ConsentNext, Grant, Delegate, AddEdge, Revoke, RevokeFails, RemoveNode, SetMembers
  <2> QED  BY <2>1, <2>2
<1> QED  BY <1>1, StoringCounts

LEMMA RestartInv ==
    ASSUME RequestsInv, Restart, operations' \in 0..MaxOperations
    PROVE  RequestsInv'
<1>1. ledger' = Reloaded(ledger) /\ LedgerOK(ledger')
  BY ReloadedOK DEF RequestsInv, Restart
<1>2. ledger'.disk = ledger.disk
  BY <1>1 DEF Reloaded, RequestsInv, LedgerOK, Ledgers
<1>3. /\ calls \in [Calls -> CallRecords]
      /\ calls' = [c \in Calls |-> IF calls[c].phase \in {"throttled", "running"}
                                  THEN [calls[c] EXCEPT !.phase = "failed"] ELSE calls[c]]
  BY DEF RequestsInv, CallsOK, Restart
<1>4. \A c \in Calls :
         /\ calls'[c] \in CallRecords
         /\ calls'[c].phase \notin {"throttled", "running"}
         /\ calls'[c].phase = "answered" => calls[c].phase = "answered"
  <2> TAKE c \in Calls
  <2>1. calls[c] \in CallRecords  BY <1>3
  <2>2. CASE calls[c].phase \in {"throttled", "running"}
    <3>1. calls'[c] = [calls[c] EXCEPT !.phase = "failed"]  BY <1>3, <2>2
    <3> QED  BY <2>1, <3>1 DEF CallRecords, Phases
  <2>3. CASE calls[c].phase \notin {"throttled", "running"}
    <3>1. calls'[c] = calls[c]  BY <1>3, <2>3
    <3> QED  BY <2>1, <2>3, <3>1
  <2> QED  BY <2>2, <2>3
<1>5. CallsOK'
  BY <1>3, <1>4 DEF RequestsInv, CallsOK, Restart
<1>6. Grown  BY <1>2 DEF Grown
<1>7. AnsweredIsRecorded'  BY <1>4, <1>6, AnswersKept DEF RequestsInv
<1>8. ReceiptFollowsItsRecord'  BY <1>2 DEF RequestsInv, ReceiptFollowsItsRecord
<1>9. BrokerInv' /\ ConsentInv'
  BY ReloadBrokerInv, ReloadConsentInv DEF RequestsInv, Restart
<1> QED  BY <1>1, <1>5, <1>7, <1>8, <1>9 DEF RequestsInv

LEMMA ManageInv ==
    ASSUME RequestsInv, Manage
    PROVE  RequestsInv'
<1>1. operations' \in 0..MaxOperations
  BY RequestsAssumption DEF RequestsInv, CallsOK, Manage
<1>2. CASE Restart  BY <1>1, <1>2, RestartInv
<1>3. CASE /\ BrokerNext \/ ConsentNext
           /\ UNCHANGED <<ledger, calls, suspended>>
           /\ BrokerInv' /\ ConsentInv'
  <2>1. faults' \in 0..MaxFaults  BY <1>3, FaultsCounted DEF RequestsInv, CallsOK
  <2>2. CallsOK'  BY <1>1, <1>3, <2>1 DEF RequestsInv, CallsOK
  <2>3. AnsweredIsRecorded' /\ ReceiptFollowsItsRecord' /\ LedgerOK(ledger)'
    BY <1>3 DEF RequestsInv, AnsweredIsRecorded, ReceiptFollowsItsRecord
  <2> QED  BY <1>3, <2>2, <2>3 DEF RequestsInv
<1>4. CASE BrokerNext /\ UNCHANGED <<consentVars, ledger, calls, suspended>>
  <2>1. BrokerInv' /\ ConsentInv'
    BY <1>4, BrokerNextInv, ConsentStill DEF RequestsInv
  <2> QED  BY <1>3, <1>4, <2>1
<1>5. CASE ConsentNext /\ UNCHANGED <<brokerVars, ledger, calls, suspended>>
  <2>1. BrokerInv' /\ ConsentInv'
    BY <1>5, BrokerStill, ConsentNextInv DEF RequestsInv
  <2> QED  BY <1>3, <1>5, <2>1
<1> QED  BY <1>2, <1>4, <1>5 DEF Manage

-----------------------------------------------------------------------------
(* The theorems                                                            *)

LEMMA RequestsStart == Init => RequestsInv
<1> SUFFICES ASSUME Init PROVE RequestsInv
  OBVIOUS
<1>1. BrokerInv /\ ConsentInv /\ LedgerOK(ledger)
  BY BrokerStarts, ConsentStarts, LedgerStarts DEF Init
<1>2. CallsOK
  BY MaxFaultsAssumption, RequestsAssumption DEF Init, CallsOK, CallRecords, Idle, Phases
<1>3. ReceiptFollowsItsRecord  BY DEF Init, LedgerInit, ReceiptFollowsItsRecord
<1>4. AnsweredIsRecorded  BY DEF Init, Idle, AnsweredIsRecorded
<1> QED  BY <1>1, <1>2, <1>3, <1>4 DEF RequestsInv

LEMMA RequestsStep == RequestsInv /\ [Next]_vars => RequestsInv'
<1> SUFFICES ASSUME RequestsInv, [Next]_vars PROVE RequestsInv'
  OBVIOUS
<1>1. ASSUME NEW c \in Calls,
             \/ \E a \in Agents : Arrive(c, a) \/ Deny(c, a)
             \/ Wake(c) \/ Return(c) \/ Raise(c) \/ Ask(c) \/ Cancel(c)
      PROVE  RequestsInv'
  BY <1>1, CallSteps, CallStepInv
<1>2. CASE Manage  BY <1>2, ManageInv
<1>3. CASE UNCHANGED vars
  <2>1. BrokerInv' /\ ConsentInv'  BY <1>3, BrokerStill, ConsentStill DEF vars, RequestsInv
  <2> QED
    BY <1>3, <2>1 DEF vars, RequestsInv, CallsOK, AnsweredIsRecorded, ReceiptFollowsItsRecord
<1> QED  BY <1>1, <1>2, <1>3 DEF Next

LEMMA RequestsAlways == Spec => []RequestsInv
  BY RequestsStart, RequestsStep, PTL DEF Spec

(* Every variable of the middleware and of the components behind it has    *)
(* its type, through failing writes and restarts.                          *)
THEOREM RequestsTypeCorrect == Spec => []TypeOK
  BY RequestsAlways, RequestsType, PTL

(* revoke and its cascade: what a call that returned revoked never grants  *)
(* again, in memory, in storage or after a restart.                        *)
THEOREM RevocationsAreFinal == Spec => []RevokedIsFinal
<1>1. RequestsInv => RevokedIsFinal  BY DEF RequestsInv, ConsentInv
<1> QED  BY <1>1, RequestsAlways, PTL

(* The cascade of revoke reaches every delegation, at any remove, except   *)
(* where it or an edge between was not in memory when revoke returned,     *)
(* whatever failed before it and whatever is delegated or restarted after. *)
THEOREM RevocationsCascade == Spec => []RevocationReachesDelegates
<1>1. RequestsInv => RevocationReachesDelegates  BY DEF RequestsInv, ConsentInv
<1> QED  BY <1>1, RequestsAlways, PTL

(* revoke_contract takes no lock and still wins over every signature,      *)
(* negotiation, failed write and restart.                                  *)
THEOREM RevokedContractsEnd == Spec => []EndedContractsStayEnded
<1>1. RequestsInv => EndedContractsStayEnded  BY DEF RequestsInv, BrokerInv, ContractPart
<1> QED  BY <1>1, RequestsAlways, PTL

(* The order in which the broker logs and stores keeps every stored        *)
(* contract accounted for in the exchange log.                             *)
THEOREM ContractsAccounted == Spec => []StoredContractsLogged
<1>1. RequestsInv => StoredContractsLogged  BY DEF RequestsInv, BrokerInv, ContractPart
<1> QED  BY <1>1, RequestsAlways, PTL

(* A chain that verify_chain refuses has lost a record: failing appends    *)
(* and anchors and restarts do it no other harm.                           *)
THEOREM ChainBreaksOnlyByLoss == Spec => []GapsAreLosses
<1>1. RequestsInv => GapsAreLosses  BY LedgerShows DEF RequestsInv
<1> QED  BY <1>1, RequestsAlways, PTL

(* An anchor that does not match the stored records covers one whose       *)
(* record() raised: the scheme commits before storage accepts.             *)
THEOREM AnchorsFailOnlyByLoss == Spec => []AnchorsMatch
<1>1. RequestsInv => AnchorsMatch  BY LedgerShows DEF RequestsInv
<1> QED  BY <1>1, RequestsAlways, PTL

(* on_call_tool answers only what the ledger has stored, with its receipt. *)
THEOREM AnswersRecorded == Spec => []AnsweredIsRecorded
<1>1. RequestsInv => AnsweredIsRecorded  BY DEF RequestsInv
<1> QED  BY <1>1, RequestsAlways, PTL

(* A receipt stands directly behind the record of its own call.            *)
THEOREM ReceiptsInPlace == Spec => []ReceiptFollowsItsRecord
<1>1. RequestsInv => ReceiptFollowsItsRecord  BY DEF RequestsInv
<1> QED  BY <1>1, RequestsAlways, PTL

(* What AdmittedOnLiveGrants says of a step.                               *)
Admission ==
    \A c \in Calls :
        /\ calls[c] = Idle /\ calls'[c].phase \in {"throttled", "running"}
           => calls'[c].contract \notin ended
        /\ calls[c].phase # "running" /\ calls'[c].phase = "running"
           => Consented([e \in DOMAIN edges \ withdrawn |-> edges[e]], calls'[c].agent)

(* Consent never rests on a withdrawn edge.                                *)
LEMMA LiveConsent ==
    ASSUME ConsentInv, NEW a, Consented(edges, a)
    PROVE  Consented([e \in DOMAIN edges \ withdrawn |-> edges[e]], a)
<1> DEFINE live == [e \in DOMAIN edges \ withdrawn |-> edges[e]]
<1>1. Active(edges) \cap withdrawn = {} /\ Active(edges) \subseteq DOMAIN edges
  BY DEF ConsentInv, RevokedIsFinal, Active
<1>2. /\ DOMAIN live = DOMAIN edges \ withdrawn
      /\ \A e \in DOMAIN live : live[e] = edges[e]
  OBVIOUS
<1> HIDE DEF live
<1>3. Active(live) = Active(edges)  BY <1>1, <1>2 DEF Active
<1>4. \A e \in Active(edges) : live[e] = edges[e]  BY <1>1, <1>2
<1>5. Reached(live) = Reached(edges)  BY <1>3, <1>4 DEF Reached
<1>6. Consented(live, a)  BY <1>3, <1>4, <1>5 DEF Consented
<1> QED  BY <1>6 DEF live

LEMMA CallAdmission ==
    ASSUME RequestsInv, NEW c \in Calls, CallStep(c)
    PROVE  Admission
<1>1. PICK a \in Agents \cup {None}, k \in ContractIds \cup {None}, p \in Phases :
         /\ MovesTo(c, a, k, p)
         /\ p = "throttled" => calls[c] = Idle
         /\ calls[c] = Idle /\ p \in {"throttled", "running"} => k \in ActiveContracts(a)
  BY DEF CallStep
<1> DEFINE x == [phase |-> p, agent |-> a, contract |-> k]
<1>2. /\ calls' = [calls EXCEPT ![c] = x] /\ calls \in [Calls -> CallRecords]
      /\ x.phase = p /\ x.agent = a /\ x.contract = k
  BY <1>1 DEF RequestsInv, CallsOK, MovesTo, Move
<1> HIDE DEF x
<1>3. calls'[c] = x /\ \A b \in Calls \ {c} : calls'[b] = calls[b]  BY <1>2
<1>4. k \in ActiveContracts(a) => k \notin ended
  BY DEF ActiveContracts, RequestsInv, BrokerInv, ContractPart, EndedContractsStayEnded
<1>5. p = "running" => Consented([e \in DOMAIN edges \ withdrawn |-> edges[e]], a)
  BY <1>1, LiveConsent DEF MovesTo, RequestsInv
<1>6. Idle.phase = "idle"  BY DEF Idle
<1>7. ASSUME NEW b \in Calls \ {c}
      PROVE  /\ ~(calls[b] = Idle /\ calls'[b].phase \in {"throttled", "running"})
             /\ ~(calls[b].phase # "running" /\ calls'[b].phase = "running")
  BY <1>3, <1>6
<1>8. calls'[c].phase = p /\ calls'[c].agent = a /\ calls'[c].contract = k  BY <1>2, <1>3
<1>9. calls[c] = Idle /\ calls'[c].phase \in {"throttled", "running"}
         => calls'[c].contract \notin ended
  BY <1>1, <1>4, <1>8
<1>10. calls[c].phase # "running" /\ calls'[c].phase = "running"
         => Consented([e \in DOMAIN edges \ withdrawn |-> edges[e]], calls'[c].agent)
  BY <1>5, <1>8
<1> QED  BY <1>7, <1>9, <1>10 DEF Admission

(* on_call_tool: no call is admitted under a contract, or started over     *)
(* grants, whose revocation was acknowledged before.                       *)
THEOREM AdmissionsAreLive == Spec => AdmittedOnLiveGrants
<1>1. RequestsInv /\ [Next]_vars => Admission
  <2> SUFFICES ASSUME RequestsInv, [Next]_vars PROVE Admission
    OBVIOUS
  <2>1. ASSUME NEW c \in Calls,
               \/ \E a \in Agents : Arrive(c, a) \/ Deny(c, a)
               \/ Wake(c) \/ Return(c) \/ Raise(c) \/ Ask(c) \/ Cancel(c)
        PROVE  Admission
    BY <2>1, CallSteps, CallAdmission
  <2>2. CASE Restart
    <3>1. calls \in [Calls -> CallRecords]  BY DEF RequestsInv, CallsOK
    <3>2. ASSUME NEW c \in Calls PROVE calls'[c].phase \notin {"throttled", "running"}
      <4>1. CASE calls[c].phase \in {"throttled", "running"}
        <5>1. calls'[c] = [calls[c] EXCEPT !.phase = "failed"]  BY <2>2, <4>1 DEF Restart
        <5>2. calls[c] \in CallRecords  BY <3>1
        <5> QED  BY <5>1, <5>2 DEF CallRecords
      <4>2. CASE calls[c].phase \notin {"throttled", "running"}
        <5>1. calls'[c] = calls[c]  BY <2>2, <4>2 DEF Restart
        <5> QED  BY <4>2, <5>1
      <4> QED  BY <4>1, <4>2
    <3> QED  BY <3>2 DEF Admission
  <2>3. CASE UNCHANGED calls  BY <2>3 DEF Admission, Idle
  <2> QED  BY <2>1, <2>2, <2>3 DEF Next, Manage, vars
<1>2. RequestsInv /\ [Next]_vars => [Admission]_vars  BY <1>1
<1> QED  BY <1>2, RequestsAlways, PTL DEF Spec, AdmittedOnLiveGrants, Admission

(* _continue_negotiation and _create_contract: a session whose agent was   *)
(* told it is rejected gets no contract.                                   *)
THEOREM RefusalsAreFinal == Spec => RefusalsHold
<1> DEFINE A == \A c \in ContractIds :
                   contracts[c] = None /\ contracts'[c] # None => contracts'[c].session \notin refused
<1>1. RequestsInv /\ [Next]_vars => [A]_brokerVars
  <2> SUFFICES ASSUME RequestsInv, [Next]_vars, ~UNCHANGED brokerVars PROVE A
    OBVIOUS
  <2>1. BrokerNext \/ Restart
    BY DEF Next, Manage, Arrive, Deny, Wake, Return, Raise, Ask, Cancel, vars
  <2>2. CASE BrokerNext  BY <2>2, RefusedGetNone DEF RequestsInv
  <2>3. CASE Restart
    BY <2>3 DEF Restart, ReloadBroker, RequestsInv, BrokerInv, ContractPart
  <2> QED  BY <2>1, <2>2, <2>3
<1> QED  BY <1>1, RequestsAlways, PTL DEF Spec, RefusalsHold
=============================================================================
