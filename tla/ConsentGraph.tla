---------------------------- MODULE ConsentGraph ----------------------------
(***************************************************************************)
(* The consent graph: grants of access from a node to a node, delegated    *)
(* further by their holders, revoked with everything delegated from them,  *)
(* and kept in storage one edge at a time.                                 *)
(*                                                                         *)
(* The methods are synchronous: each is one action.  A write that raises   *)
(* ends the method where it stands, with memory ahead of storage; that is  *)
(* all that storage can do here, and a crash inside a method is such a     *)
(* failure followed by a restart.                                          *)
(*                                                                         *)
(* One scope is modelled.  Expiry and conditions only withhold a grant     *)
(* that is otherwise valid; whoever evaluates the graph allows for that.   *)
(* Nodes are not: neither granting nor evaluating looks them up.           *)
(***************************************************************************)
EXTENDS Storage, FiniteSets

CONSTANTS Owner,        \* the resource owner whose consent is asked for
          Holders,      \* the agents access can be granted to
          Groups,
          Grants,       \* bound: the grants made: src, tgt, delegatable, limit
          MaxEdges      \* bound: edges ever made

ASSUME ConsentAssumption ==
    /\ MaxEdges \in 0..10       \* a chain of edges longer than 10 is not followed
    /\ Owner \notin Holders
    /\ Groups \cap (Holders \cup {Owner}) = {}

VARIABLES edges,        \* ConsentGraph._edges, as a function of edge ids
          savedEdges,   \* the backend's edges
          members,      \* ConsentGraph._groups
          savedMembers, \* the backend's groups
          minted,       \* edge ids used so far
          withdrawn,    \* history: edges revoked by a call that returned
          forebears,    \* history: for each edge, those it was delegated from, at all removes
          missed        \* history: <<a, e>>: a was revoked while e, delegated from it
                        \* at any remove, was not in memory

consentVars ==
    <<edges, savedEdges, members, savedMembers, minted, withdrawn, forebears, missed>>

-----------------------------------------------------------------------------
Nodes == {Owner} \cup Holders \cup Groups
EdgeIds == 1..MaxEdges

ASSUME GrantsAssumption ==
    Grants \subseteq [src : Nodes, tgt : Nodes, delegatable : BOOLEAN, limit : Nat]

Edges == [src : Nodes, tgt : Nodes, delegatable : BOOLEAN, limit : Nat, depth : Nat,
          parent : 0..MaxEdges, status : {"active", "revoked"}]

\* Edge maps hold some of the ids.
EdgeMap(m) == DOMAIN m \subseteq 1..minted /\ \A e \in DOMAIN m : m[e] \in Edges

ConsentTypeOK ==
    /\ EdgeMap(edges) /\ EdgeMap(savedEdges)
    /\ members \in [Groups -> SUBSET Nodes]
    /\ savedMembers \in [Groups -> SUBSET Nodes]
    /\ minted \in 0..MaxEdges
    /\ withdrawn \subseteq 1..minted
    /\ forebears \in [EdgeIds -> SUBSET EdgeIds]
    /\ missed \subseteq EdgeIds \X EdgeIds

-----------------------------------------------------------------------------
With(m, e, edge) == [x \in DOMAIN m \cup {e} |-> IF x = e THEN edge ELSE m[x]]

CanDelegate(edge) ==
    edge.status = "active" /\ edge.delegatable /\ (edge.limit > 0 => edge.depth < edge.limit)

\* Mutant: the cascade stops after the direct delegations.
BelowDirect(roots) ==
    {x \in DOMAIN edges : x \in roots \/ edges[x].parent \in roots}

\* The edges roots and all that were delegated from them, as far as the graph
\* in memory still connects them: the least set closed under delegation.
Below(roots) ==
    {x \in DOMAIN edges :
        \A S \in SUBSET DOMAIN edges :
            (/\ roots \cap DOMAIN edges \subseteq S
             /\ \A e \in DOMAIN edges : edges[e].parent \in S => e \in S) => x \in S}

\* The cascade visits an edge, then everything below it, in the order the map
\* happens to hold them.  done may have been finished when last is reached.
CascadeReaches(roots, done, last) ==
    /\ \A x \in done \cup {last} : x \in roots \/ edges[x].parent \in done
    /\ \A x \in done : last \in Below({x}) \/ Below({x}) \subseteq done

Revoked(m, ids) == [e \in DOMAIN m |-> IF e \in ids THEN [m[e] EXCEPT !.status = "revoked"] ELSE m[e]]

\* Mutant: the cascade stores nothing but the edge it was called for.
SavedRevokedOnce(ids) ==
    [e \in DOMAIN savedEdges \cup ids |->
        IF \A x \in ids : e <= x /\ e \in ids THEN [edges[e] EXCEPT !.status = "revoked"]
        ELSE IF e \in DOMAIN savedEdges THEN savedEdges[e] ELSE edges[e]]

\* Each visited edge is stored whole, as memory has it.
SavedRevoked(ids) ==
    [e \in DOMAIN savedEdges \cup ids |->
        IF e \in ids THEN [edges[e] EXCEPT !.status = "revoked"] ELSE savedEdges[e]]

-----------------------------------------------------------------------------
\* An edge enters memory, then storage (and then the audit log, whose failure
\* changes nothing that is kept here).
AddEdge(edge) ==
    /\ minted < MaxEdges
    /\ minted' = minted + 1
    /\ edges' = With(edges, minted + 1, edge)
    /\ \E ok \in BOOLEAN :
          /\ Storing(ok)
          /\ savedEdges' = IF ok THEN With(savedEdges, minted + 1, edge) ELSE savedEdges
    /\ forebears' = [forebears EXCEPT ![minted + 1] =
                        IF edge.parent = 0 THEN {} ELSE {edge.parent} \cup forebears[edge.parent]]
    /\ UNCHANGED <<members, savedMembers, withdrawn, missed>>

Grant(g) ==
    AddEdge([src |-> g.src, tgt |-> g.tgt, delegatable |-> g.delegatable,
             limit |-> g.limit, depth |-> 0, parent |-> 0, status |-> "active"])

Delegate(p, target) ==
    /\ p \in DOMAIN edges
    /\ CanDelegate(edges[p])
    /\ AddEdge([edges[p] EXCEPT !.tgt = target, !.depth = @ + 1, !.parent = p])

\* What was delegated from the edges ids and is not in memory.
OutOfReach(ids) ==
    {p \in ids \X (1..minted) : p[1] \in forebears[p[2]] /\ p[2] \notin DOMAIN edges}

\* revoke of one edge, or of the edges revoke_all finds, with the cascade.
Revoke(roots) ==
    /\ roots # {} /\ roots \subseteq DOMAIN edges
    /\ Storing(TRUE)
    /\ edges' = Revoked(edges, Below(roots))
    /\ savedEdges' = SavedRevoked(Below(roots))
    /\ withdrawn' = withdrawn \cup Below(roots)
    /\ missed' = missed \cup OutOfReach(Below(roots))
    /\ UNCHANGED <<members, savedMembers, minted, forebears>>

\* The same, when storing the edge last raises, or the audit entry that is
\* written when last and everything below it is done.
RevokeFails(roots) ==
    /\ roots # {} /\ roots \subseteq DOMAIN edges
    /\ Storing(FALSE)
    /\ \E last \in Below(roots), done \in SUBSET Below(roots) :
          /\ last \notin done
          /\ CascadeReaches(roots, done, last)
          /\ \/ /\ edges' = Revoked(edges, done \cup {last})
                /\ savedEdges' = SavedRevoked(done)
             \/ /\ edges' = Revoked(edges, done \cup Below({last}))
                /\ savedEdges' = SavedRevoked(done \cup Below({last}))
    /\ UNCHANGED <<members, savedMembers, minted, withdrawn, forebears, missed>>

\* The edges revoke_all revokes.
Between(s, t) ==
    {e \in DOMAIN edges : edges[e].src = s /\ edges[e].tgt = t /\ edges[e].status = "active"}

\* remove_node drops the node's edges from memory and never from storage;
\* edges delegated from them stay.  Then it leaves its groups one by one, each
\* stored as memory has it, and is dropped last if it is a group; storing the
\* group last may raise.
Touching(n) == {e \in DOMAIN edges : n \in {edges[e].src, edges[e].tgt}}
GroupsOf(n) == {g \in Groups : g = n \/ n \in members[g]}
Left(m, n, gs) ==
    [g \in Groups |-> IF g \in gs THEN IF g = n THEN {} ELSE members[g] \ {n} ELSE m[g]]

RemoveNode(n) ==
    /\ edges' = [e \in DOMAIN edges \ Touching(n) |-> edges[e]]
    /\ \/ /\ Storing(TRUE)
          /\ members' = Left(members, n, GroupsOf(n))
          /\ savedMembers' = Left(savedMembers, n, GroupsOf(n))
       \/ \E last \in GroupsOf(n), done \in SUBSET GroupsOf(n) :
             /\ Storing(FALSE)
             /\ last \notin done
             /\ n \in done \cup {last} => done = GroupsOf(n) \ {n}
             /\ members' = Left(members, n, done \cup {last})
             /\ savedMembers' = Left(savedMembers, n, done)
    /\ UNCHANGED <<savedEdges, minted, withdrawn, forebears, missed>>

\* add_to_group and remove_from_group; one that changes nothing stores again
\* what memory has.
SetMembers(g, group) ==
    /\ members' = [members EXCEPT ![g] = group]
    /\ \E ok \in BOOLEAN :
          /\ Storing(ok)
          /\ savedMembers' = IF ok THEN [savedMembers EXCEPT ![g] = group] ELSE savedMembers
    /\ UNCHANGED <<edges, savedEdges, minted, withdrawn, forebears, missed>>

\* A new process loads the graph.
ReloadConsent ==
    /\ edges' = savedEdges
    /\ members' = savedMembers
    /\ UNCHANGED <<savedEdges, savedMembers, minted, withdrawn, forebears, missed>>

-----------------------------------------------------------------------------
\* evaluate, on the edges m and the groups in memory.
\* Mutant of Active: a revoked edge still grants.
ActiveAny(m) == DOMAIN m

Active(m) == {e \in DOMAIN m : m[e].status = "active"}

\* The nodes the search reaches from the owner over delegatable edges.
Reached(m) ==
    {n \in Nodes :
        \A S \in SUBSET Nodes :
            (/\ Owner \in S
             /\ \A e \in Active(m) : m[e].delegatable /\ m[e].src \in S => m[e].tgt \in S)
            => n \in S}

Consented(m, a) ==
    \E e \in Active(m) :
        \/ m[e].src \in Reached(m) /\ m[e].tgt = a
        \/ m[e].src = Owner /\ m[e].tgt \in Groups /\ a \in members[m[e].tgt]
        \/ m[e].src \in Groups /\ Owner \in members[m[e].src] /\ m[e].tgt = a

-----------------------------------------------------------------------------
ConsentInit ==
    /\ edges = <<>> /\ savedEdges = <<>>
    /\ members = [g \in Groups |-> {}]
    /\ savedMembers = [g \in Groups |-> {}]
    /\ minted = 0
    /\ withdrawn = {} /\ missed = {}
    /\ forebears = [e \in EdgeIds |-> {}]

ConsentNext ==
    \/ \E g \in Grants : Grant(g)
    \/ \E p \in EdgeIds, t \in Holders : Delegate(p, t)
    \/ \E e \in EdgeIds : Revoke({e}) \/ RevokeFails({e})
    \/ \E s \in Nodes, t \in Nodes : Revoke(Between(s, t)) \/ RevokeFails(Between(s, t))
    \/ \E n \in Nodes : RemoveNode(n)
    \/ \E g \in Groups, n \in Holders \cup {Owner} :
          SetMembers(g, members[g] \cup {n}) \/ SetMembers(g, members[g] \ {n})

-----------------------------------------------------------------------------
(***************************************************************************)
(* Properties                                                              *)
(***************************************************************************)
\* An edge revoked by a call that returned, itself or through the cascade, is
\* never active again: not in memory, not in storage, and so not after any
\* later failure, removal or restart (revoke, _load_from_backend).
RevokedIsFinal ==
    \A m \in {edges, savedEdges} : Active(m) \cap withdrawn = {}

\* "Revoke a consent edge and all its delegated children": no active edge, in
\* memory or in storage, was delegated from a withdrawn one, directly or at any
\* remove, unless it or an edge between the two was not in memory at the moment
\* the revocation returned (its node had been removed, or it was lost in a
\* restart because its save had failed).  Nothing else escapes a cascade,
\* whatever failed before it and whoever delegates or restarts after it.
RevocationReachesDelegates ==
    \A m \in {edges, savedEdges} : \A e \in Active(m), a \in withdrawn :
        a \in forebears[e] =>
            \E x \in {e} \cup forebears[e] : <<a, x>> \in missed
=============================================================================
