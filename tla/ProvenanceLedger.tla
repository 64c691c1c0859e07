-------------------------- MODULE ProvenanceLedger --------------------------
(***************************************************************************)
(* The provenance ledger: a hash chain in memory, the copy of it in        *)
(* storage, and the Merkle roots its scheme anchors on an external chain.  *)
(*                                                                         *)
(* record() is synchronous and does three things in this order: it appends *)
(* the record to the chain in memory, hands its hash to the scheme, which  *)
(* may commit an anchor, and appends it to storage.  The second and third  *)
(* may raise; nothing is undone then, and the next record links to one     *)
(* that storage never had.                                                 *)
(*                                                                         *)
(* A hash is the number of the record, counted over all processes: equal   *)
(* hashes mean equal records.  A Merkle root is the sequence of hashes it  *)
(* was computed from.  The genesis nonce is a negative number.             *)
(***************************************************************************)
EXTENDS Storage, SequencesExt

CONSTANT AnchorInterval     \* records between two anchors

ASSUME LedgerAssumption == AnchorInterval \in Nat \ {0}

VARIABLE ledger

-----------------------------------------------------------------------------
NoGenesis == 0
Outcomes == {"kept", "unanchored", "unstored"}

\* mem: _records and the leaves of the Merkle tree; disk: the backend's
\* records; genesis: _genesis_hash; since: _records_since_anchor; anchored: the
\* roots on the external chain; made: records made so far; lost: history, the
\* records whose record() raised.
LedgerInit ==
    ledger = [mem |-> <<>>, disk |-> <<>>, genesis |-> NoGenesis, since |-> 0,
              anchored |-> {}, made |-> 0, lost |-> {}]

Hashes(chain) == [i \in DOMAIN chain |-> chain[i].hash]

LedgerTypeOK ==
    /\ \A chain \in {ledger.mem, ledger.disk} : \A i \in DOMAIN chain :
          chain[i].hash \in 1..ledger.made /\ chain[i].prev \in Int
    /\ ledger.lost \subseteq 1..ledger.made
    /\ ledger.since \in 0..ledger.made

-----------------------------------------------------------------------------
\* _get_or_create_genesis_hash: drawn with the first record and kept.
Genesis(l) == IF l.genesis = NoGenesis THEN -(l.made + 1) ELSE l.genesis

Link(l) == IF l.mem = <<>> THEN Genesis(l) ELSE Last(l.mem).hash

AnchorDue(l) == l.since + 1 >= AnchorInterval

\* record(what): the ledger afterwards, o telling where it raised, if it did.
Recorded(l, what, o) ==
    LET mem     == Append(l.mem, [hash |-> l.made + 1, prev |-> Link(l), what |-> what])
        anchors == AnchorDue(l) /\ o # "unanchored"
    IN  [mem      |-> mem,
         disk     |-> IF o = "kept" THEN Append(l.disk, Last(mem)) ELSE l.disk,
         genesis  |-> IF l.mem = <<>> THEN Genesis(l) ELSE l.genesis,
         since    |-> IF anchors THEN 0 ELSE l.since + 1,
         anchored |-> IF anchors THEN l.anchored \cup {Hashes(mem)} ELSE l.anchored,
         made     |-> l.made + 1,
         lost     |-> IF o = "kept" THEN l.lost ELSE l.lost \cup {l.made + 1}]

\* What record() may do: a commit raises only when one is due.
MayEnd(l, o) == o \in Outcomes /\ (o = "unanchored" => AnchorDue(l))

\* Mutant: the genesis nonce is not recovered.
ReloadedWithoutGenesis(l) ==
    [l EXCEPT !.mem = l.disk, !.genesis = NoGenesis, !.since = Len(l.disk) % AnchorInterval]

\* Mutant: storage hands the records back in another order.
ReloadedUnordered(l) ==
    LET back == Reverse(l.disk)
    IN  [l EXCEPT !.mem = back,
                  !.genesis = IF back = <<>> THEN NoGenesis ELSE back[1].prev,
                  !.since = Len(back) % AnchorInterval,
                  !.anchored = @ \cup {SubSeq(Hashes(back), 1, n) :
                                         n \in {k \in 1..Len(back) : k % AnchorInterval = 0}}]

\* _load_from_backend: the chain is storage's, and its genesis is whatever the
\* first record links to.  The scheme starts anew and anchors the prefixes it
\* meets again; a commit that raises then keeps the process from starting.
Reloaded(l) ==
    [l EXCEPT !.mem = l.disk,
              !.genesis = IF l.disk = <<>> THEN NoGenesis ELSE l.disk[1].prev,
              !.since = Len(l.disk) % AnchorInterval,
              !.anchored = @ \cup {SubSeq(Hashes(l.disk), 1, n) :
                                     n \in {k \in 1..Len(l.disk) : k % AnchorInterval = 0}}]

\* verify_chain, at the record with index i.
Linked(chain, i) == chain[i].prev = IF i = 1 THEN ledger.genesis ELSE chain[i - 1].hash

-----------------------------------------------------------------------------
(***************************************************************************)
(* Properties                                                              *)
(***************************************************************************)
\* A chain that does not verify has lost a record: every link that does not
\* lead to the record before it leads to one whose record() raised.  Across
\* restarts the genesis nonce recovered from storage is the one the chain was
\* begun with, or stands for a lost head.
GapsAreLosses ==
    \A chain \in {ledger.mem, ledger.disk} : \A i \in DOMAIN chain :
        Linked(chain, i) \/ chain[i].prev \in ledger.lost

\* Every root on the external chain is the root of a prefix of the stored
\* records, unless it covers a record that storage does not have because its
\* record() raised: audits against the anchors fail for no other reason, also
\* after restarts that anchor the same records again.
AnchorsMatch ==
    \A root \in ledger.anchored :
        IsPrefix(root, Hashes(ledger.disk)) \/ Range(root) \cap ledger.lost # {}
=============================================================================
