--------------------------- MODULE RegistryProofs ---------------------------
(***************************************************************************)
(* Theorems about ToolRegistry, for every value of its constants.          *)
(***************************************************************************)
EXTENDS ToolRegistry, TLAPS

-----------------------------------------------------------------------------
(* The inductive invariant *)

(* A candidate is of submissions that were made, and goes forward from its *)
(* base, within the author's own releases.                                 *)
Forward(r, s) ==
    /\ r.content \in DOMAIN s /\ r.base.content \in DOMAIN s
    /\ s[r.base.content].ver < s[r.content].ver
    /\ s[r.base.content].author = s[r.content].author

Fine(l, s) ==
    /\ l \in Listings
    /\ l.content \in DOMAIN s
    /\ \A i \in DOMAIN l.records : Forward(l.records[i], s)

Counted ==
    /\ subs \in Seq(Submissions) /\ Len(subs) <= MaxSubmissions
    /\ issued \subseteq DOMAIN subs /\ revoked \subseteq issued
    /\ faults \in 0..MaxFaults
    /\ cleared \subseteq DOMAIN subs

Rows ==
    /\ mem # NoListing => Fine(mem, subs)
    /\ db # NoListing => Fine(db, subs) /\ ~db.shared

(* What storage knows to be revoked, memory knows too.                     *)
Told ==
    (/\ mem # NoListing /\ db # NoListing
     /\ mem.content = db.content /\ db.att = "revoked") => AttStatus(mem) = "revoked"

RegistryInv == Counted /\ Rows /\ ReleasesAgree /\ Told

-----------------------------------------------------------------------------
(* Listings *)

LEMMA FineGrows ==
    ASSUME NEW s \in Seq(Submissions), NEW x \in Submissions, NEW l, Fine(l, s)
    PROVE  Fine(l, Append(s, x))
<1>1. /\ DOMAIN s \subseteq DOMAIN Append(s, x)
      /\ \A k \in DOMAIN s : Append(s, x)[k] = s[k]
  OBVIOUS
<1> QED  BY <1>1 DEF Fine, Forward

LEMMA FineStatus ==
    ASSUME NEW s, NEW l, Fine(l, s), NEW st \in Statuses
    PROVE  Fine([l EXCEPT !.status = st], s)
  BY DEF Fine, Listings

LEMMA AttKnown ==
    ASSUME NEW l \in Listings
    PROVE  AttStatus(l) \in AttStatuses
  BY DEF AttStatus, AttStatuses, Listings

LEMMA FineStored ==
    ASSUME NEW s, NEW l, Fine(l, s)
    PROVE  /\ Fine(Stored(l), s) /\ ~Stored(l).shared
           /\ Stored(l).records = l.records /\ Stored(l).content = l.content
           /\ Stored(l).att = AttStatus(l) /\ Stored(l).status = l.status
<1>1. l \in Listings  BY DEF Fine
<1>2. AttStatus(l) \in AttStatuses  BY <1>1, AttKnown
<1> HIDE DEF AttStatus
<1> QED  BY <1>1, <1>2 DEF Fine, Stored, Listings

LEMMA InListings == \A l : l \in Listings => l # NoListing
  BY NoListingAssumption

(* The listing is replaced and stored as well as it can be.                *)
LEMMA PutInv ==
    ASSUME NEW l, NEW ok \in BOOLEAN, Put(l, ok), RegistryInv, Counted', UNCHANGED revoked,
           Fine(l, subs'),
           db # NoListing => /\ Fine(db, subs')
                             /\ l.records = db.records
                             /\ l.content = db.content /\ db.att = "revoked"
                                   => AttStatus(l) = "revoked",
           db = NoListing => l.records = <<>>
    PROVE  RegistryInv'
<1>1. mem' = l /\ db' = (IF ok THEN Stored(l) ELSE db)  BY DEF Put
<1>2. l # NoListing  BY InListings DEF Fine
<1>3. AttStatus(mem)' = AttStatus(l)  BY <1>1 DEF AttStatus
<1>4. /\ Fine(Stored(l), subs') /\ ~Stored(l).shared
      /\ Stored(l).records = l.records /\ Stored(l).content = l.content
      /\ Stored(l).att = AttStatus(l)
  BY FineStored
<1>5. CASE ok
  <2>1. Rows'  BY <1>1, <1>2, <1>4, <1>5 DEF Rows
  <2>2. ReleasesAgree'
    <3>1. db' # NoListing  BY <1>1, <1>4, <1>5, InListings DEF Fine
    <3> QED  BY <1>1, <1>2, <1>4, <1>5, <3>1 DEF ReleasesAgree
  <2>3. Told'  BY <1>1, <1>3, <1>4, <1>5 DEF Told
  <2> QED  BY <2>1, <2>2, <2>3 DEF RegistryInv
<1>6. CASE ~ok
  <2>1. Rows'  BY <1>1, <1>6 DEF Rows, RegistryInv
  <2>2. ReleasesAgree'  BY <1>1, <1>2, <1>6 DEF ReleasesAgree
  <2>3. Told'  BY <1>1, <1>3, <1>6 DEF Told
  <2> QED  BY <2>1, <2>2, <2>3 DEF RegistryInv
<1> QED  BY <1>5, <1>6

(* The row is replaced, and the listing with it.                           *)
LEMMA SaveInv ==
    ASSUME NEW r, NEW ok \in BOOLEAN, Save(r, ok), RegistryInv, Counted', UNCHANGED revoked,
           Fine(r, subs'), ~r.shared,
           mem # NoListing => Fine(mem, subs'),
           db # NoListing => Fine(db, subs')
    PROVE  RegistryInv'
<1>1. CASE ok
  <2>1. mem' = r /\ db' = r  BY <1>1 DEF Save
  <2>2. Rows'  BY <2>1 DEF Rows
  <2>3. ReleasesAgree'  BY <2>1, InListings DEF ReleasesAgree, Fine
  <2>4. Told'  BY <2>1 DEF Told, AttStatus
  <2> QED  BY <2>2, <2>3, <2>4 DEF RegistryInv
<1>2. CASE ~ok
  <2>1. mem' = mem /\ db' = db  BY <1>2 DEF Save
  <2>2. Rows'  BY <2>1 DEF Rows, RegistryInv
  <2>3. ReleasesAgree'  BY <2>1 DEF ReleasesAgree, RegistryInv
  <2>4. Told'  BY <2>1 DEF Told, AttStatus, RegistryInv
  <2> QED  BY <2>2, <2>3, <2>4 DEF RegistryInv
<1> QED  BY <1>1, <1>2

(* A submission is certified.                                              *)
LEMMA CertifyCounted ==
    ASSUME NEW s \in Submissions, Certify(s), RegistryInv,
           faults' \in 0..MaxFaults, UNCHANGED cleared
    PROVE  /\ Counted'
           /\ subs' \in Seq(Submissions) /\ DOMAIN subs' = 1..(Len(subs) + 1)
           /\ DOMAIN subs = 1..Len(subs) /\ Len(subs) + 1 \in Contents
           /\ \A k \in DOMAIN subs : subs'[k] = subs[k]
           /\ subs'[Len(subs) + 1] = s
           /\ \A l : Fine(l, subs) => Fine(l, subs')
           /\ UNCHANGED revoked
<1>1. /\ subs \in Seq(Submissions) /\ Len(subs) < MaxSubmissions
      /\ subs' = Append(subs, s) /\ issued' = issued \cup {Len(subs) + 1}
      /\ revoked' = revoked
  BY DEF Certify, RegistryInv, Counted
<1>2. /\ subs' \in Seq(Submissions) /\ Len(subs') = Len(subs) + 1
      /\ DOMAIN subs' = 1..(Len(subs) + 1) /\ DOMAIN subs = 1..Len(subs)
      /\ \A k \in DOMAIN subs : subs'[k] = subs[k]
      /\ subs'[Len(subs) + 1] = s
  BY <1>1
<1>3. MaxSubmissions \in Nat /\ Len(subs) \in Nat  BY <1>1, ConstantsAssumption
<1>4. Counted'  BY <1>1, <1>2, <1>3 DEF Counted, RegistryInv
<1>5. \A l : Fine(l, subs) => Fine(l, subs')  BY <1>1, FineGrows
<1> QED  BY <1>1, <1>2, <1>3, <1>4, <1>5 DEF Contents

LEMMA StoringBounded ==
    ASSUME NEW ok \in BOOLEAN, Storing(ok), RegistryInv
    PROVE  faults' \in 0..MaxFaults
  BY MaxFaultsAssumption DEF Storing, RegistryInv, Counted

-----------------------------------------------------------------------------
(* The invariant holds of every step *)

LEMMA RegistryInitInv == Init => RegistryInv
<1> SUFFICES ASSUME Init PROVE RegistryInv
  OBVIOUS
<1>1. Counted
  BY ConstantsAssumption, MaxFaultsAssumption DEF Init, Counted
<1> QED  BY <1>1 DEF Init, RegistryInv, Rows, ReleasesAgree, Told

LEMMA EffectiveStatusKnown == EffectiveStatus \in Statuses
  BY DEF EffectiveStatus, Statuses

LEMMA SubmitNewInv ==
    ASSUME RegistryInv, NEW s \in Submissions, SubmitNew(s)
    PROVE  RegistryInv'
<1> DEFINE l == [status |-> EffectiveStatus, content |-> Len(subs) + 1, kind |-> s.kind,
                 att |-> "valid", shared |-> TRUE, records |-> <<>>]
<1>1. PICK ok \in BOOLEAN : Put(l, ok)  BY DEF SubmitNew
<1>2. mem = NoListing /\ Certify(s) /\ UNCHANGED cleared  BY DEF SubmitNew
<1>3. faults' \in 0..MaxFaults  BY <1>1, StoringBounded DEF Put
<1>4. /\ Counted' /\ DOMAIN subs' = 1..(Len(subs) + 1) /\ Len(subs) + 1 \in Contents
      /\ DOMAIN subs = 1..Len(subs)
      /\ UNCHANGED revoked /\ \A x : Fine(x, subs) => Fine(x, subs')
  BY <1>2, <1>3, CertifyCounted
<1>5. Len(subs) + 1 \in DOMAIN subs' /\ Len(subs) + 1 \notin DOMAIN subs
  BY <1>4 DEF RegistryInv, Counted
<1>6. l \in Listings
  BY <1>4, EffectiveStatusKnown DEF Listings, Submissions, AttStatuses, Releases
<1>7. Fine(l, subs')  BY <1>5, <1>6 DEF Fine
<1>8. db # NoListing =>
         Fine(db, subs') /\ l.records = db.records /\ l.content # db.content
  BY <1>2, <1>4, <1>5 DEF RegistryInv, Rows, ReleasesAgree, Fine
<1>9. l.records = <<>>  OBVIOUS
<1> HIDE DEF l
<1> QED  BY <1>1, <1>4, <1>7, <1>8, <1>9, PutInv

(* What publish() writes into an existing listing.                         *)
LEMMA OverwrittenFine ==
    ASSUME RegistryInv, NEW s \in Submissions, Certify(s), mem # NoListing,
           faults' \in 0..MaxFaults, UNCHANGED cleared
    PROVE  /\ Fine(Overwritten(mem), subs')
           /\ Overwritten(mem).records = mem.records
           /\ Overwritten(mem).content = Len(subs) + 1
           /\ Overwritten(mem).content \notin DOMAIN subs
<1>1. /\ DOMAIN subs' = 1..(Len(subs) + 1) /\ Len(subs) + 1 \in Contents
      /\ DOMAIN subs = 1..Len(subs)
      /\ \A x : Fine(x, subs) => Fine(x, subs')
  BY CertifyCounted
<1>2. Len(subs) + 1 \in DOMAIN subs' /\ Len(subs) + 1 \notin DOMAIN subs
  BY <1>1 DEF RegistryInv, Counted
<1>3. Fine(mem, subs')  BY <1>1 DEF RegistryInv, Rows
<1>4. Overwritten(mem) \in Listings
  BY <1>1, <1>3, EffectiveStatusKnown DEF Overwritten, Fine, Listings, AttStatuses
<1>5. /\ Overwritten(mem).records = mem.records
      /\ Overwritten(mem).content = Len(subs) + 1
  BY <1>3 DEF Overwritten, Fine, Listings
<1> QED  BY <1>2, <1>3, <1>4, <1>5 DEF Fine

LEMMA SubmitUpdateInv ==
    ASSUME RegistryInv, NEW s \in Submissions, SubmitUpdate(s)
    PROVE  RegistryInv'
<1> DEFINE l == [Overwritten(mem) EXCEPT !.kind = IF s.kind = "author" THEN @ ELSE s.kind]
<1>1. PICK ok \in BOOLEAN : Put(l, ok)  BY DEF SubmitUpdate
<1>2. mem # NoListing /\ Certify(s) /\ UNCHANGED cleared  BY DEF SubmitUpdate
<1>3. faults' \in 0..MaxFaults  BY <1>1, StoringBounded DEF Put
<1>4. /\ Counted' /\ UNCHANGED revoked /\ \A x : Fine(x, subs) => Fine(x, subs')
  BY <1>2, <1>3, CertifyCounted
<1>5. /\ Fine(Overwritten(mem), subs')
      /\ Overwritten(mem).records = mem.records
      /\ Overwritten(mem).content \notin DOMAIN subs
  BY <1>2, <1>3, OverwrittenFine
<1>6. /\ l.records = mem.records /\ l.content \notin DOMAIN subs /\ Fine(l, subs')
  BY <1>5 DEF Fine, Listings, Submissions
<1>7. db # NoListing =>
         Fine(db, subs') /\ l.records = db.records /\ l.content # db.content
  BY <1>2, <1>4, <1>6 DEF RegistryInv, Rows, ReleasesAgree, Fine
<1>8. db = NoListing => l.records = <<>>
  BY <1>2, <1>6 DEF RegistryInv, ReleasesAgree
<1> HIDE DEF l
<1> QED  BY <1>1, <1>4, <1>6, <1>7, <1>8, PutInv

LEMMA SubmitRefusedInv ==
    ASSUME RegistryInv, NEW s \in Submissions, SubmitRefused(s)
    PROVE  RegistryInv'
<1>1. /\ mem # NoListing /\ Certify(s) /\ UNCHANGED <<cleared, db, faults>>
      /\ mem' = Overwritten(mem)
  BY DEF SubmitRefused
<1>2. faults' \in 0..MaxFaults  BY <1>1 DEF RegistryInv, Counted
<1>3. /\ Counted' /\ UNCHANGED revoked /\ \A x : Fine(x, subs) => Fine(x, subs')
  BY <1>1, <1>2, CertifyCounted
<1>4. /\ Fine(mem', subs') /\ mem'.records = mem.records /\ mem'.content \notin DOMAIN subs
  BY <1>1, <1>2, OverwrittenFine
<1>5. Rows'  BY <1>1, <1>3, <1>4 DEF Rows, RegistryInv
<1>6. ReleasesAgree'
  BY <1>1, <1>4, InListings DEF ReleasesAgree, RegistryInv, Fine
<1>7. db # NoListing => db.content \in DOMAIN subs  BY DEF RegistryInv, Rows, Fine
<1>8. Told'  BY <1>1, <1>4, <1>7 DEF Told
<1> QED  BY <1>3, <1>5, <1>6, <1>8 DEF RegistryInv

(* The stored row with a candidate appended.                               *)
Staged(n) ==
    [db EXCEPT !.records = Append(@, [content |-> n, base |-> Fingerprint(db),
                                      status |-> "pending_review"])]

LEMMA StagedFine ==
    ASSUME RegistryInv, NEW s \in Submissions, Certify(s), CanStage(s),
           faults' \in 0..MaxFaults, UNCHANGED cleared
    PROVE  /\ Fine(Staged(Len(subs) + 1), subs') /\ ~Staged(Len(subs) + 1).shared
           /\ Staged(Len(subs) + 1).status = db.status
           /\ Staged(Len(subs) + 1).content = db.content
           /\ Staged(Len(subs) + 1).att = db.att
           /\ db.records \in Seq(Releases)
           /\ Len(Staged(Len(subs) + 1).records) = Len(db.records) + 1
           /\ \A i \in DOMAIN db.records : Staged(Len(subs) + 1).records[i] = db.records[i]
<1> DEFINE rel == [content |-> Len(subs) + 1, base |-> Fingerprint(db),
                   status |-> "pending_review"]
           new == Append(db.records, rel)
<1>1. /\ DOMAIN subs' = 1..(Len(subs) + 1) /\ Len(subs) + 1 \in Contents
      /\ DOMAIN subs = 1..Len(subs) /\ Len(subs) \in Nat
      /\ \A k \in DOMAIN subs : subs'[k] = subs[k]
      /\ subs'[Len(subs) + 1] = s
      /\ \A x : Fine(x, subs) => Fine(x, subs')
  BY CertifyCounted DEF RegistryInv, Counted
<1>2. db # NoListing /\ Fine(db, subs) /\ Fine(db, subs') /\ ~db.shared
  BY <1>1 DEF CanStage, RegistryInv, Rows
<1>3. db \in Listings /\ db.records \in Seq(Releases)  BY <1>2 DEF Fine, Listings
<1>4. Fingerprint(db) \in Fingerprints /\ Fingerprint(db).content = db.content
  BY <1>3 DEF Fingerprint, Fingerprints, Listings
<1>5. rel \in Releases  BY <1>1, <1>4 DEF Releases
<1>6. Forward(rel, subs')
  <2>1. db.content \in DOMAIN subs  BY <1>2 DEF Fine
  <2>2. subs[db.content].author = s.author /\ s.ver > subs[db.content].ver
    BY DEF CanStage
  <2>3. subs[db.content] \in Submissions  BY <2>1 DEF RegistryInv, Counted
  <2> QED  BY <1>1, <1>4, <2>1, <2>2, <2>3 DEF Forward, Submissions
<1>7. /\ new \in Seq(Releases) /\ Len(new) = Len(db.records) + 1
      /\ DOMAIN new = 1..(Len(db.records) + 1) /\ DOMAIN db.records = 1..Len(db.records)
      /\ \A i \in DOMAIN db.records : new[i] = db.records[i]
      /\ new[Len(db.records) + 1] = rel
  BY <1>3, <1>5
<1>8. \A i \in DOMAIN new : Forward(new[i], subs')
  <2> SUFFICES ASSUME NEW i \in DOMAIN new PROVE Forward(new[i], subs')
    OBVIOUS
  <2>1. CASE i \in DOMAIN db.records  BY <1>2, <1>7, <2>1 DEF Fine
  <2>2. CASE i = Len(db.records) + 1  BY <1>6, <1>7, <2>2
  <2> QED  BY <1>3, <1>7, <2>1, <2>2
<1> HIDE DEF rel
<1>9. /\ Staged(Len(subs) + 1) = [db EXCEPT !.records = new]
  BY DEF Staged, rel
<1> HIDE DEF new
<1>10. /\ [db EXCEPT !.records = new] \in Listings
       /\ [db EXCEPT !.records = new].records = new
       /\ [db EXCEPT !.records = new].content = db.content
       /\ [db EXCEPT !.records = new].status = db.status
       /\ [db EXCEPT !.records = new].att = db.att
       /\ [db EXCEPT !.records = new].shared = db.shared
  BY <1>3, <1>7 DEF Listings
<1>11. Fine([db EXCEPT !.records = new], subs')
  BY <1>2, <1>8, <1>10 DEF Fine
<1> QED  BY <1>2, <1>3, <1>7, <1>9, <1>10, <1>11

LEMMA SubmitReleaseInv ==
    ASSUME RegistryInv, NEW s \in Submissions, SubmitRelease(s)
    PROVE  RegistryInv'
<1>1. Certify(s) /\ UNCHANGED cleared  BY DEF SubmitRelease
<1>2. CASE CanStage(s)
  <2>1. PICK ok \in BOOLEAN : Save(Staged(Len(subs) + 1), ok)
    BY <1>2 DEF SubmitRelease, Staged
  <2>2. faults' \in 0..MaxFaults  BY <2>1, StoringBounded DEF Save
  <2>3. Counted' /\ UNCHANGED revoked /\ \A x : Fine(x, subs) => Fine(x, subs')
    BY <1>1, <2>2, CertifyCounted
  <2>4. Fine(Staged(Len(subs) + 1), subs') /\ ~Staged(Len(subs) + 1).shared
    BY <1>1, <1>2, <2>2, StagedFine
  <2>5. (mem # NoListing => Fine(mem, subs')) /\ (db # NoListing => Fine(db, subs'))
    BY <2>3 DEF RegistryInv, Rows
  <2> QED  BY <2>1, <2>3, <2>4, <2>5, SaveInv
<1>3. CASE ~CanStage(s)
  <2>1. UNCHANGED <<mem, db, faults>>  BY <1>3 DEF SubmitRelease
  <2>2. faults' \in 0..MaxFaults  BY <2>1 DEF RegistryInv, Counted
  <2>3. Counted' /\ UNCHANGED revoked /\ \A x : Fine(x, subs) => Fine(x, subs')
    BY <1>1, <2>2, CertifyCounted
  <2>4. Rows'  BY <2>1, <2>3 DEF RegistryInv, Rows
  <2>5. ReleasesAgree'  BY <2>1 DEF RegistryInv, ReleasesAgree
  <2>6. Told'  BY <2>1, <2>3 DEF RegistryInv, Told, AttStatus
  <2> QED  BY <2>3, <2>4, <2>5, <2>6 DEF RegistryInv
<1> QED  BY <1>2, <1>3

LEMMA ModerateInv ==
    ASSUME RegistryInv, NEW a \in DOMAIN StatusAfter, Moderate(a)
    PROVE  RegistryInv'
<1> DEFINE l == [mem EXCEPT !.status = StatusAfter[a]]
<1>1. PICK ok \in BOOLEAN : Put(l, ok)  BY DEF Moderate
<1>2. mem # NoListing /\ UNCHANGED <<subs, issued, revoked>>  BY DEF Moderate
<1>3. Fine(mem, subs)  BY <1>2 DEF RegistryInv, Rows
<1>4. StatusAfter[a] \in Statuses  BY DEF StatusAfter, Statuses
<1>5. /\ Fine(l, subs') /\ l.records = mem.records /\ l.content = mem.content
      /\ AttStatus(l) = AttStatus(mem)
  BY <1>2, <1>3, <1>4, FineStatus DEF Fine, Listings, AttStatus
<1>6. faults' \in 0..MaxFaults  BY <1>1, StoringBounded DEF Put
<1>7. cleared' \subseteq DOMAIN subs
  BY <1>3 DEF Moderate, Fine, RegistryInv, Counted
<1>8. Counted'  BY <1>2, <1>6, <1>7 DEF RegistryInv, Counted
<1>9. db # NoListing => /\ Fine(db, subs')
                        /\ l.records = db.records
                        /\ l.content = db.content /\ db.att = "revoked"
                              => AttStatus(l) = "revoked"
  BY <1>2, <1>5 DEF RegistryInv, Rows, ReleasesAgree, Told
<1>10. db = NoListing => l.records = <<>>
  BY <1>2, <1>5 DEF RegistryInv, ReleasesAgree
<1> HIDE DEF l
<1> QED  BY <1>1, <1>2, <1>5, <1>8, <1>9, <1>10, PutInv

(* The row after a decision on a candidate.                                *)
LEMMA DecidedFine ==
    ASSUME RegistryInv, db # NoListing, NEW i \in Pending(db),
           NEW d \in DOMAIN StatusOfDecision
    PROVE  /\ Fine(Decided(i, d), subs) /\ ~Decided(i, d).shared
           /\ d # "approve" => /\ Decided(i, d).content = db.content
                               /\ Decided(i, d).status = db.status
                               /\ Decided(i, d).att = db.att
           /\ d = "approve" => /\ Decided(i, d).content = db.records[i].content
                               /\ Decided(i, d).status = db.records[i].base.status
           /\ Len(Decided(i, d).records) = Len(db.records)
           /\ Decided(i, d).records[i].status = StatusOfDecision[d]
           /\ \A j \in DOMAIN db.records \ {i} : Decided(i, d).records[j] = db.records[j]
<1> DEFINE r == [db.records[i] EXCEPT !.status = StatusOfDecision[d]]
           recs == [db.records EXCEPT ![i] = r]
           row == [db EXCEPT !.records = recs]
<1>1. Fine(db, subs) /\ db \in Listings /\ ~db.shared
  BY DEF RegistryInv, Rows, Fine
<1>2. /\ db.records \in Seq(Releases) /\ i \in DOMAIN db.records
      /\ db.records[i] \in Releases
  BY <1>1 DEF Listings, Pending
<1>3. StatusOfDecision[d] \in {"approved", "rejected", "changes_requested", "withdrawn"}
  BY DEF StatusOfDecision
<1>4. /\ r \in Releases /\ r.content = db.records[i].content /\ r.base = db.records[i].base
      /\ r.status = StatusOfDecision[d]
  BY <1>2, <1>3 DEF Releases
<1> HIDE DEF r
<1>5. /\ recs \in Seq(Releases) /\ DOMAIN recs = DOMAIN db.records
      /\ Len(recs) = Len(db.records) /\ recs[i] = r
      /\ \A j \in DOMAIN db.records \ {i} : recs[j] = db.records[j]
  BY <1>2, <1>4
<1>6. \A j \in DOMAIN recs : Forward(recs[j], subs)
  BY <1>1, <1>4, <1>5 DEF Fine, Forward
<1>7. row = [db EXCEPT !.records[i].status = StatusOfDecision[d]]
  BY <1>1, <1>2 DEF r, Listings
<1> HIDE DEF recs
<1>8. /\ row \in Listings /\ row.records = recs /\ row.content = db.content
      /\ row.status = db.status /\ row.att = db.att /\ row.shared = db.shared
  BY <1>1, <1>5 DEF Listings
<1> HIDE DEF row
<1>9. CASE d # "approve"
  <2>1. Decided(i, d) = row  BY <1>7, <1>9 DEF Decided
  <2>2. Fine(row, subs)  BY <1>1, <1>6, <1>8 DEF Fine
  <2> QED  BY <1>1, <1>4, <1>5, <1>8, <1>9, <2>1, <2>2
<1>10. CASE d = "approve"
  <2> DEFINE c == db.records[i].content
             b == db.records[i].base
             merged == [row EXCEPT !.content = c, !.att = "valid", !.status = b.status,
                                   !.kind = b.kind]
  <2>1. Decided(i, d) = merged  BY <1>7, <1>10 DEF Decided
  <2>2. /\ c \in Contents /\ c \in DOMAIN subs
        /\ b.status \in Statuses /\ b.kind \in Kinds
    BY <1>1, <1>2 DEF Releases, Fingerprints, Fine, Forward
  <2> HIDE DEF c, b
  <2>3. /\ merged \in Listings /\ merged.records = recs /\ merged.content = c
        /\ merged.status = b.status /\ merged.shared = row.shared
    BY <1>8, <2>2 DEF Listings, AttStatuses
  <2> HIDE DEF merged
  <2>4. Fine(merged, subs)  BY <1>6, <2>2, <2>3 DEF Fine
  <2>5. c = db.records[i].content /\ b = db.records[i].base  BY DEF c, b
  <2> QED  BY <1>1, <1>4, <1>5, <1>8, <1>10, <2>1, <2>3, <2>4, <2>5
<1> QED  BY <1>9, <1>10

LEMMA DecideInv ==
    ASSUME RegistryInv, NEW i, NEW d \in DOMAIN StatusOfDecision, Decide(i, d)
    PROVE  RegistryInv'
<1>1. PICK ok \in BOOLEAN :
         /\ Save(Decided(i, d), ok)
         /\ cleared' = IF ok /\ d = "approve" THEN cleared \cup {db.records[i].content}
                                              ELSE cleared
  BY DEF Decide
<1>2. /\ mem # NoListing /\ db # NoListing /\ i \in Pending(db)
      /\ UNCHANGED <<subs, issued, revoked>>
  BY DEF Decide
<1>3. Fine(Decided(i, d), subs) /\ ~Decided(i, d).shared
  BY <1>2, DecidedFine
<1>4. db.records[i].content \in DOMAIN subs
  BY <1>2 DEF Pending, RegistryInv, Rows, Fine, Forward
<1>5. faults' \in 0..MaxFaults  BY <1>1, StoringBounded DEF Save
<1>6. Counted'  BY <1>1, <1>2, <1>4, <1>5 DEF RegistryInv, Counted
<1>7. (mem # NoListing => Fine(mem, subs')) /\ (db # NoListing => Fine(db, subs'))
  BY <1>2 DEF RegistryInv, Rows
<1> QED  BY <1>1, <1>2, <1>3, <1>6, <1>7, SaveInv

LEMMA RevokeInv ==
    ASSUME RegistryInv, NEW c, Revoke(c)
    PROVE  RegistryInv'
<1>1. /\ UNCHANGED <<subs, mem, db, issued, faults, cleared>>
      /\ revoked' = revoked \cup {c} /\ c \in issued
  BY DEF Revoke
<1>2. Counted'  BY <1>1 DEF RegistryInv, Counted
<1>3. Rows' /\ ReleasesAgree'  BY <1>1 DEF RegistryInv, Rows, ReleasesAgree
<1>4. Told'  BY <1>1 DEF RegistryInv, Told, AttStatus
<1> QED  BY <1>2, <1>3, <1>4 DEF RegistryInv

LEMMA SaveSetupInv ==
    ASSUME RegistryInv, SaveSetup
    PROVE  RegistryInv'
<1>1. /\ mem # NoListing /\ db' = Stored(mem)
      /\ UNCHANGED <<subs, mem, issued, revoked, faults, cleared>>
  BY DEF SaveSetup
<1>2. Fine(mem, subs)  BY <1>1 DEF RegistryInv, Rows
<1>3. /\ Fine(db', subs) /\ ~db'.shared /\ db'.records = mem.records
      /\ db'.content = mem.content /\ db'.att = AttStatus(mem)
  BY <1>1, <1>2, FineStored
<1>4. Counted'  BY <1>1 DEF RegistryInv, Counted
<1>5. Rows'  BY <1>1, <1>3 DEF RegistryInv, Rows
<1>6. ReleasesAgree'
  BY <1>1, <1>3, InListings DEF ReleasesAgree, Fine
<1>7. Told'  BY <1>1, <1>3 DEF Told, AttStatus
<1> QED  BY <1>4, <1>5, <1>6, <1>7 DEF RegistryInv

LEMMA RestartInv ==
    ASSUME RegistryInv, Restart
    PROVE  RegistryInv'
<1>1. mem' = db /\ issued' = {} /\ revoked' = {} /\ UNCHANGED <<subs, db, faults, cleared>>
  BY DEF Restart
<1>2. Counted'  BY <1>1 DEF RegistryInv, Counted
<1>3. Rows' /\ ReleasesAgree'  BY <1>1 DEF RegistryInv, Rows, ReleasesAgree
<1>4. Told'  BY <1>1 DEF RegistryInv, Rows, Told, AttStatus
<1> QED  BY <1>2, <1>3, <1>4 DEF RegistryInv

LEMMA RegistryStepInv == RegistryInv /\ [Next]_vars => RegistryInv'
<1> SUFFICES ASSUME RegistryInv, [Next]_vars PROVE RegistryInv'
  OBVIOUS
<1>1. ASSUME NEW s \in Submissions, Submit(s) PROVE RegistryInv'
  BY <1>1, SubmitNewInv, SubmitUpdateInv, SubmitRefusedInv, SubmitReleaseInv DEF Submit
<1>2. ASSUME NEW a \in DOMAIN StatusAfter, Moderate(a) PROVE RegistryInv'
  BY <1>2, ModerateInv
<1>3. ASSUME NEW i, NEW d \in DOMAIN StatusOfDecision, Decide(i, d) PROVE RegistryInv'
  BY <1>3, DecideInv
<1>4. ASSUME NEW c, Revoke(c) PROVE RegistryInv'  BY <1>4, RevokeInv
<1>5. CASE SaveSetup  BY <1>5, SaveSetupInv
<1>6. CASE Restart  BY <1>6, RestartInv
<1>7. CASE UNCHANGED vars
  BY <1>7 DEF vars, RegistryInv, Counted, Rows, ReleasesAgree, Told, AttStatus
<1> QED  BY <1>1, <1>2, <1>3, <1>4, <1>5, <1>6, <1>7 DEF Next

LEMMA RegistryAlways == Spec => []RegistryInv
<1>1. Init => RegistryInv  BY RegistryInitInv
<1>2. RegistryInv /\ [Next]_vars => RegistryInv'  BY RegistryStepInv
<1> QED  BY <1>1, <1>2, PTL DEF Spec

-----------------------------------------------------------------------------
(* Type correctness: every reachable state of the registry is of its type, *)
(* whatever was submitted, refused, staged, lost or revoked; the contents  *)
(* named anywhere are submissions that were made (publish, stage, decide,  *)
(* _load_from_backend).                                                    *)
THEOREM RegistryTypeCorrect == Spec => []TypeOK
<1>1. RegistryInv => TypeOK
  BY DEF RegistryInv, Counted, Rows, Fine, TypeOK
<1> QED  BY <1>1, RegistryAlways, PTL

(* The release candidates of the listing object and of the stored row are  *)
(* the same in every reachable state, for any number of submissions and    *)
(* failing stores ("Persist before exposing changes", save).               *)
THEOREM ReleasesAlwaysAgree == Spec => []ReleasesAgree
<1>1. RegistryInv => ReleasesAgree  BY DEF RegistryInv
<1> QED  BY <1>1, RegistryAlways, PTL

-----------------------------------------------------------------------------
(* The registry implements the catalogue *)

LEMMA PageOf ==
    ASSUME NEW l, l = NoListing \/ Fine(l, subs), RegistryInv
    PROVE  Page(l) \in Contents \cup {0}
  BY DEF Page, Fine, Listings

LEMMA PageStored ==
    ASSUME NEW l, Fine(l, subs) \/ Fine(l, subs')
    PROVE  Stored(l) # NoListing /\ Page(Stored(l)) = Page(l)
<1>1. /\ Fine(Stored(l), subs) \/ Fine(Stored(l), subs')
      /\ ~Stored(l).shared /\ Stored(l).content = l.content
      /\ Stored(l).att = AttStatus(l) /\ Stored(l).status = l.status
  BY FineStored
<1>2. l # NoListing /\ Stored(l) # NoListing  BY <1>1, InListings DEF Fine
<1> QED  BY <1>1, <1>2 DEF Page, AttStatus

(* What a step does to the page, one shape of step at a time.              *)
Hides ==
    /\ Page(mem)' = 0 /\ Page(db)' \in {Page(db), 0} /\ cleared' = cleared

Shows(c) ==
    /\ c \in Contents
    /\ cleared' = cleared \cup {c}
    /\ Page(mem)' \in {c, 0}
    /\ Page(db)' \in {Page(db), Page(mem)'}

Reloads == Page(mem)' = Page(db) /\ Page(db)' = Page(db) /\ cleared' = cleared
Keeps == Page(mem)' = Page(mem) /\ Page(db)' = Page(mem) /\ cleared' = cleared
Stays == Page(mem)' = Page(mem) /\ Page(db)' = Page(db) /\ cleared' = cleared

Turns == Hides \/ (\E c \in Contents : Shows(c)) \/ Reloads \/ Keeps \/ Stays

LEMMA TurnsAreCatalogSteps == Turns => [Pages!Next]_(Pages!vars)
<1> SUFFICES ASSUME Turns PROVE [Pages!Next]_(Pages!vars)
  OBVIOUS
<1>1. CASE Hides  BY <1>1 DEF Hides, Pages!Next, Pages!TakeDown
<1>2. ASSUME NEW c \in Contents, Shows(c) PROVE Pages!Next
  BY <1>2 DEF Shows, Pages!Next, Pages!LetThrough
<1>3. CASE Reloads  BY <1>3 DEF Reloads, Pages!Next, Pages!Reload
<1>4. CASE Keeps  BY <1>4 DEF Keeps, Pages!Next, Pages!Keep
<1>5. CASE Stays  BY <1>5 DEF Stays, Pages!vars
<1> QED  BY <1>1, <1>2, <1>3, <1>4, <1>5 DEF Turns

LEMMA PutHides ==
    ASSUME RegistryInv, NEW l, NEW ok \in BOOLEAN, Put(l, ok), Fine(l, subs) \/ Fine(l, subs'),
           l.status # "published", UNCHANGED <<revoked, cleared>>
    PROVE  Hides
<1>1. Page(l) = 0 /\ Page(Stored(l)) = 0  BY PageStored DEF Page
<1>2. mem' = l /\ db' = (IF ok THEN Stored(l) ELSE db)  BY DEF Put
<1> QED  BY <1>1, <1>2 DEF Hides, Page, AttStatus

LEMMA SubmitTurns ==
    ASSUME RequireModeration, RegistryInv, NEW s \in Submissions, Submit(s)
    PROVE  Turns
<1>1. EffectiveStatus # "published"  BY DEF EffectiveStatus
<1>2. CASE SubmitNew(s)
  <2> DEFINE l == [status |-> EffectiveStatus, content |-> Len(subs) + 1, kind |-> s.kind,
                   att |-> "valid", shared |-> TRUE, records |-> <<>>]
  <2>1. PICK ok \in BOOLEAN : Put(l, ok)  BY <1>2 DEF SubmitNew
  <2>2. mem' = l /\ db' = (IF ok THEN Stored(l) ELSE db)  BY <2>1 DEF Put
  <2>3. UNCHANGED cleared  BY <1>2 DEF SubmitNew
  <2>4. Stored(l).status = EffectiveStatus  BY DEF Stored
  <2>5. Page(mem)' = 0  BY <1>1, <2>2 DEF Page
  <2>6. Page(db)' \in {Page(db), 0}
    <3>1. CASE ok  BY <1>1, <2>2, <2>4, <3>1 DEF Page
    <3>2. CASE ~ok
      <4>1. db' = db /\ revoked' = revoked  BY <1>2, <2>2, <3>2 DEF SubmitNew, Certify
      <4> QED  BY <4>1 DEF Page, AttStatus
    <3> QED  BY <3>1, <3>2
  <2> QED  BY <2>3, <2>5, <2>6 DEF Hides, Turns
<1>3. CASE SubmitUpdate(s)
  <2> DEFINE l == [Overwritten(mem) EXCEPT !.kind = IF s.kind = "author" THEN @ ELSE s.kind]
  <2>1. PICK ok \in BOOLEAN : Put(l, ok)  BY <1>3 DEF SubmitUpdate
  <2>2. mem # NoListing /\ Certify(s) /\ UNCHANGED cleared  BY <1>3 DEF SubmitUpdate
  <2>3. faults' \in 0..MaxFaults  BY <2>1, StoringBounded DEF Put
  <2>4. Fine(Overwritten(mem), subs')  BY <2>2, <2>3, OverwrittenFine
  <2>5. Fine(mem, subs)  BY <2>2 DEF RegistryInv, Rows
  <2>6. Overwritten(mem).status = EffectiveStatus
    BY <2>5 DEF Overwritten, Fine, Listings
  <2>7. Fine(l, subs') /\ l.status # "published"
    BY <1>1, <2>4, <2>6 DEF Fine, Listings, Submissions
  <2> HIDE DEF l
  <2>8. UNCHANGED revoked  BY <2>2 DEF Certify
  <2> QED  BY <2>1, <2>2, <2>7, <2>8, PutHides DEF Turns
<1>4. CASE SubmitRefused(s)
  <2>1. /\ mem # NoListing /\ UNCHANGED <<db, revoked, cleared>>
        /\ mem' = Overwritten(mem)
    BY <1>4 DEF SubmitRefused, Certify
  <2>2. Fine(mem, subs)  BY <2>1 DEF RegistryInv, Rows
  <2>3. mem'.status = EffectiveStatus
    BY <2>1, <2>2 DEF Overwritten, Fine, Listings
  <2> QED  BY <1>1, <2>1, <2>3 DEF Turns, Hides, Page, AttStatus
<1>5. CASE SubmitRelease(s)
  <2>1. UNCHANGED <<revoked, cleared>> /\ Certify(s)  BY <1>5 DEF SubmitRelease, Certify
  <2>2. CASE CanStage(s)
    <3>1. PICK ok \in BOOLEAN : Save(Staged(Len(subs) + 1), ok)
      BY <1>5, <2>2 DEF SubmitRelease, Staged
    <3>2. faults' \in 0..MaxFaults  BY <3>1, StoringBounded DEF Save
    <3>3. /\ Fine(Staged(Len(subs) + 1), subs') /\ ~Staged(Len(subs) + 1).shared
          /\ Staged(Len(subs) + 1).status = db.status
          /\ Staged(Len(subs) + 1).content = db.content
          /\ Staged(Len(subs) + 1).att = db.att
      BY <2>1, <2>2, <3>2, StagedFine
    <3>4. Staged(Len(subs) + 1) # NoListing /\ db # NoListing /\ ~db.shared
      BY <2>2, <3>3, InListings DEF Fine, CanStage, RegistryInv, Rows
    <3>5. CASE ok
      <4>1. mem' = Staged(Len(subs) + 1) /\ db' = Staged(Len(subs) + 1)
        BY <3>1, <3>5 DEF Save
      <4> QED  BY <2>1, <3>3, <3>4, <4>1 DEF Turns, Reloads, Page, AttStatus
    <3>6. CASE ~ok
      <4>1. UNCHANGED <<mem, db>>  BY <3>1, <3>6 DEF Save
      <4> QED  BY <2>1, <4>1 DEF Turns, Stays, Page, AttStatus
    <3> QED  BY <3>5, <3>6
  <2>3. CASE ~CanStage(s)
    <3>1. UNCHANGED <<mem, db>>  BY <1>5, <2>3 DEF SubmitRelease
    <3> QED  BY <2>1, <3>1 DEF Turns, Stays, Page, AttStatus
  <2> QED  BY <2>2, <2>3
<1> QED  BY <1>2, <1>3, <1>4, <1>5 DEF Submit

LEMMA ModerateTurns ==
    ASSUME RegistryInv, NEW a \in DOMAIN StatusAfter, Moderate(a)
    PROVE  Turns
<1> DEFINE l == [mem EXCEPT !.status = StatusAfter[a]]
<1>1. PICK ok \in BOOLEAN : Put(l, ok)  BY DEF Moderate
<1>2. mem # NoListing /\ UNCHANGED revoked  BY DEF Moderate
<1>3. Fine(mem, subs)  BY <1>2 DEF RegistryInv, Rows
<1>4. StatusAfter[a] \in Statuses  BY DEF StatusAfter, Statuses
<1>5. /\ Fine(l, subs) /\ l.status = StatusAfter[a] /\ l.content = mem.content
  BY <1>3, <1>4, FineStatus DEF Fine, Listings
<1> HIDE DEF l
<1>6. mem' = l /\ db' = (IF ok THEN Stored(l) ELSE db)  BY <1>1 DEF Put
<1>7. CASE StatusAfter[a] = "published"
  <2>1. mem.content \in Contents  BY <1>3 DEF Fine, Listings
  <2>2. cleared' = cleared \cup {mem.content}  BY <1>7 DEF Moderate
  <2>3. Page(l) \in {mem.content, 0} /\ Page(Stored(l)) = Page(l)
    BY <1>5, PageStored DEF Page
  <2>4. Page(mem)' = Page(l)  BY <1>2, <1>6 DEF Page, AttStatus
  <2>5. Page(db)' = IF ok THEN Page(Stored(l)) ELSE Page(db)
    BY <1>2, <1>6 DEF Page, AttStatus
  <2>6. Shows(mem.content)  BY <2>1, <2>2, <2>3, <2>4, <2>5 DEF Shows
  <2> QED  BY <2>1, <2>6 DEF Turns
<1>8. CASE StatusAfter[a] # "published"
  <2>1. UNCHANGED cleared  BY <1>8 DEF Moderate
  <2> QED  BY <1>1, <1>2, <1>5, <1>8, <2>1, PutHides DEF Turns
<1> QED  BY <1>7, <1>8

LEMMA DecideTurns ==
    ASSUME RegistryInv, NEW i, NEW d \in DOMAIN StatusOfDecision, Decide(i, d)
    PROVE  Turns
<1>1. PICK ok \in BOOLEAN :
         /\ Save(Decided(i, d), ok)
         /\ cleared' = IF ok /\ d = "approve" THEN cleared \cup {db.records[i].content}
                                              ELSE cleared
  BY DEF Decide
<1>2. db # NoListing /\ i \in Pending(db) /\ UNCHANGED revoked  BY DEF Decide
<1>3. /\ Fine(Decided(i, d), subs) /\ ~Decided(i, d).shared
      /\ d # "approve" => /\ Decided(i, d).content = db.content
                          /\ Decided(i, d).status = db.status
                          /\ Decided(i, d).att = db.att
      /\ d = "approve" => Decided(i, d).content = db.records[i].content
  BY <1>2, DecidedFine
<1>4. Decided(i, d) # NoListing /\ ~db.shared
  BY <1>2, <1>3, InListings DEF Fine, RegistryInv, Rows
<1>5. CASE ~ok
  <2>1. UNCHANGED <<mem, db, cleared>>  BY <1>1, <1>5 DEF Save
  <2> QED  BY <1>2, <2>1 DEF Turns, Stays, Page, AttStatus
<1>6. CASE ok /\ d # "approve"
  <2>1. mem' = Decided(i, d) /\ db' = Decided(i, d) /\ cleared' = cleared
    BY <1>1, <1>6 DEF Save
  <2> QED  BY <1>2, <1>3, <1>4, <1>6, <2>1 DEF Turns, Reloads, Page, AttStatus
<1>7. CASE ok /\ d = "approve"
  <2> DEFINE c == db.records[i].content
  <2>1. /\ mem' = Decided(i, d) /\ db' = Decided(i, d) /\ cleared' = cleared \cup {c}
    BY <1>1, <1>7 DEF Save
  <2>2. Decided(i, d).content = c /\ c \in Contents
    BY <1>3, <1>7 DEF Fine, Listings
  <2> HIDE DEF c
  <2>3. Shows(c)  BY <2>1, <2>2 DEF Shows, Page
  <2> QED  BY <2>2, <2>3 DEF Turns
<1> QED  BY <1>5, <1>6, <1>7

LEMMA OtherTurns ==
    ASSUME RegistryInv, (\E c \in Contents : Revoke(c)) \/ SaveSetup \/ Restart
    PROVE  Turns
<1>1. ASSUME NEW c \in Contents, Revoke(c) PROVE Turns
  <2>1. UNCHANGED <<mem, db, cleared>> /\ revoked' = revoked \cup {c}
    BY <1>1 DEF Revoke
  <2>2. Page(db)' = Page(db)  BY <2>1 DEF RegistryInv, Rows, Page, AttStatus
  <2>3. Page(mem)' \in {Page(mem), 0}  BY <2>1 DEF Page, AttStatus
  <2> QED  BY <2>1, <2>2, <2>3 DEF Turns, Hides, Stays
<1>2. CASE SaveSetup
  <2>1. mem # NoListing /\ db' = Stored(mem) /\ UNCHANGED <<mem, revoked, cleared>>
    BY <1>2 DEF SaveSetup
  <2>2. Page(Stored(mem)) = Page(mem)  BY <2>1, PageStored DEF RegistryInv, Rows
  <2>3. Page(db)' = Page(Stored(mem)) /\ Page(mem)' = Page(mem)
    BY <2>1 DEF Page, AttStatus
  <2> QED  BY <2>1, <2>2, <2>3 DEF Turns, Keeps
<1>3. CASE Restart
  <2>1. mem' = db /\ db' = db /\ cleared' = cleared  BY <1>3 DEF Restart
  <2>2. Page(db)' = Page(db)  BY <2>1 DEF RegistryInv, Rows, Page, AttStatus
  <2>3. Page(mem)' = Page(db)'  BY <2>1 DEF Page, AttStatus
  <2> QED  BY <2>1, <2>2, <2>3 DEF Turns, Reloads
<1> QED  BY <1>1, <1>2, <1>3

LEMMA StepTurns ==
    ASSUME RequireModeration, RegistryInv, [Next]_vars
    PROVE  Turns
<1>1. CASE UNCHANGED vars
  BY <1>1 DEF vars, Turns, Stays, Page, AttStatus
<1>2. CASE Next
  BY <1>2, SubmitTurns, ModerateTurns, DecideTurns, OtherTurns DEF Next
<1> QED  BY <1>1, <1>2

(* A moderated registry implements the catalogue, for any number of        *)
(* submissions, publishers and failing stores: every step of it shows a    *)
(* page a moderator let through, takes the page down, or copies it between *)
(* memory and storage (publish, moderate, stage, decide, revoke, reload).  *)
THEOREM RegistryImplementsCatalog == RequireModeration => (Spec => ImplementsCatalog)
<1> SUFFICES ASSUME RequireModeration PROVE Spec => ImplementsCatalog
  OBVIOUS
<1>1. Init => Pages!Init  BY DEF Init, Pages!Init, Page
<1>2. RegistryInv /\ [Next]_vars => [Pages!Next]_(Pages!vars)
  BY StepTurns, TurnsAreCatalogSteps
<1> QED  BY <1>1, <1>2, RegistryAlways, PTL DEF Spec, ImplementsCatalog, Pages!Spec

-----------------------------------------------------------------------------
(* What a step may never do *)

(* Everything but a staging and a decision leaves the candidates alone,    *)
(* and the row's attestation as revoked as it was.                         *)
Quiet ==
    db # NoListing /\ db' # NoListing =>
        /\ db'.records = db.records
        /\ db'.content = db.content /\ db.att = "revoked" => db'.att = "revoked"

LEMMA NewQuiet ==
    ASSUME RegistryInv, NEW s \in Submissions, SubmitNew(s)
    PROVE  Quiet
<1> DEFINE l == [status |-> EffectiveStatus, content |-> Len(subs) + 1, kind |-> s.kind,
                 att |-> "valid", shared |-> TRUE, records |-> <<>>]
<1>1. PICK ok \in BOOLEAN : Put(l, ok)  BY DEF SubmitNew
<1>2. db' = (IF ok THEN Stored(l) ELSE db)  BY <1>1 DEF Put
<1>3. Stored(l).records = <<>> /\ Stored(l).content = Len(subs) + 1
  BY DEF Stored
<1>4. db # NoListing => db.records = <<>>  BY DEF SubmitNew, RegistryInv, ReleasesAgree
<1>5. db # NoListing => db.content # Len(subs) + 1
  BY DEF RegistryInv, Counted, Rows, Fine
<1> QED  BY <1>2, <1>3, <1>4, <1>5 DEF Quiet

LEMMA UpdateQuiet ==
    ASSUME RegistryInv, NEW s \in Submissions, SubmitUpdate(s)
    PROVE  Quiet
<1> DEFINE l == [Overwritten(mem) EXCEPT !.kind = IF s.kind = "author" THEN @ ELSE s.kind]
<1>1. PICK ok \in BOOLEAN : Put(l, ok)  BY DEF SubmitUpdate
<1>2. mem # NoListing /\ Certify(s) /\ UNCHANGED cleared  BY DEF SubmitUpdate
<1>3. faults' \in 0..MaxFaults  BY <1>1, StoringBounded DEF Put
<1>4. /\ Fine(Overwritten(mem), subs') /\ Overwritten(mem).records = mem.records
      /\ Overwritten(mem).content \notin DOMAIN subs
  BY <1>2, <1>3, OverwrittenFine
<1>5. /\ l.records = mem.records /\ l.content \notin DOMAIN subs /\ Fine(l, subs')
  BY <1>4 DEF Fine, Listings, Submissions
<1> HIDE DEF l
<1>6. db' = (IF ok THEN Stored(l) ELSE db)  BY <1>1 DEF Put
<1>7. Stored(l).records = l.records /\ Stored(l).content = l.content
  BY <1>5, FineStored
<1>8. db # NoListing => db.records = mem.records /\ db.content \in DOMAIN subs
  BY <1>2 DEF RegistryInv, ReleasesAgree, Rows, Fine
<1> QED  BY <1>5, <1>6, <1>7, <1>8 DEF Quiet

LEMMA StoreQuiet ==
    ASSUME RegistryInv, SaveSetup \/ \E a \in DOMAIN StatusAfter : Moderate(a)
    PROVE  Quiet
<1>1. mem # NoListing  BY DEF SaveSetup, Moderate
<1>2. Fine(mem, subs)  BY <1>1 DEF RegistryInv, Rows
<1>3. db # NoListing =>
         /\ mem.records = db.records
         /\ mem.content = db.content /\ db.att = "revoked" => AttStatus(mem) = "revoked"
  BY <1>1 DEF RegistryInv, ReleasesAgree, Told
<1>4. CASE SaveSetup
  <2>1. db' = Stored(mem)  BY <1>4 DEF SaveSetup
  <2> QED  BY <1>2, <1>3, <2>1, FineStored DEF Quiet
<1>5. ASSUME NEW a \in DOMAIN StatusAfter, Moderate(a) PROVE Quiet
  <2> DEFINE l == [mem EXCEPT !.status = StatusAfter[a]]
  <2>1. PICK ok \in BOOLEAN : Put(l, ok)  BY <1>5 DEF Moderate
  <2>2. StatusAfter[a] \in Statuses  BY DEF StatusAfter, Statuses
  <2>3. /\ Fine(l, subs) /\ l.records = mem.records /\ l.content = mem.content
        /\ AttStatus(l) = AttStatus(mem)
    BY <1>2, <2>2, FineStatus DEF Fine, Listings, AttStatus
  <2> HIDE DEF l
  <2>4. db' = (IF ok THEN Stored(l) ELSE db)  BY <2>1 DEF Put
  <2> QED  BY <1>3, <2>3, <2>4, FineStored DEF Quiet
<1> QED  BY <1>4, <1>5

LEMMA MostStepsQuiet ==
    ASSUME RegistryInv, [Next]_vars,
           \A s \in Submissions : ~SubmitRelease(s),
           \A i \in 1..MaxSubmissions, d \in DOMAIN StatusOfDecision : ~Decide(i, d)
    PROVE  Quiet
<1>1. CASE db' = db  BY <1>1 DEF Quiet
<1>2. ASSUME NEW s \in Submissions, Submit(s) PROVE Quiet
  <2>1. CASE SubmitRefused(s)  BY <1>1, <2>1 DEF SubmitRefused
  <2> QED  BY <1>2, <2>1, NewQuiet, UpdateQuiet DEF Submit
<1>3. CASE SaveSetup \/ \E a \in DOMAIN StatusAfter : Moderate(a)
  BY <1>3, StoreQuiet
<1>4. CASE Restart \/ (\E c \in Contents : Revoke(c)) \/ UNCHANGED vars
  BY <1>1, <1>4 DEF Restart, Revoke, vars
<1> QED  BY <1>2, <1>3, <1>4 DEF Next

(* A staging appends to the row's candidates and changes nothing else.     *)
LEMMA StagingAppends ==
    ASSUME RegistryInv, NEW s \in Submissions, SubmitRelease(s), db # NoListing
    PROVE  /\ \A i \in DOMAIN db.records : db'.records[i] = db.records[i]
           /\ db'.status = db.status /\ db'.content = db.content /\ db'.att = db.att
<1>1. CASE db' = db  BY <1>1
<1>2. CASE db' # db
  <2>1. CanStage(s)  BY <1>2 DEF SubmitRelease
  <2>2. PICK ok \in BOOLEAN : Save(Staged(Len(subs) + 1), ok)
    BY <2>1 DEF SubmitRelease, Staged
  <2>3. db' = Staged(Len(subs) + 1)  BY <1>2, <2>2 DEF Save
  <2>4. faults' \in 0..MaxFaults  BY <2>2, StoringBounded DEF Save
  <2>5. Certify(s) /\ UNCHANGED cleared  BY DEF SubmitRelease
  <2> QED  BY <2>1, <2>3, <2>4, <2>5, StagedFine
<1> QED  BY <1>1, <1>2

(* An approved candidate takes the place of an older release of its        *)
(* publisher that is published.                                            *)
LEMMA ApprovalForward ==
    ASSUME RegistryInv, NEW i, Decide(i, "approve")
    PROVE  /\ db # NoListing /\ i \in DOMAIN db.records
           /\ db.status = "published"
           /\ subs[db.content].ver < subs[db.records[i].content].ver
           /\ subs[db.content].author = subs[db.records[i].content].author
           /\ db.records[i].content # db.content
<1>1. /\ db # NoListing /\ i \in Pending(db) /\ Unchanged(i)
  BY DEF Decide, StatusOfDecision
<1>2. /\ db.status = "published" /\ db.records[i].base.content = db.content
  BY <1>1 DEF Unchanged, Fingerprint
<1>3. i \in DOMAIN db.records /\ Forward(db.records[i], subs)
  BY <1>1 DEF Pending, RegistryInv, Rows, Fine
<1>4. subs[db.content] \in Submissions
  BY <1>2, <1>3 DEF Forward, RegistryInv, Counted
<1> QED  BY <1>1, <1>2, <1>3, <1>4 DEF Forward, Submissions

(* Releases move forward: an approval replaces, in the backend, a          *)
(* published version of the same publisher with a lower number, whatever   *)
(* happened between staging and approval (decide: base_digest).            *)
THEOREM OnlyForward == Spec => ReleasesMoveForward
<1> DEFINE A == \A i \in 1..MaxSubmissions :
          (/\ db # NoListing /\ db' # NoListing
           /\ i \in Pending(db) /\ db'.records[i].status = "approved")
          => /\ db.status = "published"
             /\ subs[db.content].ver < subs[db'.content].ver
             /\ subs[db.content].author = subs[db'.content].author
<1>1. RegistryInv /\ [Next]_vars => A
  <2> SUFFICES ASSUME RegistryInv, [Next]_vars, NEW i \in 1..MaxSubmissions,
                      db # NoListing, db' # NoListing,
                      i \in Pending(db), db'.records[i].status = "approved"
               PROVE  /\ db.status = "published"
                      /\ subs[db.content].ver < subs[db'.content].ver
                      /\ subs[db.content].author = subs[db'.content].author
    OBVIOUS
  <2>1. i \in DOMAIN db.records /\ db.records[i].status = "pending_review"
    BY DEF Pending
  <2>2. \A s \in Submissions : ~SubmitRelease(s)  BY <2>1, StagingAppends
  <2>3. PICK j \in 1..MaxSubmissions, d \in DOMAIN StatusOfDecision : Decide(j, d)
    BY <2>1, <2>2, MostStepsQuiet DEF Quiet
  <2>4. j \in Pending(db)  BY <2>3 DEF Decide
  <2>5. PICK ok \in BOOLEAN : Save(Decided(j, d), ok)  BY <2>3 DEF Decide
  <2>6. db' = Decided(j, d)  BY <2>1, <2>5 DEF Save
  <2>7. /\ Decided(j, d).records[j].status = StatusOfDecision[d]
        /\ \A k \in DOMAIN db.records \ {j} : Decided(j, d).records[k] = db.records[k]
        /\ d = "approve" => Decided(j, d).content = db.records[j].content
    BY <2>4, DecidedFine
  <2>8. i = j /\ d = "approve"  BY <2>1, <2>6, <2>7 DEF StatusOfDecision
  <2>9. db'.content = db.records[i].content  BY <2>6, <2>7, <2>8
  <2> QED  BY <2>3, <2>8, <2>9, ApprovalForward
<1>2. RegistryInv /\ [Next]_vars => [A]_vars  BY <1>1
<1> QED  BY <1>2, RegistryAlways, PTL DEF Spec, ReleasesMoveForward

(* A revocation that storage knows stays known there (revoke, and every    *)
(* operation that stores or replaces the row).                             *)
THEOREM StoredRevocationsStick == Spec => RevocationsStick
<1> DEFINE A == (/\ db # NoListing /\ db' # NoListing
                 /\ db.content = db'.content
                 /\ db.att = "revoked")
                => db'.att = "revoked"
<1>1. RegistryInv /\ [Next]_vars => A
  <2> SUFFICES ASSUME RegistryInv, [Next]_vars, db # NoListing, db' # NoListing,
                      db.content = db'.content, db.att = "revoked"
               PROVE  db'.att = "revoked"
    OBVIOUS
  <2>1. CASE \E s \in Submissions : SubmitRelease(s)  BY <2>1, StagingAppends
  <2>2. ASSUME NEW i \in 1..MaxSubmissions, NEW d \in DOMAIN StatusOfDecision, Decide(i, d)
        PROVE  db'.att = "revoked"
    <3>1. i \in Pending(db)  BY <2>2 DEF Decide
    <3>2. PICK ok \in BOOLEAN : Save(Decided(i, d), ok)  BY <2>2 DEF Decide
    <3>3. /\ d # "approve" => Decided(i, d).att = db.att
          /\ d = "approve" => Decided(i, d).content = db.records[i].content
      BY <3>1, DecidedFine
    <3>4. db' = (IF ok THEN Decided(i, d) ELSE db)  BY <3>2 DEF Save
    <3> QED  BY <2>2, <3>3, <3>4, ApprovalForward
  <2> QED  BY <2>1, <2>2, MostStepsQuiet DEF Quiet
<1>2. RegistryInv /\ [Next]_vars => [A]_vars  BY <1>1
<1> QED  BY <1>2, RegistryAlways, PTL DEF Spec, RevocationsStick

(* While the listing is down, a submission puts it under review.           *)
LEMMA SubmissionsWait ==
    ASSUME RequireModeration, RegistryInv, Down(mem), NEW s \in Submissions, Submit(s)
    PROVE  /\ mem'.status # "published"
           /\ db' = db \/ db'.status # "published"
<1>1. SubmitUpdate(s) \/ SubmitRefused(s)
  BY DEF Down, Submit, SubmitNew, SubmitRelease
<1>2. mem # NoListing /\ Fine(mem, subs)  BY DEF Down, RegistryInv, Rows
<1>3. EffectiveStatus # "published" /\ Overwritten(mem).status = EffectiveStatus
  BY <1>2 DEF EffectiveStatus, Overwritten, Fine, Listings
<1>4. CASE SubmitRefused(s)  BY <1>3, <1>4 DEF SubmitRefused
<1>5. CASE SubmitUpdate(s)
  <2> DEFINE l == [Overwritten(mem) EXCEPT !.kind = IF s.kind = "author" THEN @ ELSE s.kind]
  <2>1. PICK ok \in BOOLEAN : Put(l, ok)  BY <1>5 DEF SubmitUpdate
  <2>2. Certify(s) /\ UNCHANGED cleared  BY <1>5 DEF SubmitUpdate
  <2>3. faults' \in 0..MaxFaults  BY <2>1, StoringBounded DEF Put
  <2>4. Fine(Overwritten(mem), subs')  BY <1>2, <2>2, <2>3, OverwrittenFine
  <2>5. l.status = EffectiveStatus /\ Fine(l, subs')
    BY <1>3, <2>4 DEF Fine, Listings, Submissions
  <2> HIDE DEF l
  <2>6. Stored(l).status = EffectiveStatus  BY <2>5, FineStored
  <2> QED  BY <1>3, <2>1, <2>5, <2>6 DEF Put
<1> QED  BY <1>1, <1>4, <1>5

(* While the row is down, no decision on a candidate publishes it.         *)
LEMMA DecisionsLeaveDown ==
    ASSUME RegistryInv, Down(db),
           NEW i \in 1..MaxSubmissions, NEW d \in DOMAIN StatusOfDecision, Decide(i, d)
    PROVE  /\ mem' = mem \/ mem'.status # "published"
           /\ db' = db \/ db'.status # "published"
<1>1. d # "approve"  BY DEF Down, Decide, Unchanged
<1>2. db # NoListing /\ i \in Pending(db)  BY DEF Decide
<1>3. PICK ok \in BOOLEAN : Save(Decided(i, d), ok)  BY DEF Decide
<1>4. Decided(i, d).status = db.status  BY <1>1, <1>2, DecidedFine
<1> QED  BY <1>3, <1>4 DEF Save, Down

LEMMA ModeratedStatus ==
    ASSUME RegistryInv, NEW a \in DOMAIN StatusAfter, Moderate(a)
    PROVE  /\ mem'.status = StatusAfter[a]
           /\ db' = db \/ db'.status = StatusAfter[a]
<1> DEFINE l == [mem EXCEPT !.status = StatusAfter[a]]
<1>1. PICK ok \in BOOLEAN : Put(l, ok)  BY DEF Moderate
<1>2. Fine(mem, subs)  BY DEF Moderate, RegistryInv, Rows
<1>3. StatusAfter[a] \in Statuses  BY DEF StatusAfter, Statuses
<1>4. Fine(l, subs)  BY <1>2, <1>3, FineStatus
<1>5. l.status = StatusAfter[a]  BY <1>2 DEF Fine, Listings
<1> HIDE DEF l
<1>6. Stored(l).status = StatusAfter[a]  BY <1>4, <1>5, FineStored
<1> QED  BY <1>1, <1>5, <1>6 DEF Put

(* What was taken down is shown again by a moderator's approval or         *)
(* unsuspension only, unless the row never heard of it and replaces it     *)
(* (moderate, publish, stage, decide, reload), for any number of           *)
(* candidates and faults.                                                  *)
THEOREM TakedownsAlwaysHold == RequireModeration => (Spec => TakedownsHold)
<1> SUFFICES ASSUME RequireModeration PROVE Spec => TakedownsHold
  OBVIOUS
<1> DEFINE A == /\ Down(mem) /\ Page(mem)' # 0
                      => Reinstate \/ (~Down(db) /\ RowReplacesListing)
                /\ Down(mem) /\ Down(db) /\ Page(db)' # 0 => Reinstate
<1>1. RegistryInv /\ [Next]_vars => A
  <2> SUFFICES ASSUME RegistryInv, [Next]_vars, Down(mem) PROVE A
    OBVIOUS
  <2>1. /\ Page(mem)' # 0 => mem' # NoListing /\ mem'.status = "published" /\ mem' # mem
        /\ Page(db)' # 0 => db'.status = "published"
        /\ Page(db)' # 0 /\ Down(db) => db' # db
    BY DEF Page, Down
  <2>2. CASE \E s \in Submissions : Submit(s)
    BY <2>1, <2>2, SubmissionsWait
  <2>3. CASE \E a \in Moderations \cap DOMAIN StatusAfter : Moderate(a)
    <3>1. PICK a \in DOMAIN StatusAfter : Moderate(a)  BY <2>3
    <3>2. /\ mem'.status = StatusAfter[a]
          /\ db' = db \/ db'.status = StatusAfter[a]
      BY <3>1, ModeratedStatus
    <3>3. StatusAfter[a] = "published" => Reinstate
      BY <3>1 DEF StatusAfter, Reinstate
    <3> QED  BY <2>1, <3>2, <3>3
  <2>4. CASE \E i \in 1..MaxSubmissions, d \in DOMAIN StatusOfDecision : Decide(i, d)
    <3>1. RowReplacesListing  BY <2>4 DEF RowReplacesListing
    <3> QED  BY <2>1, <2>4, <3>1, DecisionsLeaveDown
  <2>5. CASE \E c \in Contents : Revoke(c)
    BY <2>1, <2>5 DEF Revoke
  <2>6. CASE SaveSetup
    <3>1. Fine(mem, subs)  BY <2>6 DEF SaveSetup, RegistryInv, Rows
    <3>2. Stored(mem).status # "published"  BY <3>1, FineStored DEF Down
    <3> QED  BY <2>1, <2>6, <3>2 DEF SaveSetup
  <2>7. CASE Restart
    <3>1. RowReplacesListing  BY <2>7 DEF RowReplacesListing
    <3>2. mem' = db /\ db' = db  BY <2>7 DEF Restart
    <3> QED  BY <2>1, <3>1, <3>2 DEF Down
  <2>8. CASE UNCHANGED vars
    BY <2>1, <2>8 DEF vars
  <2> QED  BY <2>2, <2>3, <2>4, <2>5, <2>6, <2>7, <2>8 DEF Next
<1>2. RegistryInv /\ [Next]_vars => [A]_vars  BY <1>1
<1> QED  BY <1>2, RegistryAlways, PTL DEF Spec, TakedownsHold
=============================================================================
