---------------------------- MODULE ToolRegistry ----------------------------
(***************************************************************************)
(* The PureCipher verified registry, for one tool name: the certification  *)
(* pipeline that issues and revokes attestations, the marketplace listing  *)
(* with its moderation, and the release candidates that replace a          *)
(* published version.                                                      *)
(*                                                                         *)
(* The listing lives twice: mem, the object the marketplace serves, and    *)
(* db, the row of the storage backend.  publish() and moderate() change    *)
(* mem and then store it as well as they can: an exception of the backend  *)
(* is logged and forgotten (tool_marketplace.py _persist_listing).  The    *)
(* release candidates work the other way round: they read db, store their  *)
(* change, let an exception through, and only then replace mem by a fresh  *)
(* object made from what they stored (release_candidates.py load, save).   *)
(*                                                                         *)
(* A submission is a number: it stands for its manifest and for the        *)
(* attestation certify() made of it, which always travel together.  Only   *)
(* submissions that pass certification are modelled.                       *)
(***************************************************************************)
EXTENDS Storage, Sequences

CONSTANTS Publishers,
          RequireModeration,  \* the marketplace's constructor argument
          Moderations,        \* bound: the moderation actions taken
          MaxSubmissions,     \* bound: submissions in a behaviour
          MaxVersion,         \* bound: version numbers
          NoListing

ASSUME ConstantsAssumption ==
    /\ RequireModeration \in BOOLEAN
    /\ MaxSubmissions \in Nat /\ MaxVersion \in Nat

VARIABLES subs,      \* the submissions so far: version, author and kind of each
          mem,       \* ToolMarketplace._listings: the listing object, or NoListing
          db,        \* the backend's row for it, or NoListing
          issued,    \* CertificationPipeline._attestations
          revoked,   \* CertificationPipeline._revoked_attestation_ids
          cleared    \* history: the submissions a moderator let through

vars == <<subs, mem, db, issued, revoked, faults, cleared>>

-----------------------------------------------------------------------------
Statuses == {"draft", "pending_review", "published", "suspended",
             "rejected", "withdrawn", "deregistered"}
Kinds == {"author", "curator"}
AttStatuses == {"valid", "revoked"}
Contents == 1..MaxSubmissions

Submissions == [ver : 1..MaxVersion, author : Publishers, kind : Kinds]

\* The fields fingerprint() hashes that can change here; version, manifest
\* and author are those of the content.
Fingerprints == [status : Statuses, content : Contents, kind : Kinds, att : AttStatuses]

Releases == [content : Contents, base : Fingerprints,
             status : {"pending_review", "approved", "rejected",
                       "changes_requested", "withdrawn"}]

\* shared: the listing's attestation is the very object the pipeline holds,
\* so that revoke() is seen through it; a listing made from a stored row has
\* a copy, whose status is att.
Listings == [status : Statuses, content : Contents, kind : Kinds,
             att : AttStatuses, shared : BOOLEAN, records : Seq(Releases)]

ASSUME NoListingAssumption == NoListing \notin Listings

TypeOK ==
    /\ subs \in Seq(Submissions)
    /\ Len(subs) <= MaxSubmissions
    /\ mem \in Listings \cup {NoListing}
    /\ db \in Listings \cup {NoListing}
    /\ issued \subseteq 1..Len(subs)
    /\ revoked \subseteq issued
    /\ faults \in 0..MaxFaults
    /\ cleared \subseteq 1..Len(subs)

-----------------------------------------------------------------------------
\* The status of the attestation a listing carries.
AttStatus(l) ==
    IF l.shared THEN IF l.content \in revoked THEN "revoked" ELSE "valid"
                ELSE l.att

\* What a listing is stored as: the copy it would be read back as.
Stored(l) == [l EXCEPT !.att = AttStatus(l), !.shared = FALSE]

Fingerprint(l) ==
    [status |-> l.status, content |-> l.content, kind |-> l.kind, att |-> l.att]

Pending(l) == {i \in DOMAIN l.records : l.records[i].status = "pending_review"}

\* The listing object becomes l and is stored by _persist_listing, which
\* swallows the exception of a failing store.
Put(l, ok) ==
    /\ Storing(ok)
    /\ mem' = l
    /\ db' = IF ok THEN Stored(l) ELSE db

\* Mutant: the listing object is replaced before the row is stored.
SaveExposesFirst(r, ok) ==
    /\ Storing(ok)
    /\ db' = IF ok THEN r ELSE db
    /\ mem' = r

\* The row becomes r by save(), which lets the exception of a failing store
\* through before the listing object is replaced by what was stored.
Save(r, ok) ==
    /\ Storing(ok)
    /\ db' = IF ok THEN r ELSE db
    /\ mem' = IF ok THEN r ELSE mem

\* certify(): the submission gets its attestation whatever becomes of it.
Certify(s) ==
    /\ Len(subs) < MaxSubmissions
    /\ subs' = Append(subs, s)
    /\ issued' = issued \cup {Len(subs) + 1}
    /\ UNCHANGED revoked

-----------------------------------------------------------------------------
(***************************************************************************)
(* submit_tool(): certify, then publish() or, when the listing is          *)
(* published, stage() a release candidate.                                 *)
(***************************************************************************)
\* Mutant: a submission is published without review.
EffectiveStatusPublished == "published"

\* The status publish() gives a listing.
EffectiveStatus == IF RequireModeration THEN "pending_review" ELSE "published"

\* publish() of a name the marketplace does not know.
SubmitNew(s) ==
    /\ mem = NoListing
    /\ Certify(s)
    /\ \E ok \in BOOLEAN :
          Put([status |-> EffectiveStatus, content |-> Len(subs) + 1, kind |-> s.kind,
               att |-> "valid", shared |-> TRUE, records |-> <<>>], ok)
    /\ UNCHANGED cleared

\* What publish() has written into the listing when it reaches the test that
\* keeps a curator from taking over an author's listing.
Overwritten(l) ==
    [l EXCEPT !.status = EffectiveStatus, !.content = Len(subs) + 1, !.shared = TRUE,
              !.att = "valid"]

\* publish() over a listing that is not published.
SubmitUpdate(s) ==
    /\ mem # NoListing /\ mem.status # "published"
    /\ ~(s.kind = "curator" /\ mem.kind = "author")
    /\ Certify(s)
    /\ \E ok \in BOOLEAN :
          Put([Overwritten(mem) EXCEPT !.kind = IF s.kind = "author" THEN @ ELSE s.kind], ok)
    /\ UNCHANGED cleared

\* The same, refused: the ValueError is raised after the listing object was
\* overwritten and before it is stored.
SubmitRefused(s) ==
    /\ mem # NoListing /\ mem.status # "published"
    /\ s.kind = "curator" /\ mem.kind = "author"
    /\ Certify(s)
    /\ mem' = Overwritten(mem)
    /\ UNCHANGED <<db, faults, cleared>>

\* The conditions under which stage() accepts a candidate, on the stored row.
CanStage(s) ==
    /\ db # NoListing
    /\ db.status = "published"
    /\ subs[db.content].author = s.author
    /\ db.kind = "author"
    /\ s.ver > subs[db.content].ver
    /\ Pending(db) = {}

\* stage(): a candidate for a published listing; attestation_kind is not
\* handed on, the candidate keeps the listing's.
SubmitRelease(s) ==
    /\ mem # NoListing /\ mem.status = "published"
    /\ Certify(s)
    /\ IF CanStage(s)
       THEN \E ok \in BOOLEAN :
               Save([db EXCEPT !.records = Append(@,
                       [content |-> Len(subs) + 1, base |-> Fingerprint(db),
                        status |-> "pending_review"])], ok)
       ELSE UNCHANGED <<mem, db, faults>>
    /\ UNCHANGED cleared

-----------------------------------------------------------------------------
(***************************************************************************)
(* moderate_listing(), as the review route lets it be called: only         *)
(* withdraw and resubmit look at the status the listing has.               *)
(***************************************************************************)
StatusAfter == [approve |-> "published", reject |-> "rejected",
                request_changes |-> "draft", suspend |-> "suspended",
                unsuspend |-> "published", deregister |-> "deregistered",
                withdraw |-> "withdrawn", resubmit |-> "pending_review"]

MayModerate(a) ==
    /\ a = "withdraw" => mem.status = "pending_review"
    /\ a = "resubmit" => mem.status = "withdrawn"

Moderate(a) ==
    /\ mem # NoListing
    /\ MayModerate(a)
    /\ \E ok \in BOOLEAN : Put([mem EXCEPT !.status = StatusAfter[a]], ok)
    /\ cleared' = IF StatusAfter[a] = "published" THEN cleared \cup {mem.content} ELSE cleared
    /\ UNCHANGED <<subs, issued, revoked>>

-----------------------------------------------------------------------------
(***************************************************************************)
(* decide(): the reviewer's or publisher's decision on a candidate.        *)
(***************************************************************************)
StatusOfDecision == [approve |-> "approved", reject |-> "rejected",
                     request_changes |-> "changes_requested", withdraw |-> "withdrawn"]

\* Mutant: only the content is compared, not what became of the listing.
UnchangedContent(i) == db.content = db.records[i].base.content

\* Mutant: the candidate is not compared with the published release at all.
UnchangedUnchecked(i) == db.status = "published"

\* The published release is still the one the candidate was compared with.
Unchanged(i) == Fingerprint(db) = db.records[i].base /\ db.status = "published"

\* The row after the decision; an approved candidate's snapshot is merged in,
\* with the status and kind of the row it was made from and the attestation as
\* it was certified.
Decided(i, d) ==
    LET row == [db EXCEPT !.records[i].status = StatusOfDecision[d]]
    IN  IF d = "approve"
        THEN [row EXCEPT !.content = db.records[i].content, !.att = "valid",
                         !.status = db.records[i].base.status,
                         !.kind = db.records[i].base.kind]
        ELSE row

Decide(i, d) ==
    /\ mem # NoListing /\ db # NoListing
    /\ i \in Pending(db)
    /\ d = "approve" => Unchanged(i)
    /\ \E ok \in BOOLEAN :
          /\ Save(Decided(i, d), ok)
          /\ cleared' = IF ok /\ d = "approve" THEN cleared \cup {db.records[i].content}
                                               ELSE cleared
    /\ UNCHANGED <<subs, issued, revoked>>

-----------------------------------------------------------------------------
\* revoke(): only attestations this process issued are known to it.
Revoke(c) ==
    /\ c \in issued \ revoked
    /\ revoked' = revoked \cup {c}
    /\ UNCHANGED <<subs, mem, db, issued, faults, cleared>>

\* save_publisher_setup() stores the whole listing object, or raises.
SaveSetup ==
    /\ mem # NoListing
    /\ db' = Stored(mem)
    /\ UNCHANGED <<subs, mem, issued, revoked, faults, cleared>>

\* Mutant: the index of revocations outlives the attestations.
RestartKeepsRevoked ==
    /\ mem' = db
    /\ issued' = {}
    /\ UNCHANGED <<subs, db, revoked, faults, cleared>>

\* Mutant: the status of the attestation is lost in loading.
RestartLosesStatus ==
    /\ mem' = IF db = NoListing THEN db ELSE [db EXCEPT !.att = "valid"]
    /\ issued' = {} /\ revoked' = {}
    /\ UNCHANGED <<subs, db, faults, cleared>>

\* The process ends and a new one loads the marketplace; the pipeline starts
\* empty.
Restart ==
    /\ mem' = db
    /\ issued' = {} /\ revoked' = {}
    /\ UNCHANGED <<subs, db, faults, cleared>>

-----------------------------------------------------------------------------
Init ==
    /\ subs = <<>>
    /\ mem = NoListing /\ db = NoListing
    /\ issued = {} /\ revoked = {}
    /\ faults = 0
    /\ cleared = {}

Submit(s) == SubmitNew(s) \/ SubmitUpdate(s) \/ SubmitRefused(s) \/ SubmitRelease(s)

Next ==
    \/ \E s \in Submissions : Submit(s)
    \/ \E a \in Moderations \cap DOMAIN StatusAfter : Moderate(a)
    \/ \E i \in 1..MaxSubmissions, d \in DOMAIN StatusOfDecision : Decide(i, d)
    \/ \E c \in Contents : Revoke(c)
    \/ SaveSetup
    \/ Restart

Spec == Init /\ [][Next]_vars

-----------------------------------------------------------------------------
(***************************************************************************)
(* Properties                                                              *)
(***************************************************************************)
\* _is_public_listing: the content shown of a listing, which is published and
\* whose attestation says it is valid; 0 if it is not shown.
Page(l) ==
    IF l # NoListing /\ l.status = "published" /\ AttStatus(l) = "valid" THEN l.content ELSE 0

\* The registry implements the catalogue: through failing stores, refused
\* updates, candidates and restarts the public page shows, and the backend
\* keeps for the next start, only submissions that a moderator approved,
\* unsuspended or released (submit_tool, moderate_listing, decide).
Pages == INSTANCE Catalog WITH Hidden <- 0, shown <- Page(mem), kept <- Page(db)
ImplementsCatalog == Pages!Spec

\* No release decision is in memory only or in the backend only: what the
\* listing object and the stored row say of the candidates never differs, even
\* when stores fail around them ("Persist before exposing changes").
ReleasesAgree ==
    IF mem = NoListing \/ db = NoListing
    THEN \A l \in {mem, db} \ {NoListing} : l.records = <<>>
    ELSE mem.records = db.records

\* An approved release replaces, in the backend, a published version of the
\* same publisher with a lower version number, however the listing was
\* suspended, resubmitted or restored between staging and approval.
ReleasesMoveForward ==
    [][\A i \in 1..MaxSubmissions :
          (/\ db # NoListing /\ db' # NoListing
           /\ i \in Pending(db) /\ db'.records[i].status = "approved")
          => /\ db.status = "published"
             /\ subs[db.content].ver < subs[db'.content].ver
             /\ subs[db.content].author = subs[db'.content].author]_vars

\* A listing that was taken down is shown again only by a moderator's approval
\* or unsuspension, never by a new submission, a candidate staged before the
\* takedown or a restart.  The row does not have to say so for that, unless a
\* restart or the decision on a candidate puts the row in the listing's place:
\* a takedown whose store failed does not survive those (_persist_listing
\* swallows the exception, decide() loads and saves the row).  Nor does the
\* row itself come back while both are down.  moderate() looks at no status:
\* approval and unsuspension publish a deregistered listing as well, although
\* the code calls it permanently removed ("no actions").
Down(l) == l # NoListing /\ l.status # "published"
Reinstate == Moderate("approve") \/ Moderate("unsuspend")
RowReplacesListing ==
    Restart \/ \E i \in 1..MaxSubmissions, d \in DOMAIN StatusOfDecision : Decide(i, d)
TakedownsHold ==
    [][/\ Down(mem) /\ Page(mem)' # 0 => Reinstate \/ (~Down(db) /\ RowReplacesListing)
       /\ Down(mem) /\ Down(db) /\ Page(db)' # 0 => Reinstate]_vars

\* Once the stored row says that a submission's attestation is revoked, it
\* says so as long as it holds that submission: no moderation, candidate,
\* decision, failed store or restart, and no copy of the attestation made
\* before, turns it back (revoke tells only the object the pipeline holds, and
\* the row learns of it when the listing is next stored).
RevocationsStick ==
    [][(/\ db # NoListing /\ db' # NoListing
        /\ db.content = db'.content
        /\ db.att = "revoked")
       => db'.att = "revoked"]_vars
=============================================================================
