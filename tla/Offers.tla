------------------------------ MODULE Offers ------------------------------
(***************************************************************************)
(* The offer moderation core of the UBD backend: the offers table, the     *)
(* blocked and directory hosts, the sources it is linked to, and every     *)
(* request of the internal API (crawler) and the admin API that changes    *)
(* them.  One action is one database transaction that runs alone; a        *)
(* handler that commits twice (publish then promote, register then sweep)  *)
(* is several actions, with the crash between them.                        *)
(***************************************************************************)
EXTENDS OfferTable

CONSTANTS
  Sighting,       \* <<payload, source or None>>: what the crawler may submit
  AdminEntry,     \* payloads an admin may type in (create, edit)
  BlockableHost,  \* hosts the block and unblock requests may name
  DirectoryHost,  \* hosts the crawler may find to be directories
  Address,        \* type and URL (or handle) of a source
  HostOf,         \* HostOf[a]: the host of a website's address, else None
  Origin          \* the addresses that are the bare origin of a website

VARIABLES
  offers,       \* the offers table
  lastId,       \* its auto-increment counter
  blocked,      \* blocked_hosts: status of a host's row
  directories,  \* directory_hosts
  sweeping,     \* hosts registered, their sweep still to run
  unswept,      \* hosts whose sweep was lost with the request
  sources,      \* the sources table: state and address of each row
  promoting,    \* offers published, their promotion still to run
  approved      \* history: the content of each offer an admin last vouched for

moderation == <<offers, lastId, approved>>
hosts == <<blocked, directories, sweeping, unswept>>
vars == <<offers, lastId, blocked, directories, sweeping, unswept, sources,
          promoting, approved>>

HostStatus == {"absent", "approved", "rejected"}
SourceState == {"absent", "active", "inactive", "deleted"}
SourceRow == [state : SourceState, at : Address \cup {None}]

ASSUME OffersAssumption ==
  /\ Sighting \subseteq Payload \X (Source \cup {None})
  /\ AdminEntry \subseteq Payload
  /\ BlockableHost \subseteq Host
  /\ DirectoryHost \subseteq Host
  /\ HostOf \in [Address -> Host \cup {None}]
  /\ Origin \subseteq Address
  /\ None \notin Payload
  /\ {"no", "due"} \cap Source = {}

TypeOK ==
  /\ IsTable(offers)
  /\ lastId \in 0..MaxOffers
  /\ blocked \in [Host -> HostStatus]
  /\ directories \subseteq Host
  /\ sweeping \subseteq directories
  /\ unswept \subseteq directories
  /\ sources \in [Source -> SourceRow]
  /\ promoting \in [OfferId -> {"no", "due"} \cup Source]
  /\ approved \in [OfferId -> Payload \cup {None}]

Init ==
  /\ offers = [o \in {} |-> None]
  /\ lastId = 0
  /\ blocked = [h \in Host |-> "absent"]
  /\ directories = {}
  /\ sweeping = {}
  /\ unswept = {}
  /\ sources = [s \in Source |-> [state |-> "absent", at |-> None]]
  /\ promoting = [o \in OfferId |-> "no"]
  /\ approved = [o \in OfferId |-> None]

BlockedNow == {h \in Host : blocked[h] = "approved"}

Present(s) == sources[s].state \in {"active", "inactive"}

(* the host a row of sources is the active website of *)
Followed(row) == IF row.state = "active" THEN HostOf[row.at] ELSE None

(* mutant: directory hosts are not looked up *)
BadSourceBlockedOnly(p) == \E h \in CandidateHosts(p) : HostBlocked(BlockedNow, h)

(* _blocked_source_host or _directory_source_host finds something *)
BadSource(p) ==
  \/ \E h \in CandidateHosts(p) : HostBlocked(BlockedNow, h)
  \/ {p.site, p.page} \cap directories # {}

---------------------------------------------------------------------------
(* The crawler *)

(* the submission of a sighting; one that would break the unique key is
   rolled back and answered 500 *)
Submit(p, s) ==
  /\ s # None => Present(s)
  /\ UNCHANGED <<hosts, sources, promoting, approved>>
  /\ \E T \in CreateOffer(offers, p, s, BadSource(p), lastId + 1) :
       /\ DOMAIN T \subseteq OfferId
       /\ KeysUnique(T)
       /\ offers' = T
       /\ lastId' = IF lastId + 1 \in DOMAIN T THEN lastId + 1 ELSE lastId

Judge(o) ==
  /\ o \in Judgeable(offers)
  /\ offers' = JudgeReject(offers, o)
  /\ UNCHANGED <<lastId, hosts, sources, promoting, approved>>

ExpireStale ==
  /\ Stale(offers) # {}
  /\ offers' = Expire(offers)
  /\ UNCHANGED <<lastId, hosts, sources, promoting, approved>>

RegisterDirectory(h) ==
  /\ h \notin directories
  /\ directories' = directories \cup {h}
  /\ sweeping' = sweeping \cup {h}
  /\ UNCHANGED <<moderation, blocked, unswept, sources, promoting>>

Sweep(h) ==
  /\ h \in sweeping
  /\ offers' = RejectAll(offers, Swept(offers, h))
  /\ sweeping' = sweeping \ {h}
  /\ UNCHANGED <<lastId, blocked, directories, unswept, sources, promoting, approved>>

(* the request dies after the registration is committed *)
LoseSweep(h) ==
  /\ h \in sweeping
  /\ sweeping' = sweeping \ {h}
  /\ unswept' = unswept \cup {h}
  /\ UNCHANGED <<moderation, blocked, directories, sources, promoting>>

DayPasses ==
  /\ offers' = Age(offers)
  /\ UNCHANGED <<lastId, hosts, sources, promoting, approved>>

---------------------------------------------------------------------------
(* Admins *)

AdminCreate(p) ==
  /\ lastId + 1 \in OfferId
  /\ offers' = SetRow(offers, lastId + 1,
                      NewRow(p, None, None, "admin", "published", NoOffer))
  /\ lastId' = lastId + 1
  /\ approved' = [approved EXCEPT ![lastId + 1] = p]
  /\ UNCHANGED <<hosts, sources, promoting>>

(* maybe_promote_on_publish has work to do on o *)
Promotable(o) ==
  offers[o].by = "crawler" /\ offers[o].source = None /\ PageHost(offers[o].content) # None

Publish(o) ==
  /\ o \in DOMAIN offers
  /\ offers' = SetStatus(offers, o, "published")
  /\ approved' = [approved EXCEPT ![o] = offers[o].content]
  /\ promoting' = [promoting EXCEPT ![o] = IF Promotable(o) THEN "due" ELSE "no"]
  /\ UNCHANGED <<lastId, hosts, sources>>

(* mutant: the source is found by its URL alone *)
PromoteSourceByRef(o) ==
  /\ promoting[o] = "due" /\ o \in DOMAIN offers
  /\ \E a \in Origin, s \in Source :
       /\ HostOf[a] = PageHost(offers[o].content)
       /\ \/ Present(s) /\ sources[s].at = a
          \/ sources[s].state = "absent" /\ \A x \in Source : Present(x) => sources[x].at # a
       /\ sources' = [sources EXCEPT ![s] = [state |-> "active", at |-> a]]
       /\ promoting' = [promoting EXCEPT ![o] = s]
  /\ UNCHANGED <<moderation, hosts>>

(* get_or_create_source_by_ref: an active source of the host, else a row with
   its origin, which is reactivated or inserted; a transaction of its own *)
PromoteSource(o) ==
  LET h == PageHost(offers[o].content)
      active == {s \in Source : Followed(sources[s]) = h}
      listed(a) == {s \in Source : Present(s) /\ sources[s].at = a}
      unused == {s \in Source : sources[s].state = "absent"}
  IN  /\ promoting[o] = "due"
      /\ o \in DOMAIN offers
      /\ h # None
      /\ \/ /\ \E s \in active : promoting' = [promoting EXCEPT ![o] = s]
            /\ UNCHANGED sources
         \/ /\ active = {}
            /\ \E a \in {x \in Origin : HostOf[x] = h} :
                 \E s \in IF listed(a) # {} THEN listed(a) ELSE unused :
                   /\ sources' = [sources EXCEPT ![s] = [state |-> "active", at |-> a]]
                   /\ promoting' = [promoting EXCEPT ![o] = s]
      /\ UNCHANGED <<moderation, hosts>>

(* mutant: the offer is linked whatever the source already holds *)
PromoteLinkUnchecked(o) ==
  /\ promoting[o] \in Source /\ o \in DOMAIN offers /\ Present(promoting[o])
  /\ offers' = [offers EXCEPT ![o].age = 0, ![o].source = promoting[o]]
  /\ promoting' = [promoting EXCEPT ![o] = "no"]
  /\ UNCHANGED <<lastId, approved, hosts, sources>>

(* the offer is linked to the source unless another row of the source
   already has its content *)
PromoteLink(o) ==
  LET s == promoting[o]
      clash == \E x \in DOMAIN offers \ {o} :
                 /\ offers[o].hash # None
                 /\ offers[x].source = s /\ offers[x].hash = offers[o].hash
  IN  /\ s \in Source
      /\ o \in DOMAIN offers
      /\ Present(s)
      /\ offers' = [offers EXCEPT ![o].age = 0,
                                  ![o].source = IF clash THEN @ ELSE s]
      /\ promoting' = [promoting EXCEPT ![o] = "no"]
      /\ UNCHANGED <<lastId, approved, hosts, sources>>

(* the publish request dies, or the offer or the source is gone *)
AbandonPromotion(o) ==
  /\ promoting[o] # "no"
  /\ promoting' = [promoting EXCEPT ![o] = "no"]
  /\ UNCHANGED <<moderation, hosts, sources>>

Reject(o) ==
  /\ o \in DOMAIN offers
  /\ offers' = SetStatus(offers, o, "rejected")
  /\ blocked' = [h \in Host |-> IF h \in HostsToBlock(offers', o, BlockedNow)
                                THEN "approved" ELSE blocked[h]]
  /\ UNCHANGED <<lastId, directories, sweeping, unswept, sources, promoting, approved>>

Restore(o) ==
  /\ o \in DOMAIN offers
  /\ offers[o].status = "rejected"
  /\ offers' = SetStatus(offers, o, "pending")
  /\ approved' = [approved EXCEPT ![o] = offers[o].content]
  /\ UNCHANGED <<lastId, hosts, sources, promoting>>

EditOffer(o, p) ==
  /\ o \in DOMAIN offers
  /\ offers' = Edit(offers, o, p)
  /\ approved' = [approved EXCEPT ![o] = p]
  /\ UNCHANGED <<lastId, hosts, sources, promoting>>

DeleteOffer(o) ==
  /\ o \in DOMAIN offers
  /\ offers' = Delete(offers, o)
  /\ approved' = [approved EXCEPT ![o] = None]
  /\ UNCHANGED <<lastId, hosts, sources, promoting>>

(* add_manual, from the blocked hosts page or an offer's block button, and
   auto_block, from the crawler: they differ in the reviewer they record *)
BlockHost(h) ==
  /\ blocked' = [blocked EXCEPT ![h] = "approved"]
  /\ UNCHANGED <<moderation, directories, sweeping, unswept, sources, promoting>>

Unblock(h) ==
  /\ blocked[h] # "absent"
  /\ blocked' = [blocked EXCEPT ![h] = "rejected"]
  /\ UNCHANGED <<moderation, directories, sweeping, unswept, sources, promoting>>

(* create_source, by an admin or for a suggestion he approves: an active
   source of the same host is returned instead *)
AddSource(s, a, active) ==
  /\ sources[s].state = "absent"
  /\ HostOf[a] # None => \A x \in Source : Followed(sources[x]) # HostOf[a]
  /\ sources' = [sources EXCEPT ![s] = [state |-> IF active THEN "active" ELSE "inactive",
                                        at |-> a]]
  /\ UNCHANGED <<moderation, hosts, promoting>>

(* update_source: sets type, URL and is_active to whatever the admin sends *)
UpdateSource(s, a, active) ==
  /\ Present(s)
  /\ sources' = [sources EXCEPT ![s] = [state |-> IF active THEN "active" ELSE "inactive",
                                        at |-> a]]
  /\ UNCHANGED <<moderation, hosts, promoting>>

DeleteSource(s) ==
  /\ Present(s)
  /\ sources' = [sources EXCEPT ![s] = [state |-> "deleted", at |-> None]]
  /\ offers' = Orphan(offers, s)
  /\ UNCHANGED <<lastId, approved, hosts, promoting>>

---------------------------------------------------------------------------
CrawlerNext ==
  \/ \E x \in Sighting : Submit(x[1], x[2])
  \/ \E o \in DOMAIN offers : Judge(o)
  \/ ExpireStale
  \/ \E h \in DirectoryHost : RegisterDirectory(h) \/ Sweep(h) \/ LoseSweep(h)

ModerationNext ==
  \/ \E p \in AdminEntry : AdminCreate(p)
  \/ \E o \in OfferId :
       \/ Publish(o) \/ PromoteSource(o) \/ PromoteLink(o) \/ AbandonPromotion(o)
       \/ Reject(o) \/ Restore(o) \/ DeleteOffer(o)
       \/ \E p \in AdminEntry : EditOffer(o, p)

AdminNext ==
  \/ ModerationNext
  \/ \E h \in BlockableHost : BlockHost(h) \/ Unblock(h)
  \/ \E s \in Source :
       \/ DeleteSource(s)
       \/ \E a \in Address, active \in BOOLEAN :
            AddSource(s, a, active) \/ UpdateSource(s, a, active)

Next == CrawlerNext \/ AdminNext \/ DayPasses

Spec == Init /\ [][Next]_vars

---------------------------------------------------------------------------
(***************************************************************************)
(* Properties.                                                             *)
(***************************************************************************)

(* The supersede graph has no cycle: every set of offers holds one whose   *)
(* parent is outside it (the claim of set_status, offer.py:541-545: a      *)
(* former parent can be revived as a shadow without closing a loop).       *)
SupersedeAcyclic ==
  \A S \in SUBSET DOMAIN offers : S # {} => \E o \in S : offers[o].sup \notin S

(* Only an offer waiting for a ruling, or one that was refused, points to  *)
(* the offer it would replace; a live or expired row never does, and the   *)
(* row pointed to exists.                                                  *)
ShadowShape ==
  \A o \in DOMAIN offers : offers[o].sup # NoOffer =>
    /\ offers[o].sup \in DOMAIN offers
    /\ offers[o].by = "crawler"
    /\ offers[o].status \in {"pending", "rejected"}

(* What the public sees was vouched for by an admin: no sighting, however  *)
(* it is matched, rewrites the content of a live offer (branches 1 to 4 of *)
(* create_offer put a change into a shadow or into the queue).             *)
LiveIsApproved ==
  \A o \in DOMAIN offers :
    offers[o].status = "published" => approved[o] = offers[o].content

(* Whatever the history, at most one of the pending shadows of an offer    *)
(* has never been ruled on by an admin: repeated changes of a page reuse   *)
(* the shadow in flight instead of flooding the queue.                     *)
OneFreshShadow ==
  \A a, b \in DOMAIN offers :
    (/\ a # b
     /\ offers[a].sup # NoOffer /\ offers[a].sup = offers[b].sup
     /\ offers[a].status = "pending" /\ offers[b].status = "pending")
      => "admin" \in {offers[a].reviewer, offers[b].reviewer}

(* The marker of a judge rejection (reason set, no reviewer) is never left *)
(* behind on an offer that is back in the queue, live or expired.          *)
JudgeMarkMeansRejected ==
  \A o \in DOMAIN offers :
    offers[o].reviewer = "judge" =>
      offers[o].status = "rejected" /\ offers[o].by = "crawler"

(* A submission the unique key refuses has met an expired row of the same  *)
(* source and content: no other path of create_offer walks into the key.   *)
OnlyExpiredCollides ==
  \A x \in Sighting : \A T \in CreateOffer(offers, x[1], x[2], BadSource(x[1]), lastId + 1) :
    \/ KeysUnique(T)
    \/ \E o \in DOMAIN offers :
          /\ offers[o].status = "expired"
          /\ offers[o].source = x[2] /\ offers[o].hash = x[1].hash

(* Once a directory host is registered and swept, the moderation queue     *)
(* holds no crawler offer from it but those an admin put back himself.     *)
DirectoryQueueSwept ==
  \A o \in DOMAIN offers :
    LET h == {offers[o].content.site, offers[o].content.page} \cap directories
    IN  (/\ o \in Judgeable(offers)
         /\ h # {} /\ h \cap (sweeping \cup unswept) = {})
          => approved[o] = offers[o].content

(* A refused offer stays refused, with the content it was refused for,     *)
(* until an admin acts on that very offer: no re-sighting, sweep, judge or *)
(* expiry brings it back ("rejected stays final", offer.py:275).           *)
RejectedStaysFinal ==
  [][\A o \in DOMAIN offers \cap DOMAIN offers' :
       offers[o].status = "rejected" =>
         \/ offers'[o].status = "rejected" /\ offers'[o].content = offers[o].content
         \/ approved'[o] = offers'[o].content /\ (Publish(o) \/ Restore(o)
               \/ \E p \in AdminEntry : EditOffer(o, p))]_vars

(* A submission from a blocked or directory host puts nothing in front of  *)
(* moderators or the public: no offer gains a link, new content or a place *)
(* in the queue from it.                                                   *)
BadSourceAddsNothing ==
  [][\A x \in Sighting :
       (BadSource(x[1]) /\ Submit(x[1], x[2])) =>
         \A o \in DOMAIN offers' :
           IF o \in DOMAIN offers
           THEN /\ offers'[o].links = offers[o].links
                /\ offers'[o].content = offers[o].content
                /\ offers'[o].status \in {offers[o].status, "rejected"}
           ELSE offers'[o].status = "rejected"]_vars

(* While its page is still crawled, the live version of a page does not    *)
(* age towards expiry: whatever the sighting says, unless that content is  *)
(* held by a row the live one is unrelated to, it is live and seen today.  *)
SightingKeepsLiveFresh ==
  [][\A x \in Sighting : \A o \in Live(offers, x[1], x[2]) :
       (/\ Submit(x[1], x[2]) /\ ~BadSource(x[1])
        /\ Live(offers, x[1], x[2]) = {o}
        /\ \A r \in SameHash(offers, x[1], x[2]) \ {o} : offers[r].sup = o)
         => offers'[o].status = "published" /\ offers'[o].age = 0]_vars

(* Learning from rejections never blocks a host a live offer comes from,   *)
(* not even through a host above it (the guard of _maybe_autoblock_hosts   *)
(* protects dual-status business hosts).                                   *)
LearnedBlockSparesLive ==
  [][\A x \in DOMAIN offers' : offers'[x].status = "published" =>
       \A h \in CandidateHosts(offers'[x].content) :
         (HostBlocked(BlockedNow', h) /\ ~HostBlocked(BlockedNow, h))
           => \E b \in BlockableHost : BlockHost(b)]_vars

(* A host gains a second active source only when an admin updates one of   *)
(* the two by hand (update_source compares no hosts): creation, approval   *)
(* of a suggestion and promotion fall back on the active source.           *)
OneActiveSourceByCreation ==
  [][\A s, t \in Source :
       (/\ s # t /\ Followed(sources'[s]) = Followed(sources'[t])
        /\ Followed(sources'[s]) # None
        /\ <<Followed(sources[s]), Followed(sources[t])>>
             # <<Followed(sources'[s]), Followed(sources'[t])>>)
         => \E u \in {s, t}, a \in Address, active \in BOOLEAN : UpdateSource(u, a, active)]_vars

===========================================================================
