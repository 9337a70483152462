--------------------------- MODULE ListingReplies ---------------------------
(***************************************************************************)
(* From a matched listing to the parts of the automated reply              *)
(* (backend/app/pipeline.py, actions.py, playbooks.py), while the operator *)
(* edits the listing, its Playbook and its media at the dashboard          *)
(* (services.py, routers/listings.py) or from the command line, and what   *)
(* the doctor (readiness.py) says of those rows and files.                 *)
(*                                                                         *)
(* BridgeBackend leaves open why a matched listing gets no reply and what  *)
(* a reply is made of; here is that part of the request, one reply at a    *)
(* time, for it has the write transaction from its stage run to its last   *)
(* part.  Rows of the dashboard's threads wait for it; files do not.       *)
(*                                                                         *)
(* A look-up and the write it allows are two steps of a request            *)
(* ("pending"), for the write may wait for the transaction of another; so  *)
(* are a file and its row.  Rows have the ids SQLite gives them, and what  *)
(* was looked up is written and deleted by id: the largest id of a table   *)
(* is given again once its row is deleted.  Texts are told apart by how    *)
(* they render, files by how their rows spell them.                        *)
(***************************************************************************)
EXTENDS Naturals, SequencesExt

CONSTANTS
    Listings,
    Files,          \* media files, in the managed directory or not
    ListingOf,      \* [Files -> Listings]: the listing whose media they are
    FileOrder,      \* Files by the sort order of their rows
    Spelling,       \* [Files -> how the row names the file]
    BackendAtRoot,  \* the backend runs in the repository's directory
    Payloads,       \* Playbook contents the operator may send
    Starter,        \* STARTER_INITIAL_REPLY_BLOCKS
    Demo,           \* listings with an entry in the seed file or its default Playbooks
    MaxId,          \* bound: ids of a table
    MaxReplies,     \* bound: replies
    MaxOperations   \* bound: operations of the operator, restarts

(***************************************************************************)
(* How a Playbook block renders.  "text": to itself; "notes": to the       *)
(* tenant notes of the listing, which may be blank; "malformed": a text    *)
(* that the validation lets through and str.format refuses ("{}",          *)
(* "{rent.x}"); "unsupported": a placeholder the validation knows not.     *)
(***************************************************************************)
Block == {"text", "notes", "malformed", "unsupported", "delay", "gallery"}

ASSUME ListingAssumption ==
    /\ Listings # {} /\ ListingOf \in [Files -> Listings]
    /\ FileOrder \in Seq(Files) /\ ToSet(FileOrder) = Files /\ IsInjective(FileOrder)
    /\ Spelling \in [Files -> {"absolute", "relative", "home"}] /\ BackendAtRoot \in BOOLEAN
    /\ Payloads \subseteq Seq(Block)
    /\ Starter \in Seq(Block \ {"unsupported"}) /\ Starter # << >>
    /\ Demo \subseteq Listings
    /\ MaxId \in Nat /\ MaxReplies \in Nat /\ MaxOperations \in Nat

VARIABLES
    listing,    \* rows of properties
    playbook,   \* rows of property_playbooks
    media,      \* rows of property_media
    disk,       \* files that exist, under the names their rows mean
    pending,    \* dashboard and command-line requests between two of their steps
    reply,      \* the reply in progress, or the last one
    budget

vars == <<listing, playbook, media, disk, pending, reply, budget>>

Ids == 1..MaxId

\* "other": the status is any string.
Details    == [status : {"available", "unavailable", "unknown", "other"}, notes : BOOLEAN]
NoListing  == [id |-> 0, status |-> "none", notes |-> FALSE]
ListingRow == {NoListing} \cup
    [id : Ids, status : {"available", "unavailable", "unknown", "other"}, notes : BOOLEAN]

Switch      == {"enabled", "disabled"}
Contents    == [state : Switch, blocks : Seq(Block)]
NoPlaybook  == [id |-> 0, state |-> "none", blocks |-> << >>]
PlaybookRow == {NoPlaybook} \cup [id : Ids, state : Switch, blocks : Seq(Block)]
StarterRow  == [state |-> "enabled", blocks |-> Starter]

NoMedia  == [id |-> 0, state |-> "none"]
MediaRow == {NoMedia} \cup [id : Ids, state : Switch]

\* "nr" is the operation the request is; "was" is the row it found, and "row"
\* or "state" what it is to hold.  What is deleted is known by its ids.
Pending ==
    [op : {"listing"}, nr : 1..MaxOperations, listing : Listings, was : ListingRow, row : Details]
    \cup [op : {"save"}, nr : 1..MaxOperations, listing : Listings, was : PlaybookRow,
          row : Contents]
    \cup [op : {"seed"}, nr : 1..MaxOperations, listing : Listings, was : {NoPlaybook},
          row : {StarterRow}]
    \cup [op : {"media"}, nr : 1..MaxOperations, file : Files, was : MediaRow, state : Switch]
    \cup [op : {"stored"}, nr : 1..MaxOperations, file : Files]
    \cup [op : {"delete"}, nr : 1..MaxOperations,
          listings : SUBSET Ids, playbooks : SUBSET Ids, media : SUBSET Ids]
    \cup [op : {"prune", "unlinked"}, nr : 1..MaxOperations,
          listings : {{}}, playbooks : SUBSET Ids, media : SUBSET Ids]

Outcome == {"none", "manual_review", "not_attempted", "gated", "unrenderable",
            "empty", "media_missing", "partial", "sent", "crashed"}

Reply == [pc      : {"idle", "matched", "plan", "send"},
          kind    : {"whatsapp", "fake_chat"},
          listing : Listings,
          locked  : BOOLEAN,          \* the request has the write transaction
          replayed : BOOLEAN,         \* it had none when it read the listing
          held    : ListingRow,          \* the Property object of the session
          parts   : Seq(Block),       \* rendered
          files   : Seq(Files),       \* media rows of the gallery
          next    : Nat,              \* part to go on with
          queue   : Seq(Files),       \* media of the gallery still to send
          mediaSent : BOOLEAN,
          sent    : Seq(Block \cup Files),
          outcome : Outcome]

NoReply == [pc |-> "idle", kind |-> "whatsapp", listing |-> CHOOSE l \in Listings : TRUE,
            locked |-> FALSE, replayed |-> FALSE, held |-> NoListing, parts |-> << >>,
            files |-> << >>, next |-> 1, queue |-> << >>, mediaSent |-> FALSE,
            sent |-> << >>, outcome |-> "none"]

\* Mutant: placeholders are not looked at.
AcceptAll(blocks) == TRUE

\* validate_playbook_payload
Accepted(blocks) == ~Contains(blocks, "unsupported")

\* The rows of a table have ids of their own.
OwnIds(table) ==
    \A i, j \in DOMAIN table : table[i].id = table[j].id /\ table[i].id # 0 => i = j

\* The operator has configured listings, with or without files for their media.
Init ==
    /\ listing \in [Listings -> ListingRow]
    /\ playbook \in [Listings -> {NoPlaybook} \cup
                        [id : Ids, state : Switch, blocks : {b \in Payloads : Accepted(b)}]]
    /\ media \in [Files -> MediaRow]
    /\ OwnIds(listing) /\ OwnIds(playbook) /\ OwnIds(media)
    /\ \A l \in Listings : listing[l] = NoListing => playbook[l] = NoPlaybook
    /\ \A f \in Files : listing[ListingOf[f]] = NoListing => media[f] = NoMedia
    /\ disk \in SUBSET Files
    /\ pending = {}
    /\ reply = NoReply
    /\ budget = [replies |-> 0, operations |-> 0]

Exists(l) == listing[l] # NoListing

-----------------------------------------------------------------------------
(***************************************************************************)
(* Rendering                                                               *)
(***************************************************************************)

\* str.format raises in one of the messages.
RenderFails(blocks) == \E i \in DOMAIN blocks : blocks[i] \in {"malformed", "unsupported"}

\* The elements of s that are in S, in their order.
Among(s, S) == FlattenSeq([i \in DOMAIN s |-> IF s[i] \in S THEN <<s[i]>> ELSE << >>])

\* render_playbook_blocks leaves out a message that renders to nothing.
Render(blocks, details) ==
    Among(blocks, IF details.notes THEN Block ELSE Block \ {"notes"})

\* list_property_media, without the disabled rows.
Gallery(l) == Among(FileOrder, {f \in Files : ListingOf[f] = l /\ media[f].state = "enabled"})

GalleryOf(l, parts) == IF Contains(parts, "gallery") THEN Gallery(l) ELSE << >>

-----------------------------------------------------------------------------
(***************************************************************************)
(* The reply of a request that is about to use the answer of the model.    *)
(***************************************************************************)

End(outcome) ==
    reply' = [reply EXCEPT !.pc = "idle", !.locked = FALSE, !.outcome = outcome]

ReplyOnly == UNCHANGED <<listing, playbook, media, disk, pending, budget>>

\* The model names one listing, perhaps one that is gone; the request already
\* has the write transaction, unless its messages were all stored before.
Match(l) ==
    /\ reply.pc = "idle" /\ budget.replies < MaxReplies
    /\ \E kind \in {"whatsapp", "fake_chat"}, replayed \in BOOLEAN :
           reply' = [NoReply EXCEPT !.pc = "matched", !.kind = kind, !.listing = l,
                                    !.locked = ~replayed, !.replayed = replayed,
                                    !.held = listing[l]]
    /\ budget' = [budget EXCEPT !.replies = @ + 1]
    /\ UNCHANGED <<listing, playbook, media, disk, pending>>

\* No such listing, or its availability is unknown, or it is not available.
Stops == {"none", "unknown", "unavailable"}

\* Mutant: the result is the status of the listing.
ListingStatusIsResult ==
    /\ reply.pc = "matched" /\ reply.held.status \in Stops
    /\ End(reply.held.status) /\ ReplyOnly

ListingManualReview ==
    /\ reply.pc = "matched" /\ reply.held.status \in Stops
    /\ End("manual_review") /\ ReplyOnly

\* Any other status goes on.  record_stage_run flushes: from here on the request
\* is the writer.
ListingAvailable ==
    /\ reply.pc = "matched" /\ reply.held.status \notin Stops
    /\ reply' = [reply EXCEPT !.pc = "plan", !.locked = TRUE]
    /\ ReplyOnly

\* _playbook_action
HasPlaybookAction(l) == playbook[l].state = "enabled" /\ playbook[l].blocks # << >>

PlanNothing ==
    /\ reply.pc = "plan" /\ ~HasPlaybookAction(reply.listing)
    /\ End("not_attempted") /\ ReplyOnly

Planned == reply.pc = "plan" /\ HasPlaybookAction(reply.listing)

\* An automated reply sent before, or one of the gates of BridgeBackend.
SendGated == Planned /\ End("gated") /\ ReplyOnly

CannotRender ==
    /\ Planned /\ RenderFails(playbook[reply.listing].blocks)
    /\ End("unrenderable") /\ ReplyOnly

\* The object of the session is not read again; a row that was made after the
\* first look-up has an object of its own; a row that is gone renders as blank.
Shown == IF Exists(reply.listing) THEN {reply.held, listing[reply.listing]} ELSE {NoListing}

\* A path is taken as it is, by each process in its own directory; the bridge's
\* is bridge/, and neither knows "~".  A relative path means the repository.
BackendFinds(f) ==
    /\ f \in disk
    /\ Spelling[f] = "absolute" \/ (Spelling[f] = "relative" /\ BackendAtRoot)

BridgeFinds(f) == f \in disk /\ Spelling[f] = "absolute"

\* Mutant: the files are not looked at before the first part is sent.
NoMissingMedia(parts) == FALSE

\* _sendable_property_media; the simulator sends no file.
MissingMedia(parts) ==
    /\ reply.kind # "fake_chat"
    /\ \E f \in ToSet(GalleryOf(reply.listing, parts)) : ~BackendFinds(f)

RenderReply ==
    /\ Planned /\ ~RenderFails(playbook[reply.listing].blocks)
    /\ \E details \in Shown :
           LET parts == Render(playbook[reply.listing].blocks, details)
           IN  \/ parts = << >> /\ End("empty")
               \/ parts # << >> /\ MissingMedia(parts) /\ End("media_missing")
               \/ /\ parts # << >> /\ ~MissingMedia(parts)
                  /\ reply' = [reply EXCEPT !.pc = "send", !.parts = parts,
                                            !.files = GalleryOf(reply.listing, parts)]
    /\ ReplyOnly

-----------------------------------------------------------------------------
(***************************************************************************)
(* _send_action                                                            *)
(***************************************************************************)
Sending == reply.pc = "send" /\ reply.queue = << >> /\ reply.next <= Len(reply.parts)

Part == reply.parts[reply.next]

SendText ==
    /\ Sending /\ Part \notin {"delay", "gallery"}
    /\ reply' = [reply EXCEPT !.sent = Append(@, Part), !.next = @ + 1]
    /\ ReplyOnly

Wait ==
    /\ Sending /\ Part = "delay"
    /\ reply' = [reply EXCEPT !.next = @ + 1]
    /\ ReplyOnly

\* Mutant: every gallery block sends the gallery.
OpenGalleryAgain ==
    /\ Sending /\ Part = "gallery"
    /\ reply' = [reply EXCEPT !.next = @ + 1, !.queue = reply.files]
    /\ ReplyOnly

\* The gallery is sent once, at its first block.
OpenGallery ==
    /\ Sending /\ Part = "gallery"
    /\ reply' = [reply EXCEPT !.next = @ + 1, !.mediaSent = TRUE,
                              !.queue = IF reply.mediaSent THEN << >> ELSE reply.files]
    /\ ReplyOnly

\* The bridge reads the file itself when it is asked to send it.
SendMedia ==
    /\ reply.pc = "send" /\ reply.queue # << >>
    /\ reply.kind # "fake_chat" => BridgeFinds(Head(reply.queue))
    /\ reply' = [reply EXCEPT !.sent = Append(@, Head(reply.queue)), !.queue = Tail(@)]
    /\ ReplyOnly

\* The bridge refuses the part or cannot be reached, after the retries.
SendFails ==
    /\ reply.pc = "send" /\ reply.kind # "fake_chat"
    /\ \/ reply.queue # << >>
       \/ Sending /\ Part \notin {"delay", "gallery"}
    /\ End("partial") /\ ReplyOnly

SendEnds ==
    /\ reply.pc = "send" /\ reply.queue = << >> /\ reply.next > Len(reply.parts)
    /\ End("sent") /\ ReplyOnly

-----------------------------------------------------------------------------
(***************************************************************************)
(* The operator: requests of the dashboard, in threads, and commands.      *)
(***************************************************************************)
Operate == /\ budget.operations < MaxOperations
           /\ budget' = [budget EXCEPT !.operations = @ + 1]

\* Mutant: a row is written beside the open transaction of the reply.
CanCommitAlways == TRUE

CanCommit == ~reply.locked

\* A request of its own, with all that the next step uses.
Begin(request) == pending' = pending \cup {request}

Nr == budget.operations + 1

\* SQLite gives a new row the id after the largest.
NewId(table) == 1 + Max({table[i].id : i \in DOMAIN table})

\* Mutant: no unique constraint; the later row is the one that is found.
InsertsAlways(row) == TRUE

\* The unique constraint refuses a second row.
Inserts(row) == row.id = 0

\* The ORM writes only the columns that differ from the row it looked up.
Column(now, was, new) == IF new # was THEN new ELSE now

WithoutIds(table, ids, none) ==
    [i \in DOMAIN table |-> IF table[i].id \in ids THEN none ELSE table[i]]

\* upsert_property up to its look-up ...
BeginSaveListing(l) ==
    /\ Operate
    /\ \E details \in Details :
           Begin([op |-> "listing", nr |-> Nr, listing |-> l, was |-> listing[l], row |-> details])
    /\ UNCHANGED <<listing, playbook, media, disk, reply>>

InsertListing(l, details) ==
    /\ CanCommit /\ Inserts(listing[l]) /\ NewId(listing) \in Ids
    /\ listing' = [listing EXCEPT ![l] =
           [id |-> NewId(listing), status |-> details.status, notes |-> details.notes]]

UpdateListing(was, details) ==
    /\ CanCommit
    /\ listing' = [l \in Listings |->
           IF listing[l].id # was.id THEN listing[l]
           ELSE [listing[l] EXCEPT !.status = Column(@, was.status, details.status),
                                   !.notes  = Column(@, was.notes, details.notes)]]

\* ... and its commit, or an error: the row came or went, or the database is
\* locked for too long.  This and the other commits write to the row that has
\* the id now.
WriteListing(request) ==
    /\ request \in pending /\ request.op = "listing"
    /\ \/ request.was = NoListing /\ InsertListing(request.listing, request.row)
       \/ request.was # NoListing /\ UpdateListing(request.was, request.row)
       \/ listing' = listing
    /\ pending' = pending \ {request}
    /\ UNCHANGED <<playbook, media, disk, reply, budget>>

MediaRows(l) == {f \in Files : ListingOf[f] = l /\ media[f] # NoMedia}

\* delete_properties up to its look-ups, the one of the flush included ...
BeginDelete(those) ==
    /\ Operate /\ those # {} /\ \A l \in those : Exists(l)
    /\ Begin([op |-> "delete", nr |-> Nr,
              listings  |-> {listing[l].id : l \in those},
              playbooks |-> {playbook[l].id : l \in those} \ {0},
              media     |-> {media[f].id : f \in UNION {MediaRows(l) : l \in those}}])
    /\ UNCHANGED <<listing, playbook, media, disk, reply>>

\* ... prune-playbooks up to its look-up ...
BeginPrune(kept) ==
    /\ Operate
    /\ Begin([op |-> "prune", nr |-> Nr, listings |-> {}, media |-> {},
              playbooks |-> {playbook[l].id : l \in Listings \ kept} \ {0}])
    /\ UNCHANGED <<listing, playbook, media, disk, reply>>

\* Mutant: the Playbook rows are left.
DeleteWithoutPlaybooks(request) ==
    /\ CanCommit
    /\ listing' = WithoutIds(listing, request.listings, NoListing)
    /\ media' = WithoutIds(media, request.media, NoMedia)
    /\ playbook' = playbook

\* ... and the deletions of both, when they have the database: the rows with the
\* ids that were found, no row that came meanwhile, and none of the files.
Delete(request) ==
    /\ CanCommit
    /\ listing' = WithoutIds(listing, request.listings, NoListing)
    /\ playbook' = WithoutIds(playbook, request.playbooks, NoPlaybook)
    /\ media' = WithoutIds(media, request.media, NoMedia)

\* delete_property_media_route: the file first, whatever transaction is open ...
UnlinkMedia(f) ==
    /\ Operate /\ media[f] # NoMedia
    /\ disk' \in {disk \ {f}, disk}      \* outside the media root it stays
    /\ Begin([op |-> "unlinked", nr |-> Nr, listings |-> {}, playbooks |-> {},
              media |-> {media[f].id}])
    /\ UNCHANGED <<listing, playbook, media, reply>>

\* ... and its row, as the rows of the other deletions: or an error.
DeleteRows(request) ==
    /\ request \in pending /\ request.op \in {"delete", "prune", "unlinked"}
    /\ Delete(request) \/ UNCHANGED <<listing, playbook, media>>
    /\ pending' = pending \ {request}
    /\ UNCHANGED <<disk, reply, budget>>

\* upsert_property_playbook up to its look-ups ...
BeginSavePlaybook(l) ==
    /\ Operate /\ Exists(l)
    /\ \E state \in Switch, blocks \in Payloads :
           /\ Accepted(blocks)
           /\ Begin([op |-> "save", nr |-> Nr, listing |-> l, was |-> playbook[l],
                     row |-> [state |-> state, blocks |-> blocks]])
    /\ UNCHANGED <<listing, playbook, media, disk, reply>>

\* ... and seed-playbooks: ensure_starter_property_playbook, for a listing.
BeginSeedPlaybook(l) ==
    /\ Operate /\ Exists(l) /\ playbook[l] = NoPlaybook
    /\ Begin([op |-> "seed", nr |-> Nr, listing |-> l, was |-> NoPlaybook, row |-> StarterRow])
    /\ UNCHANGED <<listing, playbook, media, disk, reply>>

InsertPlaybook(l, row) ==
    /\ CanCommit /\ Inserts(playbook[l]) /\ NewId(playbook) \in Ids
    /\ playbook' = [playbook EXCEPT ![l] =
           [id |-> NewId(playbook), state |-> row.state, blocks |-> row.blocks]]

UpdatePlaybook(was, row) ==
    /\ CanCommit
    /\ playbook' = [l \in Listings |->
           IF playbook[l].id # was.id THEN playbook[l]
           ELSE [playbook[l] EXCEPT !.state  = Column(@, was.state, row.state),
                                    !.blocks = Column(@, was.blocks, row.blocks)]]

WritePlaybook(request) ==
    /\ request \in pending /\ request.op \in {"save", "seed"}
    /\ \/ request.was = NoPlaybook /\ InsertPlaybook(request.listing, request.row)
       \/ request.was # NoPlaybook /\ UpdatePlaybook(request.was, request.row)
       \/ playbook' = playbook
    /\ pending' = pending \ {request}
    /\ UNCHANGED <<listing, media, disk, reply, budget>>

\* create_or_update_property_media: a path the operator names, up to the look-ups.
BeginSaveMedia(f) ==
    /\ Operate /\ Exists(ListingOf[f])
    /\ \E state \in Switch :
           Begin([op |-> "media", nr |-> Nr, file |-> f, was |-> media[f], state |-> state])
    /\ UNCHANGED <<listing, playbook, media, disk, reply>>

\* upload_property_media_route: a new file is stored under the absolute path of
\* the media root, then the listing is looked up again, then the row is written.
StoreUpload(f) ==
    /\ Operate /\ Exists(ListingOf[f])
    /\ f \notin disk /\ media[f] = NoMedia /\ Spelling[f] = "absolute"
    /\ disk' = disk \cup {f}
    /\ Begin([op |-> "stored", nr |-> Nr, file |-> f])
    /\ UNCHANGED <<listing, playbook, media, reply>>

LookUpAgain(request) ==
    /\ request \in pending /\ request.op = "stored"
    /\ IF Exists(ListingOf[request.file])
       THEN /\ \E state \in Switch :
                  pending' = (pending \ {request}) \cup
                      {[op |-> "media", nr |-> request.nr, file |-> request.file,
                        was |-> NoMedia, state |-> state]}
            /\ disk' = disk
       ELSE pending' = pending \ {request} /\ disk' = disk \ {request.file}
    /\ UNCHANGED <<listing, playbook, media, reply, budget>>

InsertMedia(f, state) ==
    /\ CanCommit /\ Inserts(media[f]) /\ NewId(media) \in Ids
    /\ media' = [media EXCEPT ![f] = [id |-> NewId(media), state |-> state]]

UpdateMedia(was, state) ==
    /\ CanCommit
    /\ media' = [f \in Files |->
           IF media[f].id # was.id THEN media[f]
           ELSE [media[f] EXCEPT !.state = Column(@, was.state, state)]]

WriteMedia(request) ==
    /\ request \in pending /\ request.op = "media"
    /\ \/ request.was = NoMedia /\ InsertMedia(request.file, request.state)
       \/ request.was # NoMedia /\ UpdateMedia(request.was, request.state)
       \/ media' = media
    /\ pending' = pending \ {request}
    /\ UNCHANGED <<listing, playbook, disk, reply, budget>>

\* The rows a start adds to a table, one after the other.
Added(table, new) ==
    {ids \in [new -> Ids] :
        IsInjective(ids) /\ \A i \in new : ids[i] < NewId(table) + Cardinality(new)
                                           /\ ids[i] >= NewId(table)}

\* The backend stops with its requests, not with those of the command line, and
\* seeds the database when it starts: missing demo listings, unless the setting
\* says no, and starter Playbooks for those that had none.  The select of these
\* does not see the listings added before it, which are not flushed.
Restart ==
    /\ Operate
    /\ pending' = {request \in pending : request.op \in {"seed", "prune"}}
    /\ reply' = [reply EXCEPT !.pc = "idle", !.locked = FALSE,
                              !.outcome = IF reply.pc = "idle" THEN @ ELSE "crashed"]
    /\ \E new \in {{}, {l \in Demo : ~Exists(l)}}, status \in {"available", "unavailable"},
          notes \in BOOLEAN : \E ids \in Added(listing, new) :
              listing' = [l \in Listings |->
                  IF l \in new THEN [id |-> ids[l], status |-> status, notes |-> notes]
                  ELSE listing[l]]
    /\ LET new == {l \in Demo : Exists(l) /\ playbook[l] = NoPlaybook}
       IN  \E ids \in Added(playbook, new) :
              playbook' = [l \in Listings |->
                  IF l \in new THEN [id |-> ids[l], state |-> "enabled", blocks |-> Starter]
                  ELSE playbook[l]]
    /\ UNCHANGED <<media, disk>>

-----------------------------------------------------------------------------
Next ==
    \/ \E l \in Listings :
           \/ Match(l)
           \/ BeginSaveListing(l) \/ BeginSavePlaybook(l) \/ BeginSeedPlaybook(l)
    \/ \E those \in SUBSET Listings : BeginDelete(those) \/ BeginPrune(those)
    \/ ListingManualReview \/ ListingAvailable
    \/ PlanNothing \/ SendGated \/ CannotRender \/ RenderReply
    \/ SendText \/ Wait \/ OpenGallery \/ SendMedia \/ SendFails \/ SendEnds
    \/ \E f \in Files : BeginSaveMedia(f) \/ StoreUpload(f) \/ UnlinkMedia(f)
    \/ \E request \in pending :
           \/ WriteListing(request) \/ WritePlaybook(request) \/ WriteMedia(request)
           \/ LookUpAgain(request) \/ DeleteRows(request)
    \/ Restart

Spec == Init /\ [][Next]_vars

-----------------------------------------------------------------------------
(***************************************************************************)
(* The doctor, with --strict-runtime; of its checks those on these rows.   *)
(***************************************************************************)

\* Mutant: a Playbook row counts, enabled or not.
AnyPlaybookCovers(l) == playbook[l] # NoPlaybook

EnabledPlaybookCovers(l) == playbook[l].state = "enabled"

\* check_listing_playbook_coverage
CoveragePasses ==
    /\ \E l \in Listings : Exists(l)
    /\ \E l \in Listings : playbook[l].state = "enabled"
    /\ \A l \in Listings : listing[l].status = "available" => EnabledPlaybookCovers(l)

\* The doctor knows "~", and takes a relative path from the repository.
DoctorFinds(f) == f \in disk

\* check_media_references; that the files must be in the media root, and no
\* links, only makes it stricter.
MediaPasses == \A f \in Files : media[f].state = "enabled" => DoctorFinds(f)

StrictDoctorPasses == CoveragePasses /\ MediaPasses

-----------------------------------------------------------------------------
\* Every variable has its type.
TypeOK ==
    /\ listing \in [Listings -> ListingRow]
    /\ playbook \in [Listings -> PlaybookRow]
    /\ media \in [Files -> MediaRow]
    /\ disk \in SUBSET Files
    /\ pending \subseteq Pending
    /\ reply \in Reply
    /\ budget \in [replies : 0..MaxReplies, operations : 0..MaxOperations]

\* What the parts of a reply consist of for the tenant ...
Pieces(parts, files) ==
    [i \in DOMAIN parts |->
        CASE parts[i] = "delay"   -> << >>
          [] parts[i] = "gallery" ->
                 IF \E j \in 1..(i - 1) : parts[j] = "gallery" THEN << >> ELSE files
          [] OTHER                -> <<parts[i]>>]

\* ... one after the other.
Deliveries(parts, files) == FlattenSeq(Pieces(parts, files))

\* What the tenant got so far is the beginning of the Playbook, in its order and
\* with the gallery once; a reply that is called sent is all of it.
SentInPlaybookOrder ==
    /\ IsPrefix(reply.sent, Deliveries(reply.parts, reply.files))
    /\ reply.outcome = "sent" => reply.sent = Deliveries(reply.parts, reply.files)

\* While a reply is being sent, for as long as it takes, its rows are those it
\* was made from: the Playbook is enabled and has its blocks, the gallery is the
\* listing's, and, unless the batch was a replay, the listing is as it was read;
\* it was neither unknown nor unavailable then.
RowsStandBehindReply ==
    reply.pc = "send" =>
        LET row == playbook[reply.listing]
        IN  /\ row.state = "enabled"
            /\ reply.parts \in {Render(row.blocks, [notes |-> notes]) : notes \in BOOLEAN}
            /\ reply.files = GalleryOf(reply.listing, reply.parts)
            /\ reply.held.status \notin Stops
            /\ ~reply.replayed =>
                   /\ listing[reply.listing] = reply.held
                   /\ reply.parts = Render(row.blocks, listing[reply.listing])

\* A reply that no operation overlaps stops for want of a file only when a row
\* spells it from the repository's directory, where the backend looks and the
\* bridge does not: it is not begun while the backend misses a file.
FilesAreThere ==
    reply.pc = "send" /\ reply.kind = "whatsapp" /\ budget.operations = 0 =>
        \A f \in ToSet(reply.files) : BridgeFinds(f) \/ Spelling[f] = "relative"

\* What is sent is backed by rows, and by files when the sending begins.
ReplyIsBacked == RowsStandBehindReply /\ FilesAreThere

\* Of the Playbooks the validation lets through, only one with a malformed text
\* is refused when it is rendered.
AcceptedPlaybooksRender ==
    [][ reply.pc = "plan" /\ reply'.outcome = "unrenderable" =>
            Contains(playbook[reply.listing].blocks, "malformed") ]_vars

\* When the strict doctor is content, an available listing that is matched is
\* left without a reply only for what the doctor does not see: an enabled
\* Playbook without blocks or with nothing but notes, or a media row whose path
\* the backend takes differently.  (A gallery with no media is "sent" unsaid.)
DoctorForeseesSilence ==
    [][ /\ reply.pc = "plan" /\ listing[reply.listing].status = "available"
        /\ StrictDoctorPasses
        => /\ reply'.outcome = "not_attempted" => playbook[reply.listing].blocks = << >>
           /\ reply'.outcome = "empty" => ToSet(playbook[reply.listing].blocks) = {"notes"}
           /\ reply'.outcome = "media_missing" =>
                 \E f \in Files : /\ ListingOf[f] = reply.listing /\ media[f].state = "enabled"
                                  /\ Spelling[f] # "absolute" ]_vars

\* A matched tenant who gets nothing was to be expected: from the text of the
\* Playbook, or from what the doctor says.
SilenceIsForeseen == AcceptedPlaybooksRender /\ DoctorForeseesSilence

Orphan(l) == ~Exists(l) /\ (playbook[l] # NoPlaybook \/ MediaRows(l) # {})

\* Rows without a listing appear only when a request that saw the listing writes
\* after the deletion, or when a Playbook or a media row is made between the
\* look-ups of the deletion and its commit.
OrphansOnlyFromRaces ==
    [][ \A l \in Listings : ~Orphan(l) /\ Orphan(l)' =>
          \/ ~Exists(l)
          \/ \E request \in pending \ pending' :
                /\ request.op = "delete" /\ listing[l].id \in request.listings
                /\ \/ playbook[l] # NoPlaybook /\ playbook[l].id \notin request.playbooks
                   \/ \E f \in MediaRows(l) : media[f].id \notin request.media ]_vars

\* A starter Playbook, of a command or of a start, is only put where there is
\* none: a row that stays changes by the operator's save alone, each column to
\* what the operator sent or not at all, whatever overlaps.
StarterNeverReplaces ==
    [][ \A l \in Listings :
          playbook[l] # NoPlaybook /\ playbook'[l] \notin {playbook[l], NoPlaybook} =>
              /\ playbook'[l].id = playbook[l].id
              /\ \E request \in pending \ pending' :
                    /\ request.op = "save"
                    /\ playbook'[l].state \in {playbook[l].state, request.row.state}
                    /\ playbook'[l].blocks \in {playbook[l].blocks, request.row.blocks} ]_vars

=============================================================================
