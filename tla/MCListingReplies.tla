-------------------------- MODULE MCListingReplies --------------------------
(***************************************************************************)
(* Instances of ListingReplies for TLC: two listings, one with media files *)
(* whose rows spell their paths in the three ways.                         *)
(***************************************************************************)
EXTENDS ListingReplies

CONSTANTS l1, l2, f1, f2, f3

MediaListing == [f \in Files |-> l1]
Order        == <<f1, f2, f3>>
Spellings    == f1 :> "absolute" @@ f2 :> "relative" @@ f3 :> "home"

StarterBlocks == <<"text", "gallery">>

\* Gallery twice, notes and a delay; notes only; a text that does not render
\* after one that does; a placeholder that is not accepted; nothing.
Texts == {<<"text", "gallery", "notes", "delay", "gallery">>, <<"notes">>,
          <<"text", "malformed">>, <<"unsupported">>, << >>}

\* No listing, or one configured in several ways, with media rows enabled and
\* files only where there are rows, and an ordinary listing beside it, with or
\* without its Playbook; media files vary where there is a gallery.  The rest of
\* Init is an operation away.
MCInit ==
    /\ \E row \in {NoListing, [id |-> 1, status |-> "other", notes |-> TRUE]}
                 \cup [id : {1}, status : {"available"}, notes : BOOLEAN] :
           listing = (l1 :> row @@ l2 :> [id |-> 2, status |-> "available", notes |-> TRUE])
    /\ \E first \in {NoPlaybook} \cup [id : {2}, state : {"enabled"},
                                       blocks : {blocks \in Texts : Accepted(blocks)}],
          second \in {NoPlaybook, [id |-> 1, state |-> "enabled", blocks |-> <<"notes">>]} :
           playbook = (l1 :> first @@ l2 :> second)
    /\ \E rows \in {{}, {f1}, {f1, f2}, {f3}} :
           media = [f \in Files |->
               IF f \in rows THEN [id |-> CHOOSE i \in 1..3 : Order[i] = f, state |-> "enabled"]
               ELSE NoMedia]
    /\ \E gone \in SUBSET {f1} : disk = {f \in Files : media[f] # NoMedia} \ gone
    /\ listing[l1] = NoListing <=> \A f \in Files : media[f] = NoMedia
    /\ \/ disk \in {{}, {f1}} /\ disk = {f \in Files : media[f] # NoMedia}
       \/ /\ listing[l1].status = "available" /\ listing[l1].notes
          /\ Contains(playbook[l1].blocks, "gallery") /\ playbook[l2] # NoPlaybook
    /\ Init

\* Bound: two replies or operations, or three operations if those at work in the
\* third are on Playbooks; no new texts for the second listing.
MCNext ==
    /\ Next
    /\ budget' # budget =>
           \/ budget'.replies + budget'.operations <= 2
           \/ /\ budget'.operations = 3 /\ UNCHANGED <<listing, media, disk, reply>>
              /\ \A request \in pending' : request.op \in {"save", "seed", "prune"}
    /\ \A request \in pending' : request.op \in {"listing", "save"} => request.listing # l2

MCSpec == MCInit /\ [][MCNext]_vars

============================================================================
