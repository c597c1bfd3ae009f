----------------------------- MODULE MCTrackers -----------------------------
(***************************************************************************)
(* What the tracker sketches read and what they send, checked side by      *)
(* side: a behaviour is one of a single part, and the others rest in their *)
(* initial states.                                                         *)
(*                                                                         *)
(*   feed     GpsFeed, where what gets through between two gaps may be no  *)
(*            more than the shortest sentence; the third sentence is sent  *)
(*            where there was one gap at most in the first two             *)
(*   late     GsmTracker, any answer late, anything but the body refused   *)
(*   posts    GsmTracker, as unreliable as its loop survives: late before  *)
(*            the prompt of the post only, which brings sketch and modem   *)
(*            back into step, and nothing refused that a post needs        *)
(***************************************************************************)
EXTENDS GsmTracker, GpsFeed

VARIABLES
    part,
    postsStale   \* stale, of the part posts

allVars == <<part, vars, postsStale, feedVars>>

MCMayFail == {Commands[n] : n \in Steps} \ {"BODY"}
MCMayBeLate == {Commands[n] : n \in Steps}

\* CMGF and CSCS choose the format of an SMS; their answers are looked for
\* where those of the post are.
Posts == INSTANCE GsmTracker
             WITH MayFail <- MayBeLate \ {"CMGF", "CSCS", "INIT", "DATA"},
                  MayBeLate <- {"INIT", "URL", "CONTENT", "DATA"},
                  stale <- postsStale

ASSUME TrackerConstants /\ Posts!TrackerConstants

MCInit ==
    /\ part \in {"feed", "late", "posts"}
    /\ FeedInit /\ Init /\ postsStale = FALSE
    /\ part # "feed" => kind = CHOOSE k \in Kinds : TRUE

Posting(Step) == part = "posts" /\ Step /\ UNCHANGED <<part, stale, feedVars>>

MCNext ==
    \/ part = "feed" /\ (gaps < 2 \/ id <= 2) /\ FeedNext /\ UNCHANGED <<part, vars, postsStale>>
    \/ part = "late" /\ Next /\ UNCHANGED <<part, postsStale, feedVars>>
    \/ Posting(Posts!Next)

\* The fairness of GsmTracker; the receiver needs none.
MCSpec ==
    /\ MCInit /\ [][MCNext]_allVars
    /\ WF_allVars(Posting(Posts!Sketch)) /\ WF_allVars(Posting(Posts!Modem))

-----------------------------------------------------------------------------

\* KeepsPosting of GsmTracker, as unreliable as its loop survives: round
\* follows round.
PostsGoOn == part = "posts" => KeepsPosting
=============================================================================
