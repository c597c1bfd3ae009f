------------------------------ MODULE GpsFeed ------------------------------
(***************************************************************************)
(* A GPS receiver talking to the parser over a serial line that loses      *)
(* characters: a sketch that waits leaves the receive buffer full, and     *)
(* what arrives then is dropped, up to the next read().  gpscheck.txt      *)
(* empties its buffer before each delay(), so that all of a buffer comes   *)
(* through between two such gaps.  NavIC_GPS.txt posts and waits inside    *)
(* its read loop, after each sentence that passed: there it is what was    *)
(* read since, a short sentence at the least.                              *)
(***************************************************************************)
EXTENDS TinyGpsPlus

CONSTANTS
    Kinds,         \* the kinds of sentence the receiver sends
    MaxSentences,  \* sentences sent
    MaxGaps,       \* gaps
    Buffer         \* characters that get through between two gaps

ASSUME FeedAssumption ==
    /\ MaxSentences \in Nat /\ MaxGaps \in Nat /\ Buffer \in Nat
    /\ Kinds \subseteq {"rmc", "rmcNoFix", "gga", "ggaNoFix", "other"}

VARIABLES
    id,       \* the number of the sentence being sent
    kind,     \* its kind
    pos,      \* characters of it sent
    gap,      \* the last character was lost
    gaps,     \* gaps so far
    through,  \* characters received since the last gap
    whole,    \* history: nothing of this sentence was lost
    cuts,     \* history: gaps since the last $ the parser received, two at most
    sumOf,    \* history: the sentence whose checksum was received last
    passed,   \* history: sentences whose own checksum let something be committed
    doubtful  \* history: the checksum that last let a location be committed
              \* matched by luck, or after two gaps

feed == <<id, kind, pos, gap, gaps, through, whole, cuts, sumOf, passed, doubtful>>
feedVars == <<parser, feed>>

\* What the receiver says of sentence s; without a fix only
\* the time, the date and the number of satellites are known.
Body(k, s) ==
    CASE k = "rmc" ->
             << <<"RMC", 0>>, Comma, <<"time", s>>, Comma, <<"A", 0>>, Comma, <<"lat", s>>, Comma, <<"N", 0>>,
                Comma, <<"lng", s>>, Comma, <<"E", 0>>, Comma, <<"speed", s>>, Comma, <<"course", s>>,
                Comma, <<"date", s>> >>
      [] k = "rmcNoFix" ->
             << <<"RMC", 0>>, Comma, <<"time", s>>, Comma, <<"V", 0>>, Comma, Comma, Comma, Comma,
                Comma, Comma, Comma, <<"date", s>> >>
      [] k = "gga" ->
             << <<"GGA", 0>>, Comma, <<"time", s>>, Comma, <<"lat", s>>, Comma, <<"N", 0>>, Comma, <<"lng", s>>,
                Comma, <<"E", 0>>, Comma, <<"1", 0>>, Comma, <<"sats", s>>, Comma, <<"hdop", s>>,
                Comma, <<"alt", s>> >>
      [] k = "ggaNoFix" ->
             << <<"GGA", 0>>, Comma, <<"time", s>>, Comma, Comma, Comma, Comma, Comma, <<"0", 0>>,
                Comma, <<"sats", s>>, Comma, Comma >>
      [] k = "other" -> << <<"GSV", 0>>, Comma, <<"view", s>> >>

\* Every sentence that may be sent, character by character.
Sentences ==
    [k \in Kinds |-> [s \in 1..(MaxSentences + 1) |->
        <<Dollar>> \o Body(k, s) \o <<Star, <<"sum", ParityOf(Body(k, s))>>, <<"CR", 0>>, <<"LF", 0>> >>]]

HasFix(k) == k \in {"rmc", "gga"}

\* The position sentence s reports.
Fix(s) == [lat |-> << <<"lat", s>> >>, ns |-> << <<"N", 0>> >>,
           lng |-> << <<"lng", s>> >>, ew |-> << <<"E", 0>> >>]
Position == [f \in Location |-> committed[f]]

FeedInit ==
    /\ ParserInit
    /\ id = 1 /\ kind \in Kinds /\ pos = 0
    /\ gap = FALSE /\ gaps = 0 /\ through = Buffer
    /\ whole = TRUE /\ cuts = 0 /\ sumOf = 0 /\ passed = {} /\ doubtful = FALSE

Sentence == Sentences[kind][id]
Char == Sentence[pos + 1]

\* The receiver goes on to its next character or sentence.
Advance(received) ==
    IF pos + 1 < Len(Sentence)
    THEN /\ pos' = pos + 1 /\ whole' = (whole /\ received)
         /\ UNCHANGED <<id, kind>>
    ELSE /\ pos' = 0 /\ whole' = TRUE
         /\ id' = id + 1 /\ kind' \in Kinds

\* A checksum that ends with this character lets a location be committed.
EndsLocation(luck) ==
    /\ isChecksumTerm /\ Char \in Terminators
    /\ Passes(parity', luck) /\ Location \subseteq Commits

Receive ==
    /\ id <= MaxSentences
    /\ \E luck \in BOOLEAN :
         /\ Encode(Char, luck)
         /\ doubtful' = IF EndsLocation(luck)
                        THEN cuts = 2 \/ ~Passes(parity', FALSE) ELSE doubtful
    /\ sumOf' = IF Char[1] = "sum" THEN id ELSE sumOf
    /\ passed' = IF isChecksumTerm /\ Char \in Terminators /\ Passes(parity', FALSE)
                 THEN passed \cup {sumOf} ELSE passed
    /\ gap' = FALSE /\ through' = IF through < Buffer THEN through + 1 ELSE through
    /\ cuts' = IF Char = Dollar THEN 0 ELSE cuts
    /\ Advance(TRUE)
    /\ UNCHANGED gaps

\* The next character is lost or damaged, within the last gap or a new one.
Gap ==
    /\ id <= MaxSentences
    /\ gap \/ (gaps < MaxGaps /\ through = Buffer)
    /\ gaps' = (IF gap THEN gaps ELSE gaps + 1) /\ through' = 0
    /\ cuts' = IF gap THEN cuts ELSE IF cuts = 0 THEN 1 ELSE 2
    /\ Advance(FALSE)
    /\ UNCHANGED <<sumOf, passed, doubtful>>

Lose == Gap /\ gap' = TRUE /\ UNCHANGED parser

\* What comes through of a text in which a gap begins, ends or lies.
Part == <<"part", <<id, pos>> >>

\* A text is cut: the gap ends in it, begins in it, or lies inside.  (The end of
\* one text and the head of another may make a whole one: the line brings the
\* same characters when the gap lies between the two.)
Cut ==
    /\ Char \notin Terminators \cup Letters \cup {Dollar}
    /\ Gap /\ gap' \in (IF gap THEN {FALSE} ELSE BOOLEAN)
    /\ EncodeText(Part)

FeedNext == Receive \/ Lose \/ Cut

FeedSpec == FeedInit /\ [][FeedNext]_feedVars

(***************************************************************************)
(* Properties.                                                             *)
(***************************************************************************)
\* The location a sketch reads is a position that the receiver reported in one
\* sentence, whose latitude, longitude and hemispheres all came through, unless
\* it was committed by luck, the eight bits of two checksums being the same, or
\* with two gaps in the sentence: otherwise never a mixture, though all four are
\* staged where a broken sentence left its own (location.commit(),
\* endOfTermHandler()).
LocationIsOneFix ==
    Location \cap valid # {} /\ ~doubtful
        => Location \subseteq valid /\ \E s \in passed : Position = Fix(s)

\* A sentence with a fix of which nothing was lost is committed, whatever was
\* lost before it and whatever was committed by luck: the parser is back in step
\* with the first $ (encode()).
WholeFixesAreCommitted ==
    [][whole /\ HasFix(kind) /\ Char = <<"CR", 0>> /\ pos' = pos + 1 /\ ~gap'
        => Position' = Fix(id) /\ ~doubtful']_feedVars

\* Luck and sentences with two gaps aside, the location only ever moves to the
\* position of the sentence whose checksum was just received: no older one comes
\* back (location.commit()).
LocationFollowsTheReceiver ==
    [][Position' # Position /\ ~doubtful' => Position' = Fix(sumOf)]_feedVars
=============================================================================
