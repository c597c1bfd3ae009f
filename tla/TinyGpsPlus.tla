---------------------------- MODULE TinyGpsPlus ----------------------------
(***************************************************************************)
(* TinyGPSPlus::encode() of TinyGPS++.cpp: the NMEA parser of the GPS      *)
(* sketches.  A character is one of the five the parser tells apart, or a  *)
(* whole text: <<what it says, of which sentence>>.  The parity is kept as *)
(* the set of what was received an odd number of times.  The code has      *)
(* eight bits of it and compares one byte, so that a checksum may also     *)
(* match by luck: texts that differ may cancel, and a term that is less or *)
(* more than two digits, or none, still makes some byte.                   *)
(***************************************************************************)
EXTENDS Integers, Sequences, FiniteSets

VARIABLES
    parity,           \* the texts and commas since the $, those seen twice taken out
    isChecksumTerm,   \* the term being received follows a *
    term,             \* texts of the term being received
    curSentenceType,  \* "RMC", "GGA" or "OTHER"
    curTermNumber,    \* 8 bits wide
    sentenceHasFix,
    staged,           \* the new* members, set as terms are received
    committed,        \* the members the sketches read
    valid             \* fields that were committed

parser == <<parity, isChecksumTerm, term, curSentenceType, curTermNumber, sentenceHasFix,
            staged, committed, valid>>

Dollar == <<"$", 0>>
Comma == <<",", 0>>
Star == <<"*", 0>>
Terminators == {Comma, Star, <<"CR", 0>>, <<"LF", 0>>}
Location == {"lat", "ns", "lng", "ew"}
Fields == Location \cup {"time", "date", "speed", "course", "sats", "hdop", "alt"}

\* A global TinyGPSPlus: the constructor's values, and zero for the rest.
ParserInit ==
    /\ parity = {} /\ isChecksumTerm = FALSE /\ term = <<>>
    /\ curSentenceType = "OTHER" /\ curTermNumber = 0 /\ sentenceHasFix = FALSE
    /\ staged = [f \in Fields |-> <<>>] /\ committed = [f \in Fields |-> <<>>]
    /\ valid = {}

Xor(S, c) == IF c \in S THEN S \ {c} ELSE S \cup {c}

\* The exclusive or of a sequence of characters: what it has an odd number of times.
ParityOf(chars) ==
    {c \in {chars[i] : i \in DOMAIN chars} : Cardinality({i \in DOMAIN chars : chars[i] = c}) % 2 = 1}

\* Whether the byte made of the term after the * is the parity: it is if the
\* term is the two digits of the same texts, and if it is not, it may still be.
Passes(sum, luck) == term = << <<"sum", sum>> >> \/ luck

\* COMBINE(type, number) with its |: from term 32 on, terms alias others.
Combine == IF curSentenceType = "RMC" /\ (curTermNumber \div 32) % 2 = 0
           THEN curTermNumber + 32 ELSE curTermNumber

\* The case labels of endOfTermHandler(); GGA is type 0 and RMC type 1.
TermField ==
    LET gga == <<"time", "lat", "ns", "lng", "ew", "fix", "sats", "hdop", "alt">>
        rmc == <<"time", "fix", "lat", "ns", "lng", "ew", "speed", "course", "date">>
    IN  CASE Combine \in 1..9 -> gga[Combine]
          [] Combine \in 33..41 -> rmc[Combine - 32]
          [] OTHER -> "none"

\* What a sentence that passed the checksum commits.
Commits ==
    CASE curSentenceType = "RMC" ->
             {"date", "time"} \cup (IF sentenceHasFix THEN Location \cup {"speed", "course"} ELSE {})
      [] curSentenceType = "GGA" ->
             {"time", "sats", "hdop"} \cup (IF sentenceHasFix THEN Location \cup {"alt"} ELSE {})
      [] OTHER -> {}

\* Mutant of Checksum: the sentence is committed before its checksum is looked at.
ChecksumMutant(sum, luck) ==
    /\ committed' = [f \in Fields |-> IF f \in Commits THEN staged[f] ELSE committed[f]]
    /\ valid' = valid \cup Commits
    /\ UNCHANGED <<staged, curSentenceType, sentenceHasFix>>

\* The checksum term: commit if it is right, keep what was staged in any case.
Checksum(sum, luck) ==
    /\ IF Passes(sum, luck)
       THEN /\ committed' = [f \in Fields |-> IF f \in Commits THEN staged[f] ELSE committed[f]]
            /\ valid' = valid \cup Commits
       ELSE UNCHANGED <<committed, valid>>
    /\ UNCHANGED <<staged, curSentenceType, sentenceHasFix>>

\* The first term determines the sentence type.
FirstTerm ==
    /\ curSentenceType' = IF term = << <<"RMC", 0>> >> THEN "RMC"
                          ELSE IF term = << <<"GGA", 0>> >> THEN "GGA" ELSE "OTHER"
    /\ UNCHANGED <<staged, committed, valid, sentenceHasFix>>

\* Texts of one character; what another begins with is open.
Letters == {<<"A", 0>>, <<"V", 0>>, <<"N", 0>>, <<"E", 0>>, <<"0", 0>>, <<"1", 0>>}

\* Mutant of FixTerm: >= in place of > '0', so that every GGA has a fix.
FixTermMutant ==
    sentenceHasFix' \in IF term[1] \in Letters
                        THEN {IF Combine = 34 THEN term[1] = <<"A", 0>> ELSE TRUE} ELSE BOOLEAN

\* 'A' in a RMC; in a GGA anything that does not begin with a 0.
FixTerm ==
    sentenceHasFix' \in IF term[1] \in Letters
                        THEN {term[1] = <<"A", 0>> \/ (Combine # 34 /\ term[1] # <<"0", 0>>)}
                        ELSE BOOLEAN

\* setLatitude() and setLongitude() clear the hemisphere, which comes next.
Stage(f) ==
    staged' = CASE f = "lat" -> [staged EXCEPT !["lat"] = term, !["ns"] = <<>>]
                [] f = "lng" -> [staged EXCEPT !["lng"] = term, !["ew"] = <<>>]
                [] OTHER -> [staged EXCEPT ![f] = term]

\* The other terms are staged, unless they are empty.
OtherTerm ==
    /\ IF curSentenceType = "OTHER" \/ term = <<>> \/ TermField = "none"
       THEN UNCHANGED <<staged, sentenceHasFix>>
       ELSE IF TermField = "fix" THEN FixTerm /\ UNCHANGED staged
       ELSE Stage(TermField) /\ UNCHANGED sentenceHasFix
    /\ UNCHANGED <<committed, valid, curSentenceType>>

EndOfTermHandler(sum, luck) ==
    IF isChecksumTerm THEN Checksum(sum, luck)
    ELSE IF curTermNumber = 0 THEN FirstTerm ELSE OtherTerm

EncodeTerminator(c, luck) ==
    /\ c \in Terminators
    /\ parity' = IF c = Comma THEN Xor(parity, c) ELSE parity
    /\ EndOfTermHandler(parity', luck)
    /\ curTermNumber' = (curTermNumber + 1) % 256
    /\ term' = <<>>
    /\ isChecksumTerm' = (c = Star)

\* Mutant of EncodeDollar: a new sentence goes on with the parity of the last.
EncodeDollarMutant(c) ==
    /\ c = Dollar
    /\ curTermNumber' = 0 /\ term' = <<>> /\ UNCHANGED parity
    /\ curSentenceType' = "OTHER" /\ isChecksumTerm' = FALSE /\ sentenceHasFix' = FALSE
    /\ UNCHANGED <<staged, committed, valid>>

EncodeDollar(c) ==
    /\ c = Dollar
    /\ curTermNumber' = 0 /\ term' = <<>> /\ parity' = {}
    /\ curSentenceType' = "OTHER" /\ isChecksumTerm' = FALSE /\ sentenceHasFix' = FALSE
    /\ UNCHANGED <<staged, committed, valid>>

EncodeText(c) ==
    /\ c \notin Terminators \cup {Dollar}
    /\ term' = Append(term, c)
    /\ parity' = IF isChecksumTerm THEN parity ELSE Xor(parity, c)
    /\ UNCHANGED <<isChecksumTerm, curSentenceType, curTermNumber, sentenceHasFix,
                   staged, committed, valid>>

\* luck: a checksum that is not the sum of what was received matches it.
Encode(c, luck) == EncodeTerminator(c, luck) \/ EncodeDollar(c) \/ EncodeText(c)
=============================================================================
