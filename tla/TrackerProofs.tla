---------------------------- MODULE TrackerProofs ----------------------------
(***************************************************************************)
(* Proofs about the two parts of the tracker sketches: the cellular round  *)
(* (GsmTracker) and the position it sends (GpsFeed).                       *)
(*                                                                         *)
(* The round, whatever commands may fail or be answered late, and however  *)
(* often.  HTTPDATA is the one command that keeps the sketch and the modem *)
(* together: it is sent once a round, it is the last on its way while its  *)
(* prompt is waited for, and the prompt is gone when the sketch goes on.   *)
(***************************************************************************)
EXTENDS GsmTracker, GpsFeed, FiniteSetTheorems, SequenceTheorems, TLAPS

Names == {Commands[n] : n \in Steps}
Answers == {"OK", "ERROR", "DOWNLOAD", ">"}

\* What is under way, by kind and place.
Types ==
    /\ step \in Steps /\ waiting \in BOOLEAN
    /\ toModem \in Seq(Names) /\ inbox \in Seq([is : Answers, of : Names])
    /\ mode \in {"commands", "body", "text"}
    /\ http \in BOOLEAN /\ fresh \in BOOLEAN /\ stale \in BOOLEAN

AtData == step = 4 /\ waiting

\* HTTPDATA is the last command on its way, and the sketch waits for its prompt.
DataIsLast ==
    /\ \A i \in 1..Len(toModem) : toModem[i] = "DATA" => i = Len(toModem) /\ AtData
    /\ AtData /\ toModem # <<>> => toModem[Len(toModem)] = "DATA"

\* There is one prompt, and the modem has nothing else to do than to wait for the body.
PromptIsDue ==
    /\ \A i \in 1..Len(inbox) : inbox[i].is = "DOWNLOAD" => AtData /\ toModem = <<>> /\ mode = "body"
    /\ \A i, j \in 1..Len(inbox) : inbox[i].is = "DOWNLOAD" /\ inbox[j].is = "DOWNLOAD" => i = j

\* The body comes next, to a modem that waits for it.
BodyIsNext ==
    /\ \A i \in 1..Len(toModem) : toModem[i] = "BODY" => i = 1 /\ mode = "body"
    /\ step = 5 /\ ~waiting => toModem = <<>> /\ mode = "body"
    /\ (step = 5 /\ waiting) \/ (step = 6 /\ ~waiting)
            => (toModem = <<>> /\ fresh) \/ toModem = <<"BODY">>

\* The one HTTPACTION on its way follows a body.
ActionFollows ==
    /\ \A i \in 1..Len(toModem) : toModem[i] = "ACTION" => fresh \/ toModem[1] = "BODY"
    /\ \A i, j \in 1..Len(toModem) : toModem[i] = "ACTION" /\ toModem[j] = "ACTION" => i = j

\* The modem waits for a body only while its prompt waits to be read, and until
\* the body that follows it comes.
BodyIsDue ==
    mode = "body" => \/ AtData /\ toModem = <<>> /\ PromptIsHere
                     \/ step = 5 /\ ~waiting /\ toModem = <<>>
                     \/ toModem # <<>> /\ toModem[1] = "BODY"

\* Why a prompt may not come.
DataIsLost ==
    \/ PromptIsHere \/ mode = "text" \/ ~http
    \/ inbox # <<>> /\ inbox[Len(inbox)] = [is |-> "ERROR", of |-> "DATA"]
    \/ inbox = <<>> /\ taken = [by |-> "DATA", of |-> "DATA"]

LostForAReason == AtData /\ toModem = <<>> => DataIsLost

\* What holds of any modem, ...
Round == Types /\ DataIsLast /\ PromptIsDue /\ BodyIsDue /\ LostForAReason

\* ... and of one that takes the bodies it asks for.
Post == Round /\ BodyIsNext /\ ActionFollows /\ ~stale

\* The commands the proofs speak of, by their place in the round.
LEMMA NamesByPlace ==
  ASSUME NEW n \in Steps
  PROVE  /\ Commands[n] \in Names
         /\ Commands[n] = "DATA" <=> n = 4
         /\ Commands[n] = "BODY" <=> n = 5
         /\ Commands[n] = "ACTION" <=> n = 6
         /\ Commands[n] \in {"CMGS", "TEXT"} <=> n \in {11, 12}
         /\ Commands[n] = "TEXT" <=> n = 12
         /\ Commands[n] \in {"HEAD", "TERM"} <=> n \in {7, 8}
<1>1. n \in {1, 2, 3, 4, 5, 6, 7, 8, 9, 10, 11, 12} BY DEF Steps
<1>2. /\ Commands[1] = "INIT" /\ Commands[2] = "URL" /\ Commands[3] = "CONTENT" /\ Commands[4] = "DATA"
      /\ Commands[5] = "BODY" /\ Commands[6] = "ACTION" /\ Commands[7] = "HEAD" /\ Commands[8] = "TERM"
      /\ Commands[9] = "CMGF" /\ Commands[10] = "CSCS" /\ Commands[11] = "CMGS" /\ Commands[12] = "TEXT"
  BY DEF Commands
<1>3. \/ n = 1 /\ Commands[n] = "INIT"
      \/ n = 2 /\ Commands[n] = "URL"
      \/ n = 3 /\ Commands[n] = "CONTENT"
      \/ n = 4 /\ Commands[n] = "DATA"
      \/ n = 5 /\ Commands[n] = "BODY"
      \/ n = 6 /\ Commands[n] = "ACTION"
      \/ n = 7 /\ Commands[n] = "HEAD"
      \/ n = 8 /\ Commands[n] = "TERM"
      \/ n = 9 /\ Commands[n] = "CMGF"
      \/ n = 10 /\ Commands[n] = "CSCS"
      \/ n = 11 /\ Commands[n] = "CMGS"
      \/ n = 12 /\ Commands[n] = "TEXT"
  BY <1>1, <1>2
<1>4. Commands[n] \in Names BY DEF Names
<1>5. Commands[n] = "DATA" <=> n = 4 BY <1>3
<1>6. Commands[n] = "BODY" <=> n = 5 BY <1>3
<1>7. Commands[n] = "ACTION" <=> n = 6 BY <1>3
<1>8. Commands[n] \in {"CMGS", "TEXT"} <=> n \in {11, 12} BY <1>3
<1>9. Commands[n] = "TEXT" <=> n = 12 BY <1>3
<1>10. Commands[n] \in {"HEAD", "TERM"} <=> n \in {7, 8} BY <1>3
<1> QED BY <1>4, <1>5, <1>6, <1>7, <1>8, <1>9, <1>10

\* What comes after each command.
LEMMA Successors ==
  ASSUME step \in Steps
  PROVE  /\ AfterSuccess \in Steps /\ AfterFailure \in Steps
         /\ AfterSuccess # step
         /\ AfterFailure = step <=> step = 4
         /\ AfterSuccess = 5 <=> step = 4
         /\ AfterSuccess = 6 <=> step = 5
         /\ AfterFailure # 5 /\ (AfterFailure = 6 <=> step = 5)
         /\ Command = "DATA" <=> step = 4
         /\ Command = "BODY" <=> step = 5
         /\ Command = "ACTION" <=> step = 6
         /\ Command \in Names
         /\ Awaited = "none" <=> step \in {7, 8}
         /\ Awaited = "DOWNLOAD" <=> step = 4
<1>1. /\ Command \in Names /\ (Command = "DATA" <=> step = 4) /\ (Command = "BODY" <=> step = 5)
      /\ (Command = "ACTION" <=> step = 6) /\ (Command \in {"CMGS", "TEXT"} <=> step \in {11, 12})
      /\ (Command = "TEXT" <=> step = 12) /\ (Command \in {"HEAD", "TERM"} <=> step \in {7, 8})
  BY NamesByPlace DEF Command
<1>2. step \in 1..12 BY DEF Steps
<1>3. AfterSuccess = (IF step = 12 THEN 1 ELSE step + 1) BY <1>1 DEF AfterSuccess
<1>4. AfterFailure = (IF step = 4 THEN 4 ELSE IF step = 6 THEN 9
                      ELSE IF step \in {11, 12} THEN 1 ELSE step + 1)
  BY <1>1, <1>2 DEF AfterFailure
<1>5. (Awaited = "none" <=> step \in {7, 8}) /\ (Awaited = "DOWNLOAD" <=> step = 4)
  BY <1>1 DEF Awaited
<1> QED BY <1>1, <1>2, <1>3, <1>4, <1>5 DEF Steps

\* A sequence with one more at its end.
LEMMA Appended ==
  ASSUME NEW S, NEW s \in Seq(S), NEW e \in S
  PROVE  /\ Append(s, e) \in Seq(S) /\ Len(s) \in Nat /\ Len(Append(s, e)) = Len(s) + 1
         /\ Append(s, e)[Len(s) + 1] = e /\ Append(s, e) # <<>>
         /\ \A i \in 1..Len(s) : Append(s, e)[i] = s[i]
         /\ 1..(Len(s) + 1) = (1..Len(s)) \cup {Len(s) + 1}
<1>1. Append(s, e) \in Seq(S) /\ Len(Append(s, e)) = Len(s) + 1 /\ Append(s, e)[Len(s) + 1] = e
      /\ \A i \in 1..Len(s) : Append(s, e)[i] = s[i]
  BY AppendProperties
<1>2. Len(s) \in Nat BY LenProperties
<1>3. Append(s, e) # <<>> BY <1>1, <1>2, EmptySeq
<1> QED BY <1>1, <1>2, <1>3

\* A sequence without its first.
LEMMA Shortened ==
  ASSUME NEW S, NEW s \in Seq(S), s # <<>>
  PROVE  /\ Tail(s) \in Seq(S) /\ Len(s) \in Nat \ {0} /\ Len(Tail(s)) = Len(s) - 1
         /\ Head(s) = s[1] /\ s[1] \in S
         /\ \A i \in 1..(Len(s) - 1) : Tail(s)[i] = s[i + 1]
         /\ Tail(s) = <<>> <=> Len(s) = 1
<1>1. Tail(s) \in Seq(S) /\ Len(Tail(s)) = Len(s) - 1 /\ \A i \in 1..Len(Tail(s)) : Tail(s)[i] = s[i + 1]
  BY HeadTailProperties
<1>2. Len(s) \in Nat \ {0} BY EmptySeq, LenProperties
<1>3. Head(s) = s[1] /\ s[1] \in S BY <1>2, ElementOfSeq
<1>4. Tail(s) = <<>> <=> Len(Tail(s)) = 0 BY <1>1, EmptySeq
<1> QED BY <1>1, <1>2, <1>3, <1>4

\* A round begins with nothing under way.
LEMMA InitPost == Init => Post
<1> SUFFICES ASSUME Init PROVE Post OBVIOUS
<1>1. step = 1 /\ ~waiting /\ toModem = <<>> /\ inbox = <<>> /\ mode = "commands" /\ ~http /\ ~fresh /\ ~stale
  BY DEF Init
<1>2. Types
  <2>1. <<>> \in Seq(Names) /\ <<>> \in Seq([is : Answers, of : Names]) BY EmptySeq
  <2>2. step \in Steps /\ mode \in {"commands", "body", "text"} BY <1>1 DEF Steps
  <2>3. waiting \in BOOLEAN /\ http \in BOOLEAN /\ fresh \in BOOLEAN /\ stale \in BOOLEAN
    BY Zenon DEF Init
  <2> QED BY <1>1, <2>1, <2>2, <2>3 DEF Types
<1>3. Len(toModem) = 0 /\ Len(inbox) = 0 BY <1>1
<1>4. DataIsLast /\ PromptIsDue /\ BodyIsDue /\ BodyIsNext /\ ActionFollows /\ LostForAReason
  BY <1>1, <1>3 DEF DataIsLast, PromptIsDue, BodyIsDue, BodyIsNext, ActionFollows, LostForAReason, AtData
<1> QED BY <1>1, <1>2, <1>4 DEF Post, Round

\* What sending leads to.
LEMMA SendGoes ==
  ASSUME Types, Send
  PROVE  /\ toModem' \in Seq(Names) /\ Len(toModem) \in Nat /\ Len(toModem') = Len(toModem) + 1
         /\ toModem'[Len(toModem) + 1] = Command /\ toModem' # <<>>
         /\ \A i \in 1..Len(toModem) : toModem'[i] = toModem[i]
         /\ step' \in Steps /\ waiting' \in BOOLEAN
         /\ \/ step' = step /\ waiting' = TRUE
            \/ step \in {7, 8} /\ step' = step + 1 /\ waiting' = FALSE
         /\ ~waiting /\ UNCHANGED <<inbox, mode, http, fresh, stale, taken>>
<1>1. step \in Steps /\ toModem \in Seq(Names) BY DEF Types
<1>2. Command \in Names /\ (Awaited = "none" <=> step \in {7, 8}) BY <1>1, Successors
<1>3. toModem' = Append(toModem, Command) /\ ~waiting BY DEF Send
<1>4. /\ toModem' \in Seq(Names) /\ Len(toModem) \in Nat /\ Len(toModem') = Len(toModem) + 1
      /\ toModem'[Len(toModem) + 1] = Command /\ toModem' # <<>>
      /\ \A i \in 1..Len(toModem) : toModem'[i] = toModem[i]
  BY <1>1, <1>2, <1>3, Appended
<1>7. UNCHANGED <<inbox, mode, http, fresh, stale, taken>> BY DEF Send
<1>5. CASE Awaited = "none"
  <2>1. step \in {7, 8} BY <1>2, <1>5
  <2>2. Command # "TEXT" BY <1>1, <2>1, NamesByPlace DEF Command
  <2>3. AfterSuccess = step + 1 BY <2>2 DEF AfterSuccess
  <2>4. step' = AfterSuccess /\ waiting' = (AfterSuccess = step) BY <1>5 DEF Send, Goto
  <2>5. step' = step + 1 /\ step' \in Steps /\ step' # step BY <1>1, <2>1, <2>3, <2>4 DEF Steps
  <2>6. waiting' = FALSE BY <2>4, <2>5
  <2> QED BY <1>3, <1>4, <1>7, <2>1, <2>5, <2>6
<1>6. CASE Awaited # "none"
  <2>1. waiting' = TRUE /\ step' = step BY <1>6 DEF Send
  <2> QED BY <1>1, <1>3, <1>4, <1>7, <2>1
<1> QED BY <1>5, <1>6

\* Where taking an answer, or giving up, leads to.
LEMMA ReadGoes ==
  ASSUME Types, ReadAnswer \/ Timeout
  PROVE  /\ step' \in Steps /\ waiting' \in BOOLEAN
         /\ \/ step' = step /\ waiting' = TRUE
            \/ step' # step /\ waiting' = FALSE /\ (step' = 5 => ReadAnswer /\ Head(inbox).is = "DOWNLOAD" /\ step = 4)
         /\ step' = 6 /\ ~waiting' => step = 5
         /\ waiting /\ UNCHANGED <<toModem, mode, http, fresh, stale>>
<1>1. step \in Steps BY DEF Types
<1>2. waiting /\ UNCHANGED <<toModem, mode, http, fresh, stale>> BY DEF ReadAnswer, Timeout
<1>3. ASSUME Goto(AfterFailure) PROVE /\ step' \in Steps /\ step' # 5 /\ (step' = 6 => step = 5)
                                       /\ \/ step' = step /\ waiting' = TRUE
                                          \/ step' # step /\ waiting' = FALSE
  BY <1>1, <1>3, Successors DEF Goto
<1>4. ASSUME Goto(AfterSuccess) PROVE /\ step' \in Steps /\ step' # step /\ waiting' = FALSE
                                       /\ (step' = 5 => step = 4) /\ (step' = 6 => step = 5)
  BY <1>1, <1>4, Successors DEF Goto
<1>5. CASE Timeout BY <1>2, <1>3, <1>5 DEF Timeout
<1>6. CASE ReadAnswer
  <2>1. CASE Head(inbox).is \in {Awaited, "ERROR"} /\ Head(inbox).is = Awaited
    <3>1. Goto(AfterSuccess) BY <1>6, <2>1 DEF ReadAnswer
    <3>2. step = 4 => Awaited = "DOWNLOAD" BY <1>1, Successors
    <3> QED BY <1>2, <1>4, <1>6, <2>1, <3>1, <3>2
  <2>2. CASE Head(inbox).is \in {Awaited, "ERROR"} /\ Head(inbox).is # Awaited
    <3>1. Goto(AfterFailure) BY <1>6, <2>2 DEF ReadAnswer
    <3> QED BY <1>2, <1>3, <3>1
  <2>3. CASE Head(inbox).is \notin {Awaited, "ERROR"}
    <3>1. step' = step /\ waiting' = waiting BY <1>6, <2>3 DEF ReadAnswer
    <3>2. waiting = TRUE BY <1>2, Zenon DEF Types
    <3> QED BY <1>1, <1>2, <3>1, <3>2
  <2> QED BY <2>1, <2>2, <2>3
<1> QED BY <1>5, <1>6

\* Where an answer comes from, and what the modem makes of it: it performs,
\* refuses or passes over the first command on its way.
LEMMA ModemGoes ==
  ASSUME Types, Modem, NEW c, c = toModem[1]
  PROVE  /\ toModem # <<>> /\ toModem' = Tail(toModem) /\ c \in Names
         /\ UNCHANGED <<step, waiting, taken>>
         /\ \/ Performs(c) \/ Refuses(c)
            \/ Swallows(c) /\ (c = "DATA" => mode # "commands") /\ (c = "BODY" => mode # "body")
<1>1. toModem \in Seq(Names) /\ mode \in {"commands", "body", "text"} BY DEF Types
<1>2. toModem # <<>> /\ toModem' = Tail(toModem) /\ UNCHANGED <<step, waiting, taken>> BY DEF Modem
<1>3. c = Head(toModem) /\ c \in Names BY <1>1, <1>2, Shortened
<1>4. DEFINE expected == CASE mode = "body" -> c = "BODY" [] mode = "text" -> c = "TEXT"
                           [] OTHER -> c \notin {"BODY", "TEXT"}
<1>5. IF expected THEN Performs(c) \/ Refuses(c) ELSE Swallows(c) BY <1>3 DEF Modem
<1>6. /\ mode = "body" => (expected <=> c = "BODY")
      /\ mode = "text" => (expected <=> c = "TEXT")
      /\ mode = "commands" => (expected <=> c \notin {"BODY", "TEXT"})
  OBVIOUS
<1>7. CASE expected
  <2>1. Performs(c) \/ Refuses(c) BY <1>5, <1>7
  <2> QED BY <1>2, <1>3, <2>1
<1>8. CASE ~expected
  <2>1. Swallows(c) BY <1>5, <1>8
  <2>2. (c = "DATA" => mode # "commands") /\ (c = "BODY" => mode # "body") BY <1>6, <1>8
  <2> QED BY <1>1, <1>2, <1>3, <2>1, <2>2
<1> QED BY <1>7, <1>8

\* The types of what the modem leaves behind.
LEMMA ModemTypes ==
  ASSUME Types, NEW c \in Names, Performs(c) \/ Refuses(c) \/ Swallows(c)
  PROVE  /\ inbox' \in Seq([is : Answers, of : Names])
         /\ mode' \in {"commands", "body", "text"}
         /\ http' \in BOOLEAN /\ fresh' \in BOOLEAN /\ stale' \in BOOLEAN
<1>1. inbox \in Seq([is : Answers, of : Names]) /\ mode \in {"commands", "body", "text"}
      /\ http \in BOOLEAN /\ fresh \in BOOLEAN /\ stale \in BOOLEAN
  BY DEF Types
<1>2. \A a \in Answers : Append(inbox, [is |-> a, of |-> c]) \in Seq([is : Answers, of : Names])
  <2> TAKE a \in Answers
  <2>1. [is |-> a, of |-> c] \in [is : Answers, of : Names] OBVIOUS
  <2> QED BY <1>1, <2>1, AppendProperties
<1>3. CASE Performs(c)
  <2>1. Done(c) \in Answers BY DEF Done, Answers
  <2>2. inbox' = Append(inbox, [is |-> Done(c), of |-> c]) BY <1>3 DEF Performs, Answer
  <2>3. mode' \in {"commands", "body", "text"} BY <1>3 DEF Performs
  <2>4. http' \in BOOLEAN /\ fresh' \in BOOLEAN /\ stale' \in BOOLEAN BY <1>3, Zenon DEF Performs
  <2> QED BY <1>2, <2>1, <2>2, <2>3, <2>4
<1>4. CASE Refuses(c)
  <2>1. "ERROR" \in Answers BY DEF Answers
  <2>2. inbox' = Append(inbox, [is |-> "ERROR", of |-> c]) BY <1>4 DEF Refuses, Answer
  <2>3. mode' = "commands" /\ http' = http /\ stale' = stale BY <1>4 DEF Refuses
  <2>4. fresh' \in BOOLEAN BY <1>4, Zenon DEF Refuses
  <2> QED BY <1>1, <1>2, <2>1, <2>2, <2>3, <2>4
<1>5. CASE Swallows(c)
  <2>1. inbox' = inbox /\ mode' = mode /\ http' = http /\ stale' = stale BY <1>5 DEF Swallows
  <2>2. fresh' \in BOOLEAN BY <1>5, Zenon DEF Swallows
  <2> QED BY <1>1, <2>1, <2>2
<1> QED BY <1>3, <1>4, <1>5

\* Types are kept.
LEMMA TypesKept ==
  ASSUME Types, [Next]_vars
  PROVE  Types'
<1>1. CASE Send BY <1>1, SendGoes DEF Types
<1>2. CASE Timeout
  <2>1. inbox' = inbox BY <1>2 DEF Timeout
  <2> QED BY <1>2, <2>1, ReadGoes DEF Types
<1>3. CASE ReadAnswer
  <2>1. inbox # <<>> /\ inbox' = Tail(inbox) BY <1>3 DEF ReadAnswer
  <2>2. inbox' \in Seq([is : Answers, of : Names]) BY <2>1, Shortened DEF Types
  <2> QED BY <1>3, <2>2, ReadGoes DEF Types
<1>4. CASE Modem
  <2>1. PICK c : c = toModem[1] OBVIOUS
  <2>2. /\ toModem # <<>> /\ toModem' = Tail(toModem) /\ c \in Names /\ UNCHANGED <<step, waiting>>
        /\ Performs(c) \/ Refuses(c) \/ Swallows(c)
    BY <1>4, <2>1, ModemGoes
  <2>3. toModem' \in Seq(Names) BY <2>2, Shortened DEF Types
  <2> QED BY <2>2, <2>3, ModemTypes DEF Types
<1>5. CASE UNCHANGED vars BY <1>5 DEF Types, vars
<1> QED BY <1>1, <1>2, <1>3, <1>4, <1>5 DEF Next, Sketch

\* Sending keeps the sketch and the modem together.
LEMMA RoundAfterSend ==
  ASSUME Round, Send
  PROVE  DataIsLast' /\ PromptIsDue' /\ BodyIsDue' /\ LostForAReason'
<1>0. Types BY DEF Round
<1> DEFINE n == Len(toModem)
<1>1. /\ n \in Nat /\ Len(toModem') = n + 1 /\ toModem'[n + 1] = Command /\ toModem' # <<>>
      /\ \A i \in 1..n : toModem'[i] = toModem[i]
      /\ ~waiting /\ inbox' = inbox
  BY <1>0, SendGoes
<1>6. AtData' <=> step = 4
  <2>1. \/ step' = step /\ waiting' = TRUE
        \/ step \in {7, 8} /\ step' = step + 1 /\ waiting' = FALSE
    BY <1>0, SendGoes
  <2> QED BY <2>1 DEF AtData
<1>2. ~AtData /\ (Command = "DATA" <=> step = 4) BY <1>0, <1>1, Successors DEF AtData, Types
<1>3. DataIsLast'
  <2>1. \A i \in 1..n : toModem[i] # "DATA" BY <1>2 DEF Round, DataIsLast
  <2>2. ASSUME NEW i \in 1..(n + 1), toModem'[i] = "DATA" PROVE i = n + 1 /\ AtData'
    <3>1. i \in 1..n \/ i = n + 1 BY <1>1
    <3>2. i = n + 1 BY <1>1, <2>1, <2>2, <3>1
    <3> QED BY <1>1, <1>2, <1>6, <2>2, <3>2
  <2>3. AtData' => toModem'[n + 1] = "DATA" BY <1>1, <1>2, <1>6
  <2> QED BY <1>1, <2>2, <2>3 DEF DataIsLast
<1>4. PromptIsDue'
  <2>1. \A i \in 1..Len(inbox) : inbox[i].is # "DOWNLOAD" BY <1>2 DEF Round, PromptIsDue
  <2> QED BY <1>1, <2>1 DEF PromptIsDue
<1>5. LostForAReason' BY <1>1 DEF LostForAReason
<1>7. BodyIsDue'
  <2> SUFFICES ASSUME mode' = "body" PROVE toModem' # <<>> /\ toModem'[1] = "BODY" BY DEF BodyIsDue
  <2>1. mode = "body" BY <1>0, SendGoes
  <2>2. CASE toModem # <<>> /\ toModem[1] = "BODY"
    <3>1. 1 \in 1..n BY <1>0, <2>2, EmptySeq DEF Types
    <3> QED BY <1>1, <2>2, <3>1
  <2>3. CASE step = 5 /\ ~waiting /\ toModem = <<>>
    <3>1. n = 0 /\ Command = "BODY" BY <1>0, <2>3, Successors DEF Types
    <3> QED BY <1>1, <3>1
  <2> QED BY <1>2, <2>1, <2>2, <2>3 DEF Round, BodyIsDue
<1> QED BY <1>3, <1>4, <1>5, <1>7

\* Reading an answer, or none, keeps the sketch and the modem together.
LEMMA RoundAfterRead ==
  ASSUME Round, ReadAnswer \/ Timeout
  PROVE  DataIsLast' /\ PromptIsDue' /\ BodyIsDue' /\ LostForAReason'
<1>0. Types /\ DataIsLast /\ PromptIsDue /\ BodyIsDue /\ LostForAReason BY DEF Round
<1>1. /\ toModem' = toModem /\ mode' = mode /\ http' = http /\ waiting
      /\ \/ step' = step /\ waiting' = TRUE
         \/ step' # step /\ waiting' = FALSE
  BY <1>0, ReadGoes
<1>2. AtData' <=> AtData /\ step' = step BY <1>1 DEF AtData
<1>3. inbox \in Seq([is : Answers, of : Names]) BY <1>0 DEF Types
<1>4. ASSUME AtData, ~AtData'
      PROVE  ReadAnswer /\ Head(inbox).is = "DOWNLOAD"
  <2>1. step = 4 /\ step' # step BY <1>2, <1>4 DEF AtData
  <2>2. AfterFailure = step /\ Awaited = "DOWNLOAD" BY <1>0, <2>1, Successors DEF Types
  <2>3. ~Timeout BY <2>1, <2>2 DEF Timeout, Goto
  <2>4. ReadAnswer BY <2>3
  <2>5. Head(inbox).is = Awaited BY <2>1, <2>2, <2>4 DEF ReadAnswer, Goto
  <2> QED BY <2>2, <2>4, <2>5
<1>5. ReadAnswer => /\ inbox # <<>> /\ inbox' = Tail(inbox) /\ Len(inbox) \in Nat \ {0}
                    /\ Len(inbox') = Len(inbox) - 1 /\ Head(inbox) = inbox[1]
                    /\ \A i \in 1..(Len(inbox) - 1) : inbox'[i] = inbox[i + 1]
                    /\ inbox' = <<>> <=> Len(inbox) = 1
  BY <1>3, Shortened DEF ReadAnswer
<1>6. Timeout => inbox' = inbox /\ inbox = <<>> /\ taken' = taken BY DEF Timeout
<1>7. DataIsLast'
  <2>1. CASE AtData /\ ~AtData'
    <3>1. inbox[1].is = "DOWNLOAD" /\ 1 \in 1..Len(inbox) BY <1>4, <1>5, <2>1
    <3>2. toModem = <<>> BY <1>0, <3>1 DEF PromptIsDue
    <3>3. Len(toModem') = 0 BY <1>1, <3>2
    <3> QED BY <1>1, <2>1, <3>2, <3>3 DEF DataIsLast
  <2>2. CASE AtData <=> AtData' BY <1>0, <1>1, <2>2 DEF DataIsLast
  <2> QED BY <1>2, <2>1, <2>2
<1>8. PromptIsDue'
  <2>1. CASE Timeout BY <1>6, <2>1, EmptySeq DEF PromptIsDue
  <2>2. CASE ReadAnswer
    <3> DEFINE n == Len(inbox)
    <3>1. n \in Nat \ {0} /\ Len(inbox') = n - 1 /\ \A i \in 1..(n - 1) : i + 1 \in 1..n /\ inbox'[i] = inbox[i + 1]
      BY <1>5, <2>2
    <3>2. ASSUME NEW i \in 1..(n - 1), inbox'[i].is = "DOWNLOAD"
          PROVE  AtData' /\ toModem' = <<>> /\ mode' = "body"
      <4>1. i + 1 \in 1..n /\ inbox[i + 1].is = "DOWNLOAD" BY <3>1, <3>2
      <4>2. AtData /\ toModem = <<>> /\ mode = "body" BY <1>0, <4>1 DEF PromptIsDue
      <4>3. ASSUME ~AtData' PROVE FALSE
        <5>1. inbox[1].is = "DOWNLOAD" BY <1>4, <1>5, <4>2, <4>3
        <5>2. 1 \in 1..n BY <3>1
        <5>3. 1 = i + 1 BY <1>0, <4>1, <5>1, <5>2 DEF PromptIsDue
        <5> QED BY <5>3
      <4> QED BY <1>1, <4>2, <4>3
    <3>3. ASSUME NEW i \in 1..(n - 1), NEW j \in 1..(n - 1),
                 inbox'[i].is = "DOWNLOAD", inbox'[j].is = "DOWNLOAD"
          PROVE  i = j
      <4>1. /\ i + 1 \in 1..n /\ inbox[i + 1].is = "DOWNLOAD"
            /\ j + 1 \in 1..n /\ inbox[j + 1].is = "DOWNLOAD"
        BY <3>1, <3>3
      <4>2. i + 1 = j + 1 BY <1>0, <4>1 DEF PromptIsDue
      <4> QED BY <4>2
    <3> QED BY <3>1, <3>2, <3>3 DEF PromptIsDue
  <2> QED BY <2>1, <2>2
<1>10. ASSUME AtData, PromptIsHere, ~PromptIsHere' PROVE ~AtData' /\ step' = 5
  <2>1. PICK i \in DOMAIN inbox : inbox[i].is = "DOWNLOAD" BY <1>10 DEF PromptIsHere
  <2>2. DOMAIN inbox = 1..Len(inbox) /\ Len(inbox) \in Nat BY <1>3, LenProperties
  <2>3. ReadAnswer
    <3>1. inbox # <<>> BY <2>1, <2>2
    <3> QED BY <1>6, <3>1
  <2>4. inbox' \in Seq([is : Answers, of : Names]) BY <1>3, <2>3, Shortened DEF ReadAnswer
  <2>5. DOMAIN inbox' = 1..(Len(inbox) - 1) BY <1>5, <2>3, <2>4, LenProperties
  <2>6. i = 1
    <3> SUFFICES ASSUME i # 1 PROVE FALSE OBVIOUS
    <3>1. i - 1 \in 1..(Len(inbox) - 1) /\ (i - 1) + 1 = i BY <2>1, <2>2
    <3>2. inbox'[i - 1] = inbox[i] BY <1>5, <2>3, <3>1
    <3> QED BY <1>10, <2>1, <2>5, <3>1, <3>2 DEF PromptIsHere
  <2>7. Head(inbox).is = "DOWNLOAD" BY <1>5, <2>1, <2>3, <2>6
  <2>8. Awaited = "DOWNLOAD" /\ AfterSuccess = 5 BY <1>0, <1>10, Successors DEF Types, AtData
  <2>9. step' = 5 BY <2>3, <2>7, <2>8 DEF ReadAnswer, Goto
  <2> QED BY <2>9 DEF AtData
<1>11. BodyIsDue'
  <2> SUFFICES ASSUME mode' = "body"
               PROVE  \/ AtData' /\ toModem' = <<>> /\ PromptIsHere'
                      \/ step' = 5 /\ ~waiting' /\ toModem' = <<>>
                      \/ toModem' # <<>> /\ toModem'[1] = "BODY"
    BY DEF BodyIsDue
  <2>1. mode = "body" BY <1>1
  <2>2. CASE toModem # <<>> /\ toModem[1] = "BODY" BY <1>1, <2>2
  <2>3. CASE AtData /\ toModem = <<>> /\ PromptIsHere
    <3>1. CASE PromptIsHere'
      <4>1. CASE AtData' BY <1>1, <2>3, <3>1, <4>1
      <4>2. CASE ~AtData'
        <5>1. ReadAnswer /\ Head(inbox).is = "DOWNLOAD" BY <1>4, <2>3, <4>2
        <5>2. Awaited = "DOWNLOAD" /\ AfterSuccess = 5 BY <1>0, <2>3, Successors DEF Types, AtData
        <5>3. step' = 5 BY <5>1, <5>2 DEF ReadAnswer, Goto
        <5>4. step = 4 BY <2>3 DEF AtData
        <5> QED BY <1>1, <2>3, <5>3, <5>4
      <4> QED BY <4>1, <4>2
    <3>2. CASE ~PromptIsHere'
      <4>1. step' = 5 BY <1>10, <2>3, <3>2
      <4>2. step = 4 BY <2>3 DEF AtData
      <4> QED BY <1>1, <2>3, <4>1, <4>2
    <3> QED BY <3>1, <3>2
  <2> QED BY <1>0, <1>1, <2>1, <2>2, <2>3 DEF BodyIsDue
<1>9. LostForAReason'
  <2> SUFFICES ASSUME AtData', toModem' = <<>> PROVE DataIsLost' BY DEF LostForAReason
  <2>1. AtData /\ toModem = <<>> BY <1>1, <1>2
  <2>2. DataIsLost BY <1>0, <2>1 DEF LostForAReason
  <2>3. CASE mode = "text" \/ ~http BY <1>1, <2>3 DEF DataIsLost
  <2>6. CASE PromptIsHere BY <1>10, <2>1, <2>6 DEF DataIsLost
  <2>4. CASE inbox # <<>> /\ inbox[Len(inbox)] = [is |-> "ERROR", of |-> "DATA"]
    <3>1. ReadAnswer BY <1>6, <2>4
    <3>2. CASE Len(inbox) = 1
      <4>1. inbox' = <<>> /\ Head(inbox) = [is |-> "ERROR", of |-> "DATA"] BY <1>5, <2>4, <3>1, <3>2
      <4>2. Command = "DATA" BY <1>0, <2>1, Successors DEF AtData, Types
      <4>4. Head(inbox).is = "ERROR" /\ Head(inbox).of = "DATA" BY <4>1
      <4>5. taken' = [by |-> Command, of |-> Head(inbox).of] BY <3>1, <4>4 DEF ReadAnswer
      <4>3. taken' = [by |-> "DATA", of |-> "DATA"] BY <4>2, <4>4, <4>5
      <4> QED BY <4>1, <4>3 DEF DataIsLost
    <3>3. CASE Len(inbox) # 1
      <4>1. Len(inbox) - 1 \in 1..(Len(inbox) - 1) /\ inbox' # <<>> BY <1>5, <3>1, <3>3
      <4>2. inbox'[Len(inbox')] = inbox[Len(inbox)] BY <1>5, <3>1, <4>1
      <4> QED BY <2>4, <4>1, <4>2 DEF DataIsLost
    <3> QED BY <3>2, <3>3
  <2>5. CASE inbox = <<>> /\ taken = [by |-> "DATA", of |-> "DATA"]
    <3>1. Timeout BY <1>5, <2>5
    <3> QED BY <1>6, <2>5, <3>1 DEF DataIsLost
  <2> QED BY <2>2, <2>3, <2>4, <2>5, <2>6 DEF DataIsLost
<1> QED BY <1>7, <1>8, <1>9, <1>11

\* The modem keeps itself and the sketch together.
LEMMA RoundAfterModem ==
  ASSUME Round, Modem
  PROVE  DataIsLast' /\ PromptIsDue' /\ BodyIsDue' /\ LostForAReason'
<1>0. Types /\ DataIsLast /\ PromptIsDue /\ BodyIsDue BY DEF Round
<1>1. PICK c : c = toModem[1] OBVIOUS
<1>2. /\ toModem # <<>> /\ toModem' = Tail(toModem) /\ c \in Names /\ UNCHANGED <<step, waiting, taken>>
      /\ \/ Performs(c) \/ Refuses(c)
         \/ Swallows(c) /\ (c = "DATA" => mode # "commands") /\ (c = "BODY" => mode # "body")
  BY <1>0, <1>1, ModemGoes
<1> DEFINE n == Len(toModem)
<1>3. /\ n \in Nat \ {0} /\ Len(toModem') = n - 1
      /\ \A i \in 1..(n - 1) : toModem'[i] = toModem[i + 1]
      /\ toModem' = <<>> <=> n = 1
  BY <1>0, <1>2, Shortened DEF Types
<1>4. AtData' <=> AtData BY <1>2 DEF AtData
<1>5. DataIsLast'
  <2>1. ASSUME NEW i \in 1..(n - 1), toModem'[i] = "DATA" PROVE i = n - 1 /\ AtData'
    <3>1. i + 1 \in 1..n /\ toModem[i + 1] = "DATA" BY <1>3, <2>1
    <3>2. i + 1 = n /\ AtData BY <1>0, <3>1 DEF DataIsLast
    <3> QED BY <1>3, <1>4, <3>2
  <2>2. ASSUME AtData', toModem' # <<>> PROVE toModem'[n - 1] = "DATA"
    <3>1. n - 1 \in 1..(n - 1) BY <1>3, <2>2
    <3>2. toModem[n] = "DATA" BY <1>0, <1>2, <1>4, <2>2 DEF DataIsLast
    <3>3. toModem'[n - 1] = toModem[n] BY <1>3, <3>1
    <3> QED BY <3>2, <3>3
  <2> QED BY <1>3, <2>1, <2>2 DEF DataIsLast
<1>6. c = "DATA" => n = 1 /\ AtData
  <2>1. 1 \in 1..n BY <1>3
  <2> QED BY <1>0, <1>1, <2>1 DEF DataIsLast
<1>7. \A i \in 1..Len(inbox) : inbox[i].is # "DOWNLOAD" BY <1>0, <1>2 DEF PromptIsDue
<1>13. mode = "body" => c = "BODY"
  <2> SUFFICES ASSUME mode = "body" PROVE toModem[1] = "BODY" BY <1>1
  <2> QED BY <1>0, <1>2 DEF BodyIsDue
<1>8. inbox \in Seq([is : Answers, of : Names]) BY <1>0 DEF Types
<1>9. \A a \in Answers :
          LET e == [is |-> a, of |-> c]
              s == Append(inbox, e)
          IN  /\ Len(inbox) \in Nat /\ Len(s) = Len(inbox) + 1 /\ s[Len(inbox) + 1] = e /\ s # <<>>
              /\ \A i \in 1..Len(inbox) : s[i] = inbox[i]
  <2> TAKE a \in Answers
  <2>1. [is |-> a, of |-> c] \in [is : Answers, of : Names] BY <1>2
  <2> QED BY <1>8, <2>1, Appended
<1>10. CASE Performs(c)
  <2> DEFINE e == [is |-> Done(c), of |-> c]
  <2>1. Done(c) \in Answers /\ (Done(c) = "DOWNLOAD" => c = "DATA") BY DEF Done, Answers
  <2>2. inbox' = Append(inbox, e) BY <1>10 DEF Performs, Answer
  <2>3. c = "DATA" => mode' = "body" BY <1>10 DEF Performs
  <2>4. /\ Len(inbox) \in Nat /\ Len(inbox') = Len(inbox) + 1 /\ inbox'[Len(inbox) + 1] = e
        /\ \A i \in 1..Len(inbox) : inbox'[i] = inbox[i]
    BY <1>9, <2>1, <2>2
  <2>5. ASSUME NEW i \in 1..(Len(inbox) + 1), inbox'[i].is = "DOWNLOAD"
        PROVE  i = Len(inbox) + 1 /\ c = "DATA"
    <3>1. i \in 1..Len(inbox) \/ i = Len(inbox) + 1 BY <2>4
    <3>2. i = Len(inbox) + 1 BY <1>7, <2>4, <2>5, <3>1
    <3>3. e.is = "DOWNLOAD" BY <2>4, <2>5, <3>2
    <3> QED BY <2>1, <3>2, <3>3
  <2>6. PromptIsDue' BY <1>3, <1>4, <1>6, <2>3, <2>4, <2>5 DEF PromptIsDue
  <2>8. c = "DATA" => PromptIsHere'
    <3> SUFFICES ASSUME c = "DATA" PROVE PromptIsHere' OBVIOUS
    <3>1. Done(c) = "DOWNLOAD" BY DEF Done
    <3>2. e \in [is : Answers, of : Names] BY <1>2, <2>1
    <3>3. inbox' \in Seq([is : Answers, of : Names]) BY <1>8, <2>2, <3>2, Appended
    <3>4. DOMAIN inbox' = 1..(Len(inbox) + 1) BY <2>4, <3>3, LenProperties
    <3>5. Len(inbox) + 1 \in DOMAIN inbox' BY <2>4, <3>4
    <3>6. inbox'[Len(inbox) + 1].is = "DOWNLOAD" BY <2>4, <3>1
    <3> QED BY <3>5, <3>6 DEF PromptIsHere
  <2>7. LostForAReason'
    <3> SUFFICES ASSUME AtData', toModem' = <<>> PROVE DataIsLost' BY DEF LostForAReason
    <3>1. c = "DATA" BY <1>0, <1>1, <1>2, <1>3, <1>4 DEF DataIsLast
    <3> QED BY <2>8, <3>1 DEF DataIsLost
  <2>9. BodyIsDue'
    <3> SUFFICES ASSUME mode' = "body" PROVE AtData' /\ toModem' = <<>> /\ PromptIsHere' BY DEF BodyIsDue
    <3>1. c = "DATA" BY <1>10 DEF Performs
    <3> QED BY <1>3, <1>4, <1>6, <2>8, <3>1
  <2> QED BY <1>5, <2>6, <2>7, <2>9
<1>11. CASE Refuses(c)
  <2> DEFINE e == [is |-> "ERROR", of |-> c]
  <2>1. "ERROR" \in Answers BY DEF Answers
  <2>2. inbox' = Append(inbox, e) BY <1>11 DEF Refuses, Answer
  <2>3. /\ Len(inbox) \in Nat /\ Len(inbox') = Len(inbox) + 1 /\ inbox'[Len(inbox) + 1] = e /\ inbox' # <<>>
        /\ \A i \in 1..Len(inbox) : inbox'[i] = inbox[i]
    BY <1>9, <2>1, <2>2
  <2>4. ASSUME NEW i \in 1..(Len(inbox) + 1) PROVE inbox'[i].is # "DOWNLOAD"
    <3>1. i \in 1..Len(inbox) \/ i = Len(inbox) + 1 BY <2>3
    <3> QED BY <1>7, <2>3, <3>1
  <2>5. PromptIsDue' BY <2>3, <2>4 DEF PromptIsDue
  <2>6. LostForAReason'
    <3> SUFFICES ASSUME AtData', toModem' = <<>> PROVE DataIsLost' BY DEF LostForAReason
    <3>1. c = "DATA" BY <1>0, <1>1, <1>2, <1>3, <1>4 DEF DataIsLast
    <3>2. inbox' # <<>> /\ inbox'[Len(inbox')] = [is |-> "ERROR", of |-> "DATA"] BY <2>3, <3>1
    <3> QED BY <3>2 DEF DataIsLost
  <2>7. BodyIsDue' BY <1>11 DEF BodyIsDue, Refuses
  <2> QED BY <1>5, <2>5, <2>6, <2>7
<1>12. CASE Swallows(c) /\ (c = "DATA" => mode # "commands") /\ (c = "BODY" => mode # "body")
  <2>1. inbox' = inbox /\ mode' = mode /\ http' = http BY <1>12 DEF Swallows
  <2>2. PromptIsDue' BY <1>7, <2>1 DEF PromptIsDue
  <2>3. LostForAReason'
    <3> SUFFICES ASSUME AtData', toModem' = <<>> PROVE DataIsLost' BY DEF LostForAReason
    <3>1. c = "DATA" BY <1>0, <1>1, <1>2, <1>3, <1>4 DEF DataIsLast
    <3>2. mode' = "text" BY <1>0, <1>12, <1>13, <2>1, <3>1 DEF Types
    <3> QED BY <3>2 DEF DataIsLost
  <2>4. mode # "body" BY <1>12, <1>13
  <2>5. BodyIsDue' BY <2>1, <2>4 DEF BodyIsDue
  <2> QED BY <1>5, <2>2, <2>3, <2>5
<1> QED BY <1>2, <1>10, <1>11, <1>12

\* Every step keeps what holds of any modem.
LEMMA RoundKept ==
  ASSUME Round, [Next]_vars
  PROVE  Round'
<1>1. Types' BY TypesKept DEF Round
<1>2. CASE Sketch
  <2>1. Send \/ (ReadAnswer \/ Timeout) BY <1>2 DEF Sketch
  <2>2. DataIsLast' /\ PromptIsDue' /\ BodyIsDue' /\ LostForAReason'
    BY <2>1, RoundAfterSend, RoundAfterRead
  <2> QED BY <1>1, <2>2 DEF Round
<1>3. CASE Modem BY <1>1, <1>3, RoundAfterModem DEF Round
<1>4. CASE UNCHANGED vars
  BY <1>1, <1>4 DEF vars, Round, DataIsLast, PromptIsDue, BodyIsDue, LostForAReason, DataIsLost,
                    PromptIsHere, AtData
<1> QED BY <1>2, <1>3, <1>4 DEF Next

\* The sketch and the modem stay together, whatever fails and comes late.
THEOREM RoundInvariance == Spec => []Round
<1>1. Init => Round BY InitPost DEF Post
<1>2. Round /\ [Next]_vars => Round' BY RoundKept
<1> QED BY <1>1, <1>2, PTL DEF Spec

\* WaitsInVainOnlyIf: whatever fails and comes late, no wait takes a prompt but
\* the one for it, and no DATA is read as a body: the sketch waits for a prompt
\* that is neither there nor on its way only where the modem refused the command,
\* where its HTTP service is off or where it reads commands as text.
THEOREM PromptsAreNotLost == Spec => []WaitsInVainOnlyIf
<1>1. Round => WaitsInVainOnlyIf
  <2> SUFFICES ASSUME Round, Command = "DATA", waiting, toModem = <<>>, ~PromptIsHere
               PROVE  ~http \/ mode = "text" \/ DataRefused
    BY DEF WaitsInVainOnlyIf
  <2>1. AtData BY Successors DEF Round, Types, AtData
  <2>2. DataIsLost BY <2>1 DEF Round, LostForAReason
  <2>3. CASE inbox # <<>> /\ inbox[Len(inbox)] = [is |-> "ERROR", of |-> "DATA"]
    <3>1. inbox \in Seq([is : Answers, of : Names]) BY DEF Round, Types
    <3>2. Len(inbox) \in DOMAIN inbox BY <2>3, <3>1, EmptySeq, LenProperties
    <3> QED BY <2>3, <3>2 DEF DataRefused
  <2> QED BY <2>2, <2>3 DEF DataIsLost, DataRefused
<1> QED BY <1>1, RoundInvariance, PTL

\* Sending keeps the body next and the ACTION behind it.
LEMMA PostAfterSend ==
  ASSUME Post, Send
  PROVE  BodyIsNext' /\ ActionFollows' /\ ~stale'
<1>0. Types /\ BodyIsNext /\ ActionFollows /\ step \in Steps BY DEF Post, Round, Types
<1> DEFINE n == Len(toModem)
<1>1. /\ n \in Nat /\ Len(toModem') = n + 1 /\ toModem'[n + 1] = Command /\ toModem' # <<>>
      /\ \A i \in 1..n : toModem'[i] = toModem[i]
      /\ ~waiting /\ mode' = mode /\ fresh' = fresh /\ stale' = stale
      /\ toModem' \in Seq(Names)
  BY <1>0, SendGoes
<1>2. \/ step' = step /\ waiting' = TRUE
      \/ step \in {7, 8} /\ step' = step + 1 /\ waiting' = FALSE
  BY <1>0, SendGoes
<1>3. (Command = "BODY" <=> step = 5) /\ (Command = "ACTION" <=> step = 6) BY <1>0, Successors
<1>4. step = 5 => toModem = <<>> /\ n = 0 /\ mode = "body" BY <1>0, <1>1 DEF BodyIsNext
<1>5. step = 6 => (toModem = <<>> /\ n = 0 /\ fresh) \/ (toModem = <<"BODY">> /\ n = 1 /\ toModem[1] = "BODY")
  BY <1>0, <1>1 DEF BodyIsNext
<1>6. BodyIsNext'
  <2>1. ASSUME NEW i \in 1..(n + 1), toModem'[i] = "BODY" PROVE i = 1 /\ mode' = "body"
    <3>1. i \in 1..n \/ i = n + 1 BY <1>1
    <3>2. CASE i \in 1..n BY <1>0, <1>1, <2>1, <3>2 DEF BodyIsNext
    <3>3. CASE i = n + 1 BY <1>1, <1>3, <1>4, <2>1, <3>3
    <3> QED BY <3>1, <3>2, <3>3
  <2>2. ~(step' = 5 /\ ~waiting') BY <1>2
  <2>3. (step' = 5 /\ waiting') \/ (step' = 6 /\ ~waiting') => toModem' = <<"BODY">>
    <3>1. ASSUME (step' = 5 /\ waiting') \/ (step' = 6 /\ ~waiting') PROVE step = 5 BY <1>2, <3>1
    <3>2. step = 5 => toModem' = Append(<<>>, "BODY") BY <1>3, <1>4 DEF Send
    <3> QED BY <3>1, <3>2
  <2> QED BY <1>1, <2>1, <2>2, <2>3 DEF BodyIsNext
<1>7. ActionFollows'
  <2>1. step = 6 => \A i \in 1..n : toModem[i] # "ACTION" BY <1>1, <1>5
  <2>2. n > 0 => toModem'[1] = toModem[1] BY <1>1
  <2>3. ASSUME NEW i \in 1..(n + 1), toModem'[i] = "ACTION" PROVE fresh' \/ toModem'[1] = "BODY"
    <3>1. i \in 1..n \/ i = n + 1 BY <1>1
    <3>2. CASE i \in 1..n
      <4>1. toModem[i] = "ACTION" /\ n > 0 BY <1>1, <2>3, <3>2
      <4> QED BY <1>0, <1>1, <2>2, <3>2, <4>1 DEF ActionFollows
    <3>3. CASE i = n + 1
      <4>1. step = 6 BY <1>1, <1>3, <2>3, <3>3
      <4> QED BY <1>1, <1>5, <2>2, <4>1
    <3> QED BY <3>1, <3>2, <3>3
  <2>4. ASSUME NEW i \in 1..(n + 1), NEW j \in 1..(n + 1), toModem'[i] = "ACTION", toModem'[j] = "ACTION"
        PROVE  i = j
    <3>1. (i \in 1..n \/ i = n + 1) /\ (j \in 1..n \/ j = n + 1) BY <1>1
    <3>2. i = n + 1 \/ j = n + 1 => step = 6 BY <1>1, <1>3, <2>4
    <3>3. i \in 1..n \/ j \in 1..n => step # 6 BY <1>1, <2>1, <2>4
    <3>4. i \in 1..n /\ j \in 1..n => i = j BY <1>0, <1>1, <2>4 DEF ActionFollows
    <3> QED BY <3>1, <3>2, <3>3, <3>4
  <2> QED BY <1>1, <2>3, <2>4 DEF ActionFollows
<1> QED BY <1>1, <1>6, <1>7 DEF Post

\* Reading an answer, or none, keeps the body next and the ACTION behind it.
LEMMA PostAfterRead ==
  ASSUME Post, ReadAnswer \/ Timeout
  PROVE  BodyIsNext' /\ ActionFollows' /\ ~stale'
<1>0. Types /\ PromptIsDue /\ BodyIsNext /\ ActionFollows BY DEF Post, Round
<1>1. /\ toModem' = toModem /\ mode' = mode /\ fresh' = fresh /\ stale' = stale /\ waiting
      /\ \/ step' = step /\ waiting' = TRUE
         \/ step' # step /\ waiting' = FALSE /\ (step' = 5 => ReadAnswer /\ Head(inbox).is = "DOWNLOAD" /\ step = 4)
      /\ step' = 6 /\ ~waiting' => step = 5
  BY <1>0, ReadGoes
<1>2. step' = 5 /\ ~waiting' => toModem = <<>> /\ mode = "body"
  <2> SUFFICES ASSUME step' = 5, ~waiting' PROVE toModem = <<>> /\ mode = "body" OBVIOUS
  <2>1. ReadAnswer /\ Head(inbox).is = "DOWNLOAD" BY <1>1
  <2>2. inbox # <<>> /\ inbox \in Seq([is : Answers, of : Names]) BY <1>0, <2>1 DEF ReadAnswer, Types
  <2>3. 1 \in 1..Len(inbox) /\ Head(inbox) = inbox[1] BY <2>2, Shortened
  <2> QED BY <1>0, <2>1, <2>3 DEF PromptIsDue
<1>3. (step' = 5 /\ waiting') \/ (step' = 6 /\ ~waiting') => step = 5 /\ waiting BY <1>1
<1>4. BodyIsNext' BY <1>0, <1>1, <1>2, <1>3 DEF BodyIsNext
<1>5. ActionFollows' BY <1>0, <1>1 DEF ActionFollows
<1> QED BY <1>1, <1>4, <1>5 DEF Post

\* A modem that takes the bodies it asks for performs an ACTION on a body of its round.
LEMMA PostAfterModem ==
  ASSUME Post, Modem, "BODY" \notin MayFail
  PROVE  BodyIsNext' /\ ActionFollows' /\ ~stale'
<1>0. Types /\ BodyIsNext /\ ActionFollows /\ ~stale BY DEF Post, Round
<1>1. PICK c : c = toModem[1] OBVIOUS
<1>2. /\ toModem # <<>> /\ toModem' = Tail(toModem) /\ c \in Names /\ step' = step /\ waiting' = waiting
      /\ \/ Performs(c) \/ Refuses(c)
         \/ Swallows(c) /\ (c = "BODY" => mode # "body")
  BY <1>0, <1>1, ModemGoes
<1> DEFINE n == Len(toModem)
<1>3. /\ n \in Nat \ {0} /\ Len(toModem') = n - 1
      /\ \A i \in 1..(n - 1) : toModem'[i] = toModem[i + 1]
      /\ toModem' = <<>> <=> n = 1
  BY <1>0, <1>2, Shortened DEF Types
<1>4. 1 \in 1..n BY <1>3
<1>5. c = "BODY" => fresh'
  <2> SUFFICES ASSUME c = "BODY" PROVE fresh' OBVIOUS
  <2>1. mode = "body" BY <1>0, <1>1, <1>4 DEF BodyIsNext
  <2>2. Accepts(c) BY DEF Accepts, Http, Commands
  <2>3. ~Refuses(c) BY <2>2 DEF Refuses
  <2>4. Performs(c) BY <1>2, <2>1, <2>3
  <2>5. fresh' = ((fresh \/ c = "BODY") /\ c # "ACTION") BY <2>4 DEF Performs
  <2> QED BY <2>5
<1>6. ASSUME fresh, c # "ACTION" PROVE fresh'
  <2>1. fresh' = ((fresh \/ c = "BODY") /\ c # "ACTION") \/ fresh' = (fresh /\ c # "ACTION")
    BY <1>2 DEF Performs, Refuses, Swallows
  <2> QED BY <1>6, <2>1
<1>7. c = "ACTION" => fresh
  <2>1. c = "ACTION" => fresh \/ toModem[1] = "BODY" BY <1>0, <1>1, <1>4 DEF ActionFollows
  <2> QED BY <1>1, <2>1
<1>8. ~stale'
  <2>1. stale' = (stale \/ (c = "ACTION" /\ ~fresh)) \/ stale' = stale
    BY <1>2 DEF Performs, Refuses, Swallows
  <2> QED BY <1>0, <1>7, <2>1
<1>9. BodyIsNext'
  <2>1. ASSUME NEW i \in 1..(n - 1), toModem'[i] = "BODY" PROVE FALSE
    <3>1. i + 1 \in 1..n /\ toModem[i + 1] = "BODY" BY <1>3, <2>1
    <3>2. i + 1 = 1 BY <1>0, <3>1 DEF BodyIsNext
    <3> QED BY <3>2
  <2>2. ~(step' = 5 /\ ~waiting') BY <1>0, <1>2 DEF BodyIsNext
  <2>3. ASSUME (step' = 5 /\ waiting') \/ (step' = 6 /\ ~waiting') PROVE toModem' = <<>> /\ fresh'
    <3>1. toModem = <<"BODY">> BY <1>0, <1>2, <2>3 DEF BodyIsNext
    <3>2. n = 1 /\ c = "BODY" BY <1>1, <3>1
    <3> QED BY <1>3, <1>5, <3>2
  <2> QED BY <1>3, <2>1, <2>2, <2>3 DEF BodyIsNext
<1>10. ActionFollows'
  <2>1. ASSUME NEW i \in 1..(n - 1), toModem'[i] = "ACTION" PROVE fresh'
    <3>1. i + 1 \in 1..n /\ toModem[i + 1] = "ACTION" BY <1>3, <2>1
    <3>2. fresh \/ c = "BODY" BY <1>0, <1>1, <3>1 DEF ActionFollows
    <3>3. c # "ACTION"
      <4>1. toModem[1] = "ACTION" => 1 = i + 1 BY <1>0, <1>4, <3>1 DEF ActionFollows
      <4> QED BY <1>1, <4>1
    <3> QED BY <1>5, <1>6, <3>2, <3>3
  <2>2. ASSUME NEW i \in 1..(n - 1), NEW j \in 1..(n - 1), toModem'[i] = "ACTION", toModem'[j] = "ACTION"
        PROVE  i = j
    <3>1. /\ i + 1 \in 1..n /\ toModem[i + 1] = "ACTION"
          /\ j + 1 \in 1..n /\ toModem[j + 1] = "ACTION"
      BY <1>3, <2>2
    <3>2. i + 1 = j + 1 BY <1>0, <3>1 DEF ActionFollows
    <3> QED BY <3>2
  <2> QED BY <1>3, <2>1, <2>2 DEF ActionFollows
<1> QED BY <1>8, <1>9, <1>10

\* PostsAreCurrent: whatever else fails and comes late, and however often, an
\* ACTION that is performed posts the body of its own round.
THEOREM PostsStayCurrent == "BODY" \notin MayFail /\ Spec => []PostsAreCurrent
<1> SUFFICES ASSUME "BODY" \notin MayFail PROVE Spec => []PostsAreCurrent OBVIOUS
<1>1. Init => Post BY InitPost
<1>2. Post /\ [Next]_vars => Post'
  <2> SUFFICES ASSUME Post, [Next]_vars PROVE Post' OBVIOUS
  <2>1. Round' BY RoundKept DEF Post
  <2>2. CASE Sketch
    <3>1. Send \/ (ReadAnswer \/ Timeout) BY <2>2 DEF Sketch
    <3>2. BodyIsNext' /\ ActionFollows' /\ ~stale' BY <3>1, PostAfterSend, PostAfterRead
    <3> QED BY <2>1, <3>2 DEF Post
  <2>3. CASE Modem BY <2>1, <2>3, PostAfterModem DEF Post
  <2>4. CASE UNCHANGED vars BY <2>1, <2>4 DEF vars, Post, BodyIsNext, ActionFollows
  <2> QED BY <2>2, <2>3, <2>4 DEF Next
<1>3. Post => PostsAreCurrent BY DEF Post, PostsAreCurrent
<1> QED BY <1>1, <1>2, <1>3, PTL DEF Spec

(***************************************************************************)
(* The position, for any number of sentences and gaps, wherever these are. *)
(*                                                                         *)
(* Where the one gap since a $ ends, the parser has the beginning of one   *)
(* sentence and hears the rest of another.  Then the parity is not that of *)
(* any sentence for good, for the texts of two sentences differ, and a     *)
(* text that was cut is in none (Ragged, Spoiled), or the * was lost and   *)
(* the checksum with it (Over), or nothing that counts is missing: the     *)
(* beginnings of the two sentences are alike (InStep), or what was lost    *)
(* are commas, an even number in a row, which only a sentence without a    *)
(* fix has (Shifted).  A checksum that matches by luck lets what is staged *)
(* be committed, and changes nothing else of the parser.                   *)
(***************************************************************************)

\* What a receiver may send.
AllKinds == {"rmc", "rmcNoFix", "gga", "ggaNoFix", "other"}

\* Sentence s as a line of characters, where its * is and where its commas are.
Line(k, s) ==
    <<Dollar>> \o Body(k, s) \o <<Star, <<"sum", ParityOf(Body(k, s))>>, <<"CR", 0>>, <<"LF", 0>> >>
StarAt(k) == IF HasFix(k) THEN 21 ELSE IF k = "other" THEN 5 ELSE 15
CommasOf(k) ==
    IF HasFix(k) THEN {3, 5, 7, 9, 11, 13, 15, 17, 19}
    ELSE IF k = "rmcNoFix" THEN {3, 5, 7, 8, 9, 10, 11, 12, 13}
    ELSE IF k = "ggaNoFix" THEN {3, 5, 6, 7, 8, 9, 11, 13, 14}
    ELSE {3}

\* How many of the first n characters are commas.
CommasUpTo(k, n) ==
    IF HasFix(k) THEN IF n < 20 THEN (n - 1) \div 2 ELSE 9
    ELSE IF n < 3 THEN 0 ELSE IF n < 5 THEN 1
    ELSE IF k = "rmcNoFix" THEN IF n < 7 THEN 2 ELSE IF n < 13 THEN n - 4 ELSE 9
    ELSE IF k = "ggaNoFix" THEN IF n < 10 THEN n - 3 ELSE IF n < 11 THEN 6
                                ELSE IF n < 13 THEN 7 ELSE IF n < 14 THEN 8 ELSE 9
    ELSE 1

\* What lies between the $ and the *, and its parity up to a place.
Between(k) == 2..(StarAt(k) - 1)
TextsOf(k) == Between(k) \ CommasOf(k)
TextsUpTo(k, s, n) == {Line(k, s)[i] : i \in {j \in TextsOf(k) : j <= n}}
ParityUpTo(k, s, n) ==
    TextsUpTo(k, s, n) \cup (IF CommasUpTo(k, n) % 2 = 1 THEN {Comma} ELSE {})

TypeOf(k) == IF k \in {"rmc", "rmcNoFix"} THEN "RMC" ELSE IF k = "other" THEN "OTHER" ELSE "GGA"

\* Where the texts are that a position needs.
PlaceOf(k, f) ==
    (IF f = "lat" THEN 6 ELSE IF f = "ns" THEN 8 ELSE IF f = "lng" THEN 10 ELSE 12)
        + (IF k = "rmc" THEN 2 ELSE 0)
FixAt(k) == IF k = "rmc" THEN 7 ELSE 15

\* What the parser makes of the first n characters of sentence s.
Understood(k, s, n) ==
    /\ curSentenceType = IF n <= 2 THEN "OTHER" ELSE TypeOf(k)
    /\ sentenceHasFix = (HasFix(k) /\ n >= FixAt(k))
    /\ HasFix(k) => \A f \in Location : n > PlaceOf(k, f) => staged[f] = Fix(s)[f]

\* The text of the term it is in.
TermAt(k, s, n) == IF n \in TextsOf(k) \cup {StarAt(k) + 1} THEN <<Line(k, s)[n]>> ELSE <<>>

\* The parser after the first n characters of sentence s, of which d commas were lost.
Heard(k, s, n, d) ==
    /\ parity = ParityUpTo(k, s, n)
    /\ isChecksumTerm <=> n \in {StarAt(k), StarAt(k) + 1}
    /\ term = TermAt(k, s, n)
    /\ n < StarAt(k) => curTermNumber = CommasUpTo(k, n) - d
    /\ n <= StarAt(k) + 1 => Understood(k, s, n)
    /\ n = StarAt(k) + 1 => sumOf = s

\* Commas were lost in a row, an even number, from a sentence without a fix.
Skipped(k, n, d) ==
    /\ d \in {2, 4, 6} /\ ~HasFix(k) /\ n > 3
    /\ (n < StarAt(k) => CommasUpTo(k, n) - d >= 1) /\ ((k = "rmcNoFix" => n > 6))

\* Where the receiver is.
Here(k, s, n) == kind = k /\ id = s /\ pos = n

\* The one gap since the $ is over, and the rest of this line comes through.
Late == ~gap /\ pos > 0 /\ ~whole /\ cuts = 1

\* The parser has a beginning of a sentence, and nothing else.
InStep(k, s, n) ==
    /\ Heard(k, s, n, 0)
    /\ \/ ~gap /\ pos = 0 /\ id > s
       \/ ~gap /\ Here(k, s, n)
       \/ gap /\ (pos > 0 => ~whole) /\ (id > s \/ (id = s /\ kind = k /\ pos > n))

\* It has all but those commas.
Shifted(d) ==
    Late /\ \E k \in AllKinds, s \in Nat, n \in Nat : Here(k, s, n) /\ Skipped(k, n, d) /\ Heard(k, s, n, d)

\* It has a parity that the checksum will not be: x is in one of the two ...
Broken(x, k, s, n) ==
    /\ (x \in parity) # (x \in ParityUpTo(k, s, n))
    /\ isChecksumTerm /\ n < StarAt(k) => \A i \in Between(k) : Line(k, s)[i] # x

IsNoSum(t) == \A sum : t # << <<"sum", sum>> >>

\* ... and the term is no checksum, or that of this line.
OwnSum(k, s, n) == isChecksumTerm => IsNoSum(term) \/ (n = StarAt(k) + 1 /\ term = <<Line(k, s)[n]>>)

Spoiled(x) ==
    Late /\ \E k \in AllKinds, s \in Nat, n \in Nat : Here(k, s, n) /\ Broken(x, k, s, n) /\ OwnSum(k, s, n)

\* It has not seen the *, or what it has for a checksum is none.
Over == Late /\ pos > StarAt(kind) /\ (isChecksumTerm => IsNoSum(term))

\* The parity has what no text and no part of one is from here on.
Gone(x) ==
    /\ x \in parity /\ x # Comma
    /\ \A j \in AllKinds, t \in Nat :
           t > id \/ (t = id /\ j = kind /\ pos <= StarAt(j)) => \A i \in Between(j) : Line(j, t)[i] # x
    /\ \A t, q \in Nat : t > id \/ (t = id /\ q >= pos) => x # <<"part", <<t, q>> >>

\* The one gap since the $ goes on, and it has a part of a text.
Ragged(x) == gap /\ cuts = 1 /\ Gone(x) /\ (isChecksumTerm => IsNoSum(term))

\* The next character is a $, and the rest of the last line came through.
Dollared == ~gap /\ pos = 0 /\ cuts = 1

\* Staged and committed members, as functions.
Members ==
    /\ staged = [f \in Fields |-> staged[f]] /\ committed = [f \in Fields |-> committed[f]]
    /\ valid \subseteq Fields

ParserTypes ==
    /\ isChecksumTerm \in BOOLEAN /\ curTermNumber \in 0..255 /\ (\E S : term \in Seq(S)) /\ Members

FeedTypes ==
    /\ id \in 1..(MaxSentences + 1) /\ kind \in Kinds /\ pos \in 0..(StarAt(kind) + 2)
    /\ gap \in BOOLEAN /\ whole \in BOOLEAN /\ cuts \in 0..2
    /\ (pos = 0 => whole) /\ (~whole \/ gap => cuts # 0) /\ (whole /\ pos > 0 => ~gap /\ cuts = 0)

\* Where the parser and the receiver are, if there is no second gap.
Mode ==
    \/ cuts = 2
    \/ \E k \in AllKinds, s \in Nat : \E n \in 1..(StarAt(k) + 3) : InStep(k, s, n)
    \/ \E d \in {2, 4, 6} : Shifted(d)
    \/ \E x : Spoiled(x)
    \/ \E x : Ragged(x)
    \/ Over
    \/ Dollared

FeedInv == FeedTypes /\ ParserTypes /\ LocationIsOneFix /\ Mode

-----------------------------------------------------------------------------

\* A character with a meaning of its own.
IsText(c) ==
    c \notin Terminators \cup {Dollar} /\ (\A sum : c # <<"sum", sum>>) /\ \A at : c # <<"part", at>>

\* One character before a sequence and a sequence after it.
LEMMA Framed ==
    ASSUME NEW S, NEW a \in S, NEW b \in Seq(S), NEW e \in Seq(S)
    PROVE  LET line == (<<a>> \o b) \o e
           IN  /\ Len(line) = 1 + Len(b) + Len(e) /\ line[1] = a
               /\ \A i \in 2..(Len(b) + 1) : line[i] = b[i - 1]
               /\ \A i \in 1..Len(e) : line[Len(b) + 1 + i] = e[i]
<1>1. <<a>> \in Seq(S) /\ Len(<<a>>) = 1 /\ <<a>>[1] = a /\ Len(b) \in Nat /\ Len(e) \in Nat
  OBVIOUS
<1>2. PICK ab \in Seq(S) : ab = <<a>> \o b
  BY <1>1, ConcatProperties
<1>3. Len(ab) = 1 + Len(b) /\ \A i \in 1..(1 + Len(b)) : ab[i] = IF i <= 1 THEN <<a>>[i] ELSE b[i - 1]
  BY <1>1, <1>2, ConcatProperties
<1>4. PICK line \in Seq(S) : line = ab \o e
  BY <1>2, ConcatProperties
<1>5. Len(line) = Len(ab) + Len(e)
      /\ \A i \in 1..(Len(ab) + Len(e)) : line[i] = IF i <= Len(ab) THEN ab[i] ELSE e[i - Len(ab)]
  BY <1>4, ConcatProperties
<1>6. Len(line) = 1 + Len(b) + Len(e) /\ line[1] = a
  BY <1>1, <1>3, <1>5
<1>7. \A i \in 2..(Len(b) + 1) : line[i] = b[i - 1]
  BY <1>1, <1>3, <1>5
<1>8. \A i \in 1..Len(e) : line[Len(b) + 1 + i] = e[i]
  BY <1>1, <1>3, <1>5
<1> QED BY <1>2, <1>4, <1>6, <1>7, <1>8

\* Where what is in a line.
LEMMA LineEnds ==
    ASSUME NEW k \in AllKinds, NEW s \in Nat
    PROVE  /\ Len(Line(k, s)) = StarAt(k) + 3 /\ StarAt(k) \in 5..21
           /\ Line(k, s)[1] = Dollar /\ Line(k, s)[StarAt(k)] = Star
           /\ Line(k, s)[StarAt(k) + 1] = <<"sum", ParityOf(Body(k, s))>>
           /\ Line(k, s)[StarAt(k) + 2] = <<"CR", 0>> /\ Line(k, s)[StarAt(k) + 3] = <<"LF", 0>>
           /\ Len(Body(k, s)) = StarAt(k) - 2
           /\ \A i \in Between(k) : Line(k, s)[i] = Body(k, s)[i - 1]
<1> DEFINE S == {Dollar, Comma, Star, <<"CR", 0>>, <<"LF", 0>>, <<"sum", ParityOf(Body(k, s))>>,
                 <<"RMC", 0>>, <<"GGA", 0>>, <<"GSV", 0>>, <<"A", 0>>, <<"V", 0>>, <<"1", 0>>, <<"0", 0>>,
                 <<"N", 0>>, <<"E", 0>>, <<"time", s>>, <<"lat", s>>, <<"lng", s>>, <<"speed", s>>,
                 <<"course", s>>, <<"date", s>>, <<"sats", s>>, <<"hdop", s>>, <<"alt", s>>, <<"view", s>>}
           E == <<Star, <<"sum", ParityOf(Body(k, s))>>, <<"CR", 0>>, <<"LF", 0>> >>
<1>1. Body(k, s) \in Seq(S) /\ Len(Body(k, s)) = StarAt(k) - 2 /\ StarAt(k) \in 5..21
  <2>1. CASE k = "rmc" BY <2>1 DEF Body, StarAt, HasFix
  <2>2. CASE k = "rmcNoFix" BY <2>2 DEF Body, StarAt, HasFix
  <2>3. CASE k = "gga" BY <2>3 DEF Body, StarAt, HasFix
  <2>4. CASE k = "ggaNoFix" BY <2>4 DEF Body, StarAt, HasFix
  <2>5. CASE k = "other" BY <2>5 DEF Body, StarAt, HasFix
  <2> QED BY <2>1, <2>2, <2>3, <2>4, <2>5 DEF AllKinds
<1>2. E \in Seq(S) /\ Len(E) = 4 /\ <<Dollar>> \in Seq(S) /\ Len(<<Dollar>>) = 1
  OBVIOUS
<1>3. PICK T, e : T = S /\ e = E
  OBVIOUS
<1>4. /\ Len(e) = 4 /\ e[1] = Star /\ e[2] = <<"sum", ParityOf(Body(k, s))>>
      /\ e[3] = <<"CR", 0>> /\ e[4] = <<"LF", 0>>
  BY <1>3
<1>5. StarAt(k) \in 5..21 /\ Len(Body(k, s)) = StarAt(k) - 2
  BY <1>1
<1>6. Dollar \in T /\ Body(k, s) \in Seq(T) /\ e \in Seq(T)
  BY <1>1, <1>2, <1>3
<1>7. PICK b : b = Body(k, s)
  OBVIOUS
<1>8. PICK line : line = Line(k, s)
  OBVIOUS
<1>9. line = (<<Dollar>> \o b) \o e
  BY <1>3, <1>7, <1>8 DEF Line
<1>10. /\ Len(line) = 1 + Len(b) + Len(e) /\ line[1] = Dollar
       /\ \A i \in 2..(Len(b) + 1) : line[i] = b[i - 1]
       /\ \A i \in 1..Len(e) : line[Len(b) + 1 + i] = e[i]
  BY <1>6, <1>7, <1>9, Framed
<1>11. PICK n \in 5..21 : n = StarAt(k) /\ Len(b) = n - 2
  BY <1>5, <1>7
<1>12. /\ Len(line) = n + 3 /\ line[n] = e[1] /\ line[n + 1] = e[2] /\ line[n + 2] = e[3] /\ line[n + 3] = e[4]
       /\ \A i \in 2..(n - 1) : line[i] = b[i - 1]
  <2>1. \A i \in 1..4 : line[n - 1 + i] = e[i]
    <3>1. Len(e) = 4 /\ Len(b) + 1 = n - 1
      BY <1>4, <1>11
    <3> QED BY <1>10, <3>1
  <2>2. n - 1 + 1 = n /\ n - 1 + 2 = n + 1 /\ n - 1 + 3 = n + 2 /\ n - 1 + 4 = n + 3
    OBVIOUS
  <2>3. Len(line) = n + 3 /\ \A i \in 2..(n - 1) : line[i] = b[i - 1]
    BY <1>4, <1>10, <1>11
  <2> QED BY <2>1, <2>2, <2>3
<1> QED BY <1>4, <1>7, <1>8, <1>10, <1>11, <1>12 DEF Between

\* Where the texts of a line are.
LEMMA TextPlaces ==
    ASSUME NEW k \in AllKinds
    PROVE  /\ k = "rmc" => TextsOf(k) = {2, 4, 6, 8, 10, 12, 14, 16, 18, 20}
           /\ k = "rmcNoFix" => TextsOf(k) = {2, 4, 6, 14}
           /\ k = "gga" => TextsOf(k) = {2, 4, 6, 8, 10, 12, 14, 16, 18, 20}
           /\ k = "ggaNoFix" => TextsOf(k) = {2, 4, 10, 12}
           /\ k = "other" => TextsOf(k) = {2, 4}
BY DEF TextsOf, CommasOf, Between, StarAt, HasFix

\* The commas of a line, and what is not one of them.
LEMMA LineChars ==
    ASSUME NEW k \in AllKinds, NEW s \in Nat
    PROVE  /\ \A i \in CommasOf(k) : Line(k, s)[i] = Comma
           /\ \A i \in TextsOf(k) : IsText(Line(k, s)[i])
           /\ \A i, j \in TextsOf(k) : Line(k, s)[i] = Line(k, s)[j] => i = j
           /\ CommasOf(k) \subseteq Between(k) /\ TextsOf(k) \subseteq Between(k)
           /\ 2 \in TextsOf(k) /\ 4 \in TextsOf(k)
<1>1. CommasOf(k) \subseteq Between(k) /\ TextsOf(k) \subseteq Between(k) /\ 2 \in TextsOf(k) /\ 4 \in TextsOf(k)
  BY DEF CommasOf, Between, TextsOf, StarAt
<1> DEFINE b == Body(k, s)
<1>2. \A i \in CommasOf(k) : b[i - 1] = Comma
  <2>1. CASE k = "rmc" BY <2>1 DEF Body, CommasOf, HasFix
  <2>2. CASE k = "rmcNoFix" BY <2>2 DEF Body, CommasOf, HasFix
  <2>3. CASE k = "gga" BY <2>3 DEF Body, CommasOf, HasFix
  <2>4. CASE k = "ggaNoFix" BY <2>4 DEF Body, CommasOf, HasFix
  <2>5. CASE k = "other" BY <2>5 DEF Body, CommasOf, HasFix
  <2> QED BY <2>1, <2>2, <2>3, <2>4, <2>5 DEF AllKinds
<1>3. /\ k = "rmc" => TextsOf(k) = {2, 4, 6, 8, 10, 12, 14, 16, 18, 20}
      /\ k = "rmcNoFix" => TextsOf(k) = {2, 4, 6, 14}
      /\ k = "gga" => TextsOf(k) = {2, 4, 6, 8, 10, 12, 14, 16, 18, 20}
      /\ k = "ggaNoFix" => TextsOf(k) = {2, 4, 10, 12}
      /\ k = "other" => TextsOf(k) = {2, 4}
  BY TextPlaces
<1> DEFINE Said == {"RMC", "GGA", "GSV", "A", "V", "1", "0", "N", "E", "time", "lat", "lng", "speed",
                       "course", "date", "sats", "hdop", "alt", "view"}
<1>10. \A name \in Said : \A of : IsText(<<name, of>>)
  BY DEF IsText, Terminators, Dollar, Comma, Star
<1>4. \A i \in TextsOf(k) : \E name \in Said : b[i - 1] \in {<<name, s>>, <<name, 0>>}
  <2>1. CASE k = "rmc" BY <1>3, <2>1 DEF Body
  <2>2. CASE k = "rmcNoFix" BY <1>3, <2>2 DEF Body
  <2>3. CASE k = "gga" BY <1>3, <2>3 DEF Body
  <2>4. CASE k = "ggaNoFix" BY <1>3, <2>4 DEF Body
  <2>5. CASE k = "other" BY <1>3, <2>5 DEF Body
  <2> QED BY <2>1, <2>2, <2>3, <2>4, <2>5 DEF AllKinds
<1>5. \A i, j \in TextsOf(k) : b[i - 1] = b[j - 1] => i = j
  <2>1. CASE k = "rmc" BY <1>3, <2>1 DEF Body
  <2>2. CASE k = "rmcNoFix" BY <1>3, <2>2 DEF Body
  <2>3. CASE k = "gga" BY <1>3, <2>3 DEF Body
  <2>4. CASE k = "ggaNoFix" BY <1>3, <2>4 DEF Body
  <2>5. CASE k = "other" BY <1>3, <2>5 DEF Body
  <2> QED BY <2>1, <2>2, <2>3, <2>4, <2>5 DEF AllKinds
<1>6. \A i \in Between(k) : Line(k, s)[i] = b[i - 1]
  BY LineEnds
<1> HIDE DEF b, Said
<1>7. \A i \in CommasOf(k) : Line(k, s)[i] = Comma
  BY <1>1, <1>2, <1>6
<1>8. \A i \in TextsOf(k) : IsText(Line(k, s)[i])
  BY <1>1, <1>4, <1>6, <1>10
<1>9. \A i, j \in TextsOf(k) : Line(k, s)[i] = Line(k, s)[j] => i = j
  BY <1>1, <1>5, <1>6
<1> QED BY <1>1, <1>7, <1>8, <1>9

\* The texts of a line that say which sentence it is, or of what kind.
LEMMA LineNames ==
    ASSUME NEW k \in AllKinds, NEW s \in Nat
    PROVE  /\ \A j \in AllKinds, t \in Nat : t # s => \A i \in Between(j) : Line(j, t)[i] # Line(k, s)[4]
           /\ \A j \in AllKinds, t \in Nat : TypeOf(j) # TypeOf(k)
                => \A i \in Between(j) : Line(j, t)[i] # Line(k, s)[2]
           /\ Line(k, s)[2] = IF TypeOf(k) = "RMC" THEN <<"RMC", 0>> ELSE
                              IF TypeOf(k) = "GGA" THEN <<"GGA", 0>> ELSE <<"GSV", 0>>
<1>1. Line(k, s)[4] \in {<<"time", s>>, <<"view", s>>}
      /\ Line(k, s)[2] = IF TypeOf(k) = "RMC" THEN <<"RMC", 0>> ELSE
                         IF TypeOf(k) = "GGA" THEN <<"GGA", 0>> ELSE <<"GSV", 0>>
  <2>1. 2 \in Between(k) /\ 4 \in Between(k)
    BY LineChars
  <2>2. Line(k, s)[4] = Body(k, s)[3] /\ Line(k, s)[2] = Body(k, s)[1]
    BY <2>1, LineEnds
  <2> QED BY <2>2 DEF Body, TypeOf, AllKinds
<1>2. ASSUME NEW j \in AllKinds, NEW t \in Nat, NEW i \in Between(j)
      PROVE  /\ t # s => Line(j, t)[i] \notin {<<"time", s>>, <<"view", s>>}
             /\ TypeOf(j) # TypeOf(k) => Line(j, t)[i] # Line(k, s)[2]
  <2>1. Line(j, t)[i] = Body(j, t)[i - 1]
    BY LineEnds
  <2>2. CASE i \in TextsOf(j)
    <3>1. CASE j = "rmc" BY <1>1, <2>1, <2>2, <3>1, TextPlaces DEF Body, TypeOf
    <3>2. CASE j = "rmcNoFix" BY <1>1, <2>1, <2>2, <3>2, TextPlaces DEF Body, TypeOf
    <3>3. CASE j = "gga" BY <1>1, <2>1, <2>2, <3>3, TextPlaces DEF Body, TypeOf
    <3>4. CASE j = "ggaNoFix" BY <1>1, <2>1, <2>2, <3>4, TextPlaces DEF Body, TypeOf
    <3>5. CASE j = "other" BY <1>1, <2>1, <2>2, <3>5, TextPlaces DEF Body, TypeOf
    <3> QED BY <3>1, <3>2, <3>3, <3>4, <3>5 DEF AllKinds
  <2>3. CASE i \in CommasOf(j)
    <3>1. Line(j, t)[i] = <<",", 0>>
      BY <2>3, LineChars DEF Comma
    <3>2. <<",", 0>> \notin {<<"time", s>>, <<"view", s>>, <<"RMC", 0>>, <<"GGA", 0>>, <<"GSV", 0>>}
      OBVIOUS
    <3> QED BY <1>1, <3>1, <3>2
  <2> QED BY <2>2, <2>3 DEF TextsOf
<1> QED BY <1>1, <1>2

-----------------------------------------------------------------------------

\* One more character counts, or takes back, one more.
LEMMA CommaCounted ==
    ASSUME NEW k \in AllKinds, NEW n \in 1..(StarAt(k) + 2)
    PROVE  /\ CommasUpTo(k, n) \in 0..9 /\ CommasUpTo(k, 1) = 0
           /\ CommasUpTo(k, n + 1) = CommasUpTo(k, n) + (IF n + 1 \in CommasOf(k) THEN 1 ELSE 0)
           /\ n >= StarAt(k) - 1 => CommasUpTo(k, n) % 2 = 1
<1>1. CASE k = "other" BY <1>1 DEF CommasUpTo, CommasOf, StarAt, HasFix
<1>2. CASE k = "rmcNoFix" BY <1>2 DEF CommasUpTo, CommasOf, StarAt, HasFix
<1>3. CASE k = "ggaNoFix" BY <1>3 DEF CommasUpTo, CommasOf, StarAt, HasFix
<1>4. CASE HasFix(k)
  <2>1. StarAt(k) = 21 /\ CommasOf(k) = {3, 5, 7, 9, 11, 13, 15, 17, 19}
        /\ \A m \in Nat : CommasUpTo(k, m) = IF m < 20 THEN (m - 1) \div 2 ELSE 9
    BY <1>4 DEF StarAt, CommasOf, CommasUpTo
  <2>2. n \in 1..23
    BY <2>1
  <2> QED BY <2>1, <2>2
<1> QED BY <1>1, <1>2, <1>3, <1>4 DEF AllKinds, HasFix

\* The parity, character by character, up to the * and after it.
LEMMA ParityCounted ==
    ASSUME NEW k \in AllKinds, NEW s \in Nat, NEW n \in 1..(StarAt(k) + 2)
    PROVE  /\ ParityUpTo(k, s, 1) = {}
           /\ n + 1 \in Between(k) => \A x : x \in ParityUpTo(k, s, n + 1)
                                          <=> ((x \in ParityUpTo(k, s, n)) # (x = Line(k, s)[n + 1]))
           /\ n >= StarAt(k) - 1 => ParityUpTo(k, s, n + 1) = ParityUpTo(k, s, n)
<1>1. ParityUpTo(k, s, 1) = {}
  <2>1. TextsUpTo(k, s, 1) = {}
    BY DEF TextsUpTo, TextsOf, Between, StarAt
  <2>2. CommasUpTo(k, 1) = 0
    BY CommaCounted
  <2> QED BY <2>1, <2>2 DEF ParityUpTo
<1>2. PICK c \in Nat, d \in Nat : c = CommasUpTo(k, n) /\ d = CommasUpTo(k, n + 1)
                                  /\ d = c + (IF n + 1 \in CommasOf(k) THEN 1 ELSE 0)
                                  /\ (n >= StarAt(k) - 1 => c % 2 = 1)
  BY CommaCounted
<1>3. StarAt(k) \in 5..21
  BY LineEnds
<1>4. ~IsText(Comma)
  BY DEF IsText, Terminators
<1>5. Comma \notin TextsUpTo(k, s, n)
  BY <1>4, LineChars DEF TextsUpTo
<1>6. CASE n + 1 \in TextsOf(k)
  <2>1. {j \in TextsOf(k) : j <= n + 1} = {j \in TextsOf(k) : j <= n} \cup {n + 1}
    BY <1>3, <1>6 DEF TextsOf, Between
  <2>2. TextsUpTo(k, s, n + 1) = TextsUpTo(k, s, n) \cup {Line(k, s)[n + 1]}
    BY <2>1 DEF TextsUpTo
  <2>3. Line(k, s)[n + 1] \notin TextsUpTo(k, s, n)
    BY <1>3, <1>6, LineChars DEF TextsUpTo
  <2>4. Line(k, s)[n + 1] # Comma
    BY <1>4, <1>6, LineChars
  <2>5. d = c
    BY <1>2, <1>6 DEF TextsOf
  <2>6. n + 1 < StarAt(k)
    BY <1>3, <1>6 DEF TextsOf, Between
  <2> QED BY <1>1, <1>2, <1>3, <2>2, <2>3, <2>4, <2>5, <2>6 DEF ParityUpTo
<1>7. CASE n + 1 \in CommasOf(k)
  <2>1. {j \in TextsOf(k) : j <= n + 1} = {j \in TextsOf(k) : j <= n}
    BY <1>3, <1>7 DEF TextsOf, Between
  <2>2. TextsUpTo(k, s, n + 1) = TextsUpTo(k, s, n)
    BY <2>1 DEF TextsUpTo
  <2>3. Line(k, s)[n + 1] = Comma
    BY <1>7, LineChars
  <2>4. d = c + 1
    BY <1>2, <1>7
  <2>5. (d % 2 = 1) # (c % 2 = 1)
    BY <2>4
  <2>6. n + 1 < StarAt(k)
    BY <1>3, <1>7, LineChars DEF Between
  <2> QED BY <1>1, <1>2, <1>3, <1>5, <2>2, <2>3, <2>5, <2>6 DEF ParityUpTo
<1>8. CASE n + 1 \notin Between(k)
  <2>1. n + 1 >= StarAt(k)
    BY <1>3, <1>8 DEF Between
  <2>2. n + 1 \notin CommasOf(k)
    BY <1>8, LineChars
  <2>3. {j \in TextsOf(k) : j <= n + 1} = {j \in TextsOf(k) : j <= n}
    BY <1>3, <2>1 DEF TextsOf, Between
  <2>4. TextsUpTo(k, s, n + 1) = TextsUpTo(k, s, n)
    BY <2>3 DEF TextsUpTo
  <2>5. d = c
    BY <1>2, <2>2
  <2> QED BY <1>1, <1>2, <1>8, <2>4, <2>5 DEF ParityUpTo
<1> QED BY <1>6, <1>7, <1>8 DEF TextsOf

\* The commas of each line are odd in number.
LEMMA CommasAreOdd ==
    ASSUME NEW k \in AllKinds
    PROVE  Cardinality({i - 1 : i \in CommasOf(k)}) % 2 = 1
<1>1. \A a, b, c : a # b /\ a # c /\ b # c => IsFiniteSet({a, b, c}) /\ Cardinality({a, b, c}) = 3
  <2> TAKE a, b, c
  <2>1. IsFiniteSet({a}) /\ Cardinality({a}) = 1
    BY FS_Singleton
  <2>2. IsFiniteSet({a} \cup {b}) /\ (a # b => Cardinality({a} \cup {b}) = 2)
    BY <2>1, FS_AddElement
  <2>3. a # b /\ a # c /\ b # c => IsFiniteSet(({a} \cup {b}) \cup {c}) /\ Cardinality(({a} \cup {b}) \cup {c}) = 3
    BY <2>2, FS_AddElement
  <2>4. ({a} \cup {b}) \cup {c} = {a, b, c}
    OBVIOUS
  <2> QED BY <2>3, <2>4
<1>2. \A S, T : IsFiniteSet(S) /\ IsFiniteSet(T) /\ S \cap T = {}
              => IsFiniteSet(S \cup T) /\ Cardinality(S \cup T) = Cardinality(S) + Cardinality(T)
  <2> TAKE S, T
  <2> SUFFICES ASSUME IsFiniteSet(S), IsFiniteSet(T), S \cap T = {}
               PROVE  IsFiniteSet(S \cup T) /\ Cardinality(S \cup T) = Cardinality(S) + Cardinality(T)
    OBVIOUS
  <2>1. Cardinality(S) \in Nat /\ Cardinality(T) \in Nat /\ Cardinality(S \cap T) = 0
    BY FS_CardinalityType, FS_EmptySet
  <2>2. IsFiniteSet(S \cup T) /\ Cardinality(S \cup T) = Cardinality(S) + Cardinality(T) - Cardinality(S \cap T)
    BY FS_Union
  <2> QED BY <2>1, <2>2
<1>3. ASSUME NEW A, NEW B, NEW C, A \cap B = {}, (A \cup B) \cap C = {},
             IsFiniteSet(A), IsFiniteSet(B), IsFiniteSet(C),
             Cardinality(A) = 3, Cardinality(B) = 3, Cardinality(C) = 3
      PROVE  Cardinality((A \cup B) \cup C) = 9
  <2>1. IsFiniteSet(A \cup B) /\ Cardinality(A \cup B) = 6
    BY <1>2, <1>3
  <2> QED BY <1>2, <1>3, <2>1
<1>4. CASE HasFix(k)
  <2>1. {i - 1 : i \in CommasOf(k)} = ({2, 4, 6} \cup {8, 10, 12}) \cup {14, 16, 18}
    BY <1>4 DEF CommasOf
  <2>2. PICK A, B, C : A = {2, 4, 6} /\ B = {8, 10, 12} /\ C = {14, 16, 18}
    OBVIOUS
  <2>3. A \cap B = {} /\ (A \cup B) \cap C = {}
    BY <2>2
  <2>4. Cardinality((A \cup B) \cup C) = 9
    <3>1. IsFiniteSet(A) /\ Cardinality(A) = 3
      <4>1. PICK a, b, c : a = 2 /\ b = 4 /\ c = 6
        OBVIOUS
      <4>2. a # b /\ a # c /\ b # c /\ A = {a, b, c}
        BY <2>2, <4>1
      <4> QED BY <1>1, <4>2, Zenon
    <3>2. IsFiniteSet(B) /\ Cardinality(B) = 3
      <4>1. PICK a, b, c : a = 8 /\ b = 10 /\ c = 12
        OBVIOUS
      <4>2. a # b /\ a # c /\ b # c /\ B = {a, b, c}
        BY <2>2, <4>1
      <4> QED BY <1>1, <4>2, Zenon
    <3>3. IsFiniteSet(C) /\ Cardinality(C) = 3
      <4>1. PICK a, b, c : a = 14 /\ b = 16 /\ c = 18
        OBVIOUS
      <4>2. a # b /\ a # c /\ b # c /\ C = {a, b, c}
        BY <2>2, <4>1
      <4> QED BY <1>1, <4>2, Zenon
    <3> QED BY <1>3, <2>3, <3>1, <3>2, <3>3
  <2>5. Cardinality({i - 1 : i \in CommasOf(k)}) = 9
    BY <2>1, <2>2, <2>4
  <2> QED BY <2>5
<1>5. CASE k = "rmcNoFix"
  <2>1. {i - 1 : i \in CommasOf(k)} = ({2, 4, 6} \cup {7, 8, 9}) \cup {10, 11, 12}
    BY <1>5 DEF CommasOf, HasFix
  <2>2. PICK A, B, C : A = {2, 4, 6} /\ B = {7, 8, 9} /\ C = {10, 11, 12}
    OBVIOUS
  <2>3. A \cap B = {} /\ (A \cup B) \cap C = {}
    BY <2>2
  <2>4. Cardinality((A \cup B) \cup C) = 9
    <3>1. IsFiniteSet(A) /\ Cardinality(A) = 3
      <4>1. PICK a, b, c : a = 2 /\ b = 4 /\ c = 6
        OBVIOUS
      <4>2. a # b /\ a # c /\ b # c /\ A = {a, b, c}
        BY <2>2, <4>1
      <4> QED BY <1>1, <4>2, Zenon
    <3>2. IsFiniteSet(B) /\ Cardinality(B) = 3
      <4>1. PICK a, b, c : a = 7 /\ b = 8 /\ c = 9
        OBVIOUS
      <4>2. a # b /\ a # c /\ b # c /\ B = {a, b, c}
        BY <2>2, <4>1
      <4> QED BY <1>1, <4>2, Zenon
    <3>3. IsFiniteSet(C) /\ Cardinality(C) = 3
      <4>1. PICK a, b, c : a = 10 /\ b = 11 /\ c = 12
        OBVIOUS
      <4>2. a # b /\ a # c /\ b # c /\ C = {a, b, c}
        BY <2>2, <4>1
      <4> QED BY <1>1, <4>2, Zenon
    <3> QED BY <1>3, <2>3, <3>1, <3>2, <3>3
  <2>5. Cardinality({i - 1 : i \in CommasOf(k)}) = 9
    BY <2>1, <2>2, <2>4
  <2> QED BY <2>5
<1>6. CASE k = "ggaNoFix"
  <2>1. {i - 1 : i \in CommasOf(k)} = ({2, 4, 5} \cup {6, 7, 8}) \cup {10, 12, 13}
    BY <1>6 DEF CommasOf, HasFix
  <2>2. PICK A, B, C : A = {2, 4, 5} /\ B = {6, 7, 8} /\ C = {10, 12, 13}
    OBVIOUS
  <2>3. A \cap B = {} /\ (A \cup B) \cap C = {}
    BY <2>2
  <2>4. Cardinality((A \cup B) \cup C) = 9
    <3>1. IsFiniteSet(A) /\ Cardinality(A) = 3
      <4>1. PICK a, b, c : a = 2 /\ b = 4 /\ c = 5
        OBVIOUS
      <4>2. a # b /\ a # c /\ b # c /\ A = {a, b, c}
        BY <2>2, <4>1
      <4> QED BY <1>1, <4>2, Zenon
    <3>2. IsFiniteSet(B) /\ Cardinality(B) = 3
      <4>1. PICK a, b, c : a = 6 /\ b = 7 /\ c = 8
        OBVIOUS
      <4>2. a # b /\ a # c /\ b # c /\ B = {a, b, c}
        BY <2>2, <4>1
      <4> QED BY <1>1, <4>2, Zenon
    <3>3. IsFiniteSet(C) /\ Cardinality(C) = 3
      <4>1. PICK a, b, c : a = 10 /\ b = 12 /\ c = 13
        OBVIOUS
      <4>2. a # b /\ a # c /\ b # c /\ C = {a, b, c}
        BY <2>2, <4>1
      <4> QED BY <1>1, <4>2, Zenon
    <3> QED BY <1>3, <2>3, <3>1, <3>2, <3>3
  <2>5. Cardinality({i - 1 : i \in CommasOf(k)}) = 9
    BY <2>1, <2>2, <2>4
  <2> QED BY <2>5
<1>7. CASE k = "other"
  <2>1. {i - 1 : i \in CommasOf(k)} = {2}
    BY <1>7 DEF CommasOf, HasFix
  <2>2. Cardinality({i - 1 : i \in CommasOf(k)}) = 1
    BY <2>1, FS_Singleton
  <2> QED BY <2>2
<1> QED BY <1>4, <1>5, <1>6, <1>7 DEF AllKinds, HasFix

\* The checksum of a line is its parity up to the *.
LEMMA SumIsParity ==
    ASSUME NEW k \in AllKinds, NEW s \in Nat, NEW n \in (StarAt(k) - 1)..(StarAt(k) + 3)
    PROVE  ParityOf(Body(k, s)) = ParityUpTo(k, s, n)
<1>1. PICK b : b = Body(k, s)
  OBVIOUS
<1>2. StarAt(k) \in 5..21 /\ \A i \in Between(k) : Line(k, s)[i] = b[i - 1]
  BY <1>1, LineEnds
<1>3. DOMAIN b = {i - 1 : i \in Between(k)}
  <2>1. CASE k = "rmc" BY <1>1, <2>1 DEF Body, Between, StarAt, HasFix
  <2>2. CASE k = "rmcNoFix" BY <1>1, <2>2 DEF Body, Between, StarAt, HasFix
  <2>3. CASE k = "gga" BY <1>1, <2>3 DEF Body, Between, StarAt, HasFix
  <2>4. CASE k = "ggaNoFix" BY <1>1, <2>4 DEF Body, Between, StarAt, HasFix
  <2>5. CASE k = "other" BY <1>1, <2>5 DEF Body, Between, StarAt, HasFix
  <2> QED BY <2>1, <2>2, <2>3, <2>4, <2>5 DEF AllKinds
<1>4. Between(k) = TextsOf(k) \cup CommasOf(k) /\ \A i \in Between(k) : i \in Nat
  BY LineChars DEF TextsOf, Between
<1>5. ~IsText(Comma)
  BY DEF IsText, Terminators
<1>6. ASSUME NEW i \in TextsOf(k)
      PROVE  Cardinality({j \in DOMAIN b : b[j] = b[i - 1]}) = 1
  <2>1. {j \in DOMAIN b : b[j] = b[i - 1]} = {i - 1}
    <3>1. ASSUME NEW m \in Between(k), b[m - 1] = b[i - 1]
          PROVE  m = i
      BY <1>2, <1>4, <1>5, <3>1, LineChars
    <3> QED BY <1>3, <1>4, <3>1
  <2> QED BY <2>1, FS_Singleton
<1>7. {j \in DOMAIN b : b[j] = Comma} = {i - 1 : i \in CommasOf(k)}
  <2>1. ASSUME NEW m \in Between(k)
        PROVE  b[m - 1] = Comma <=> m \in CommasOf(k)
    BY <1>2, <1>4, <1>5, LineChars
  <2> QED BY <1>3, <1>4, <2>1
<1>8. ParityOf(b) = {b[j] : j \in DOMAIN b}
  <2>1. ASSUME NEW m \in Between(k)
        PROVE  Cardinality({j \in DOMAIN b : b[j] = b[m - 1]}) % 2 = 1
    <3>1. CASE m \in TextsOf(k)
      BY <1>6, <3>1
    <3>2. CASE m \in CommasOf(k)
      <4>1. b[m - 1] = Comma
        BY <1>2, <1>4, <3>2, LineChars
      <4> QED BY <1>7, <4>1, CommasAreOdd
    <3> QED BY <1>4, <3>1, <3>2
  <2> QED BY <1>3, <2>1 DEF ParityOf
<1>9. {b[j] : j \in DOMAIN b} = {Line(k, s)[i] : i \in TextsOf(k)} \cup {Comma}
  <2>1. {b[j] : j \in DOMAIN b} = {Line(k, s)[i] : i \in Between(k)}
    BY <1>2, <1>3
  <2>2. 3 \in CommasOf(k)
    BY DEF CommasOf
  <2>3. \A i \in CommasOf(k) : Line(k, s)[i] = Comma
    BY LineChars
  <2> QED BY <1>4, <2>1, <2>2, <2>3
<1>10. ParityUpTo(k, s, n) = {Line(k, s)[i] : i \in TextsOf(k)} \cup {Comma}
  <2>1. {j \in TextsOf(k) : j <= n} = TextsOf(k)
    BY <1>2 DEF TextsOf, Between
  <2>2. CommasUpTo(k, n) % 2 = 1
    BY <1>2 DEF CommasUpTo, StarAt, AllKinds, HasFix
  <2> QED BY <2>1, <2>2 DEF ParityUpTo, TextsUpTo
<1> QED BY <1>1, <1>8, <1>9, <1>10

-----------------------------------------------------------------------------

\* The field of a term, by its number.
LEMMA FieldOfTerm ==
           /\ curSentenceType = "GGA" /\ curTermNumber \in 1..9 =>
                TermField = <<"time", "lat", "ns", "lng", "ew", "fix", "sats", "hdop", "alt">>[curTermNumber]
           /\ curSentenceType = "RMC" /\ curTermNumber \in 1..9 =>
                /\ Combine = curTermNumber + 32
                /\ TermField = <<"time", "fix", "lat", "ns", "lng", "ew", "speed", "course", "date">>[curTermNumber]
<1>1. ASSUME NEW m \in 1..9
      PROVE  (m \div 32) % 2 = 0 /\ m + 32 - 32 = m /\ ~(m + 32 \in 1..9) /\ m + 32 \in 33..41
  OBVIOUS
<1>2. CASE curSentenceType = "GGA" /\ curTermNumber \in 1..9
  <2>1. Combine = curTermNumber
    BY <1>2 DEF Combine
  <2> QED BY <1>2, <2>1 DEF TermField
<1>3. CASE curSentenceType = "RMC" /\ curTermNumber \in 1..9
  <2>1. Combine = curTermNumber + 32
    BY <1>1, <1>3 DEF Combine
  <2> QED BY <1>1, <1>3, <2>1 DEF TermField
<1> QED BY <1>2, <1>3

\* Everything but the number of the term decides what a terminator does to what is understood.
EndsTerm(k, s, n, d) ==
    /\ ~isChecksumTerm /\ term = TermAt(k, s, n) /\ curTermNumber = CommasUpTo(k, n) - d
    /\ Understood(k, s, n) /\ staged = [f \in Fields |-> staged[f]]
    /\ \E sum, luck : EndOfTermHandler(sum, luck)

\* The first term is the type.
LEMMA TypeUnderstood ==
    ASSUME NEW k \in AllKinds, NEW s \in Nat, EndsTerm(k, s, 2, 0)
    PROVE  Understood(k, s, 3)' /\ UNCHANGED <<committed, valid, staged>>
<1>1. CommasUpTo(k, 2) = 0 /\ 2 \in TextsOf(k) /\ ~(2 >= FixAt(k)) /\ ~(3 >= FixAt(k))
      /\ \A f \in Location : ~(3 > PlaceOf(k, f))
  <2>1. CommasUpTo(k, 2) = 0
    BY DEF CommasUpTo
  <2> QED BY <2>1, LineChars DEF FixAt, PlaceOf, Location
<1>2. /\ ~isChecksumTerm /\ curTermNumber = 0 /\ curSentenceType = "OTHER" /\ sentenceHasFix = FALSE
      /\ term = <<Line(k, s)[2]>>
  <2>1. ~isChecksumTerm /\ term = <<Line(k, s)[2]>>
    BY <1>1 DEF EndsTerm, TermAt
  <2>2. curTermNumber = 0
    BY <1>1 DEF EndsTerm
  <2>3. curSentenceType = "OTHER" /\ sentenceHasFix = (HasFix(k) /\ 2 >= FixAt(k))
    BY DEF EndsTerm, Understood
  <2>4. sentenceHasFix = FALSE
    BY <1>1, <2>3, Zenon
  <2> QED BY <2>1, <2>2, <2>3, <2>4
<1>3. FirstTerm
  BY <1>2 DEF EndsTerm, EndOfTermHandler
<1>4. curSentenceType' = TypeOf(k)
  BY <1>2, <1>3, LineNames DEF FirstTerm, TypeOf
<1>5. sentenceHasFix' = FALSE /\ UNCHANGED <<committed, valid, staged>>
  BY <1>2, <1>3 DEF FirstTerm
<1>6. sentenceHasFix' = (HasFix(k) /\ 3 >= FixAt(k))
  BY <1>1, <1>5, Zenon
<1>7. curSentenceType' = IF 3 <= 2 THEN "OTHER" ELSE TypeOf(k)
  BY <1>4
<1> QED BY <1>1, <1>5, <1>6, <1>7, Zenon DEF Understood

\* What a term that is not empty does to what is staged.
LEMMA TermTaken ==
    ASSUME ~isChecksumTerm, curTermNumber \in 1..9, curSentenceType \in {"RMC", "GGA"}, term # <<>>,
           staged = [f \in Fields |-> staged[f]], NEW sum, NEW luck, EndOfTermHandler(sum, luck)
    PROVE  /\ UNCHANGED <<committed, valid, curSentenceType>>
           /\ TermField = "fix" => FixTerm /\ staged' = staged
           /\ TermField # "fix" => sentenceHasFix' = sentenceHasFix
           /\ TermField \in Location => staged'[TermField] = term
           /\ TermField # "lat" => staged'["lat"] = staged["lat"]
           /\ TermField \notin {"ns", "lat"} => staged'["ns"] = staged["ns"]
           /\ TermField # "lng" => staged'["lng"] = staged["lng"]
           /\ TermField \notin {"ew", "lng"} => staged'["ew"] = staged["ew"]
<1>1. TermField # "none" /\ TermField \in Fields \cup {"fix"}
  <2>1. CASE curSentenceType = "GGA"
    BY <2>1, FieldOfTerm DEF Fields, Location
  <2>2. CASE curSentenceType = "RMC"
    BY <2>2, FieldOfTerm DEF Fields, Location
  <2> QED BY <2>1, <2>2
<1>2. OtherTerm
  BY DEF EndOfTermHandler
<1>3. /\ UNCHANGED <<committed, valid, curSentenceType>>
      /\ TermField = "fix" => FixTerm /\ staged' = staged
      /\ TermField # "fix" => Stage(TermField) /\ sentenceHasFix' = sentenceHasFix
  BY <1>1, <1>2 DEF OtherTerm
<1>4. PICK g : g = TermField
  OBVIOUS
<1>5. CASE g # "fix"
  <2>1. staged' = CASE g = "lat" -> [staged EXCEPT !["lat"] = term, !["ns"] = <<>>]
                    [] g = "lng" -> [staged EXCEPT !["lng"] = term, !["ew"] = <<>>]
                    [] OTHER -> [staged EXCEPT ![g] = term]
    BY <1>3, <1>4, <1>5 DEF Stage
  <2>2. CASE g = "lat"
    BY <1>3, <1>4, <2>1, <2>2 DEF Fields, Location
  <2>3. CASE g = "lng"
    BY <1>3, <1>4, <2>1, <2>3 DEF Fields, Location
  <2>4. CASE g \notin {"lat", "lng"}
    <3>1. staged' = [staged EXCEPT ![g] = term]
      BY <2>1, <2>4
    <3> QED BY <1>1, <1>3, <1>4, <1>5, <2>4, <3>1 DEF Fields, Location
  <2> QED BY <2>2, <2>3, <2>4
<1>6. CASE g = "fix"
  BY <1>3, <1>4, <1>6 DEF Location
<1> QED BY <1>5, <1>6

\* What is said at the places that decide about a position.
LEMMA TextsAt ==
    ASSUME NEW s \in Nat
    PROVE  /\ Line("rmc", s)[6] = <<"A", 0>> /\ Line("rmc", s)[8] = <<"lat", s>> /\ Line("rmc", s)[10] = <<"N", 0>>
           /\ Line("rmc", s)[12] = <<"lng", s>> /\ Line("rmc", s)[14] = <<"E", 0>>
           /\ Line("gga", s)[6] = <<"lat", s>> /\ Line("gga", s)[8] = <<"N", 0>>
           /\ Line("gga", s)[10] = <<"lng", s>> /\ Line("gga", s)[12] = <<"E", 0>> /\ Line("gga", s)[14] = <<"1", 0>>
           /\ Line("rmcNoFix", s)[6] = <<"V", 0>> /\ Line("ggaNoFix", s)[10] = <<"0", 0>>
<1>1. \A i \in {6, 8, 10, 12, 14} : /\ Line("rmc", s)[i] = Body("rmc", s)[i - 1]
                                     /\ Line("gga", s)[i] = Body("gga", s)[i - 1]
  <2>1. \A i \in {6, 8, 10, 12, 14} : i \in Between("rmc") /\ i \in Between("gga")
    BY DEF Between, StarAt, HasFix
  <2> QED BY <2>1, LineEnds DEF AllKinds
<1>2. \A i \in {6, 10} : /\ Line("rmcNoFix", s)[i] = Body("rmcNoFix", s)[i - 1]
                          /\ Line("ggaNoFix", s)[i] = Body("ggaNoFix", s)[i - 1]
  <2>1. \A i \in {6, 10} : i \in Between("rmcNoFix") /\ i \in Between("ggaNoFix")
    BY DEF Between, StarAt, HasFix
  <2> QED BY <2>1, LineEnds DEF AllKinds
<1>3. /\ Line("rmc", s)[6] = <<"A", 0>> /\ Line("rmc", s)[8] = <<"lat", s>> /\ Line("rmc", s)[10] = <<"N", 0>>
      /\ Line("rmc", s)[12] = <<"lng", s>> /\ Line("rmc", s)[14] = <<"E", 0>>
  BY <1>1 DEF Body
<1>4. /\ Line("gga", s)[6] = <<"lat", s>> /\ Line("gga", s)[8] = <<"N", 0>>
      /\ Line("gga", s)[10] = <<"lng", s>> /\ Line("gga", s)[12] = <<"E", 0>> /\ Line("gga", s)[14] = <<"1", 0>>
  BY <1>1 DEF Body
<1>5. Line("rmcNoFix", s)[6] = <<"V", 0>> /\ Line("ggaNoFix", s)[10] = <<"0", 0>>
  BY <1>2 DEF Body
<1> QED BY <1>3, <1>4, <1>5

\* An empty term, or one of a sentence the parser does not know, changes nothing.
LEMMA NothingUnderstood ==
    ASSUME NEW k \in AllKinds, NEW s \in Nat, NEW d \in {0, 2, 4, 6}, NEW n \in 3..(StarAt(k) - 1),
           EndsTerm(k, s, n, d), d # 0 => Skipped(k, n, d), n \notin TextsOf(k) \/ k = "other"
    PROVE  Understood(k, s, n + 1)' /\ UNCHANGED <<committed, valid>>
<1>1. StarAt(k) \in 5..21 /\ n \in 3..20
  <2>1. StarAt(k) \in 5..21
    BY LineEnds
  <2> QED BY <2>1
<1>2. CommasUpTo(k, n) \in 1..9
  BY <1>1 DEF CommasUpTo, HasFix
<1>3. curTermNumber # 0
  BY <1>1, <1>2 DEF EndsTerm, Skipped
<1>4. ~isChecksumTerm /\ (curSentenceType = "OTHER" \/ term = <<>>)
  BY <1>1 DEF EndsTerm, Understood, TypeOf, TermAt
<1>5. UNCHANGED <<committed, valid, curSentenceType, staged, sentenceHasFix>>
  BY <1>3, <1>4 DEF EndsTerm, EndOfTermHandler, OtherTerm
<1>11. curSentenceType' = curSentenceType /\ staged' = staged /\ sentenceHasFix' = sentenceHasFix
  BY <1>5
<1>6. HasFix(k) => /\ n >= FixAt(k) <=> n + 1 >= FixAt(k)
                   /\ \A f \in Location : n > PlaceOf(k, f) <=> n + 1 > PlaceOf(k, f)
  <2>1. CASE HasFix(k)
    <3>1. n \notin {4, 6, 8, 10, 12, 14}
      BY <2>1, TextPlaces DEF HasFix
    <3>2. FixAt(k) \in {7, 15} /\ \A f \in Location : PlaceOf(k, f) \in {6, 8, 10, 12, 14}
      BY DEF FixAt, PlaceOf, Location
    <3> QED BY <1>1, <3>1, <3>2
  <2> QED BY <2>1
<1>7. /\ Understood(k, s, n)
      /\ sentenceHasFix = (HasFix(k) /\ n >= FixAt(k))
      /\ HasFix(k) => \A f \in Location : n > PlaceOf(k, f) => staged[f] = Fix(s)[f]
  BY DEF EndsTerm, Understood
<1>8. curSentenceType' = IF n + 1 <= 2 THEN "OTHER" ELSE TypeOf(k)
  BY <1>1, <1>5, <1>7 DEF Understood
<1>9. sentenceHasFix' = (HasFix(k) /\ n + 1 >= FixAt(k))
  <2>1. CASE HasFix(k)
    <3>1. n >= FixAt(k) <=> n + 1 >= FixAt(k)
      BY <1>6, <2>1
    <3> QED BY <1>7, <1>11, <2>1, <3>1, Zenon
  <2>2. CASE ~HasFix(k)
    BY <1>7, <1>11, <2>2, Zenon
  <2> QED BY <2>1, <2>2
<1>10. HasFix(k) => \A f \in Location : n + 1 > PlaceOf(k, f) => staged'[f] = Fix(s)[f]
  BY <1>6, <1>7, <1>11
<1> QED BY <1>5, <1>8, <1>9, <1>10, Zenon DEF Understood

\* What the term of a fix says, if it is one of the letters.
LEMMA FixTaken ==
    ASSUME FixTerm, NEW x, term[1] = x, x \in Letters
    PROVE  sentenceHasFix' = (x = <<"A", 0>> \/ (Combine # 34 /\ x # <<"0", 0>>))
<1>1. sentenceHasFix' \in IF x \in Letters THEN {x = <<"A", 0>> \/ (Combine # 34 /\ x # <<"0", 0>>)} ELSE BOOLEAN
  BY Zenon DEF FixTerm
<1>2. sentenceHasFix' \in {x = <<"A", 0>> \/ (Combine # 34 /\ x # <<"0", 0>>)}
  BY <1>1, Zenon
<1> QED BY <1>2, Zenon

\* The terms of a sentence that has a fix.
LEMMA FixUnderstood ==
    ASSUME NEW k \in {"rmc", "gga"}, NEW s \in Nat, NEW n \in 4..20, EndsTerm(k, s, n, 0), n \in TextsOf(k)
    PROVE  Understood(k, s, n + 1)' /\ UNCHANGED <<committed, valid>>
<1>1. n \in {4, 6, 8, 10, 12, 14, 16, 18, 20} /\ HasFix(k)
  BY TextPlaces DEF AllKinds, HasFix
<1>2. curTermNumber = (n - 2) \div 2 /\ curTermNumber \in 1..9
  <2>1. CommasUpTo(k, n) = (n - 2) \div 2 /\ (n - 2) \div 2 \in 1..9
    BY <1>1 DEF CommasUpTo
  <2> QED BY <2>1 DEF EndsTerm
<1>3. ~isChecksumTerm /\ curSentenceType = TypeOf(k) /\ term = <<Line(k, s)[n]>> /\ term # <<>>
  BY <1>1 DEF EndsTerm, Understood, TermAt
<1>4. sentenceHasFix = (HasFix(k) /\ n >= FixAt(k))
      /\ \A f \in Location : n > PlaceOf(k, f) => staged[f] = Fix(s)[f]
  BY <1>1 DEF EndsTerm, Understood
<1>5. PICK g : g = TermField
  OBVIOUS
<1>6. /\ UNCHANGED <<committed, valid, curSentenceType>>
      /\ g = "fix" => FixTerm /\ staged' = staged
      /\ g # "fix" => sentenceHasFix' = sentenceHasFix
      /\ g \in Location => staged'[g] = term
      /\ g # "lat" => staged'["lat"] = staged["lat"]
      /\ g \notin {"ns", "lat"} => staged'["ns"] = staged["ns"]
      /\ g # "lng" => staged'["lng"] = staged["lng"]
      /\ g \notin {"ew", "lng"} => staged'["ew"] = staged["ew"]
  BY <1>2, <1>3, <1>5, TermTaken DEF EndsTerm, TypeOf
<1>7. curSentenceType' = IF n + 1 <= 2 THEN "OTHER" ELSE TypeOf(k)
  BY <1>3, <1>6
<1>8. CASE k = "rmc"
  <2>1. /\ (n = 4 => g = "time") /\ (n = 6 => g = "fix")
        /\ (n = 8 => g = "lat") /\ (n = 10 => g = "ns") /\ (n = 12 => g = "lng") /\ (n = 14 => g = "ew")
        /\ (n = 16 => g = "speed") /\ (n = 18 => g = "course") /\ (n = 20 => g = "date")
    BY <1>2, <1>3, <1>5, <1>8, FieldOfTerm DEF TypeOf
  <2>2. FixAt(k) = 7 /\ PlaceOf(k, "lat") = 8 /\ PlaceOf(k, "ns") = 10
        /\ PlaceOf(k, "lng") = 12 /\ PlaceOf(k, "ew") = 14
    BY <1>8 DEF FixAt, PlaceOf
  <2>3. n = 6 => sentenceHasFix' = TRUE
    <3>1. SUFFICES ASSUME n = 6 PROVE sentenceHasFix' = TRUE
      OBVIOUS
    <3>2. term[1] = <<"A", 0>>
      BY <1>3, <1>8, <3>1, TextsAt
    <3>3. FixTerm /\ <<"A", 0>> \in Letters
      BY <1>6, <2>1, <3>1 DEF Letters
    <3>4. sentenceHasFix' = (<<"A", 0>> = <<"A", 0>> \/ (Combine # 34 /\ <<"A", 0>> # <<"0", 0>>))
      BY <3>2, <3>3, FixTaken, Zenon
    <3> QED BY <3>4, Zenon
  <2>4. sentenceHasFix' = (HasFix(k) /\ n + 1 >= FixAt(k))
    <3>1. CASE n = 6
      <4>1. n + 1 >= FixAt(k)
        BY <2>2, <3>1
      <4> QED BY <1>1, <2>3, <3>1, <4>1, Zenon
    <3>2. CASE n # 6
      <4>1. sentenceHasFix' = sentenceHasFix /\ (n >= FixAt(k) <=> n + 1 >= FixAt(k))
        BY <1>1, <1>6, <2>1, <2>2, <3>2
      <4> QED BY <1>4, <4>1, Zenon
    <3> QED BY <3>1, <3>2
  <2>5. Fix(s)["lat"] = << <<"lat", s>> >> /\ Fix(s)["ns"] = << <<"N", 0>> >>
        /\ Fix(s)["lng"] = << <<"lng", s>> >> /\ Fix(s)["ew"] = << <<"E", 0>> >>
    BY DEF Fix
  <2>6. /\ (n = 8 => term = Fix(s)["lat"]) /\ (n = 10 => term = Fix(s)["ns"])
        /\ (n = 12 => term = Fix(s)["lng"]) /\ (n = 14 => term = Fix(s)["ew"])
    BY <1>3, <1>8, <2>5, TextsAt
  <2>7. /\ (n > 8 => staged["lat"] = Fix(s)["lat"]) /\ (n > 10 => staged["ns"] = Fix(s)["ns"])
        /\ (n > 12 => staged["lng"] = Fix(s)["lng"]) /\ (n > 14 => staged["ew"] = Fix(s)["ew"])
    BY <1>4, <2>2 DEF Location
  <2>8. /\ (n + 1 > 8 => staged'["lat"] = Fix(s)["lat"]) /\ (n + 1 > 10 => staged'["ns"] = Fix(s)["ns"])
        /\ (n + 1 > 12 => staged'["lng"] = Fix(s)["lng"]) /\ (n + 1 > 14 => staged'["ew"] = Fix(s)["ew"])
    BY <1>1, <1>6, <2>1, <2>6, <2>7 DEF Location
  <2>9. \A f \in Location : n + 1 > PlaceOf(k, f) => staged'[f] = Fix(s)[f]
    BY <2>2, <2>8 DEF Location
  <2> QED BY <1>6, <1>7, <2>4, <2>9, Zenon DEF Understood
<1>9. CASE k = "gga"
  <2>1. /\ (n = 4 => g = "time") /\ (n = 14 => g = "fix")
        /\ (n = 6 => g = "lat") /\ (n = 8 => g = "ns") /\ (n = 10 => g = "lng") /\ (n = 12 => g = "ew")
        /\ (n = 16 => g = "sats") /\ (n = 18 => g = "hdop") /\ (n = 20 => g = "alt")
    BY <1>2, <1>3, <1>5, <1>9, FieldOfTerm DEF TypeOf
  <2>2. FixAt(k) = 15 /\ PlaceOf(k, "lat") = 6 /\ PlaceOf(k, "ns") = 8
        /\ PlaceOf(k, "lng") = 10 /\ PlaceOf(k, "ew") = 12
    BY <1>9 DEF FixAt, PlaceOf
  <2>3. n = 14 => sentenceHasFix' = TRUE
    <3>1. SUFFICES ASSUME n = 14 PROVE sentenceHasFix' = TRUE
      OBVIOUS
    <3>2. term[1] = <<"1", 0>>
      BY <1>3, <1>9, <3>1, TextsAt
    <3>3. Combine # 34
      BY <1>2, <1>3, <1>9, <3>1 DEF Combine, TypeOf
    <3>4. FixTerm /\ <<"1", 0>> \in Letters /\ <<"1", 0>> # <<"0", 0>>
      BY <1>6, <2>1, <3>1 DEF Letters
    <3>5. sentenceHasFix' = (<<"1", 0>> = <<"A", 0>> \/ (Combine # 34 /\ <<"1", 0>> # <<"0", 0>>))
      BY <3>2, <3>4, FixTaken, Zenon
    <3> QED BY <3>3, <3>4, <3>5, Zenon
  <2>4. sentenceHasFix' = (HasFix(k) /\ n + 1 >= FixAt(k))
    <3>1. CASE n = 14
      <4>1. n + 1 >= FixAt(k)
        BY <2>2, <3>1
      <4> QED BY <1>1, <2>3, <3>1, <4>1, Zenon
    <3>2. CASE n # 14
      <4>1. sentenceHasFix' = sentenceHasFix /\ (n >= FixAt(k) <=> n + 1 >= FixAt(k))
        BY <1>1, <1>6, <2>1, <2>2, <3>2
      <4> QED BY <1>4, <4>1, Zenon
    <3> QED BY <3>1, <3>2
  <2>5. Fix(s)["lat"] = << <<"lat", s>> >> /\ Fix(s)["ns"] = << <<"N", 0>> >>
        /\ Fix(s)["lng"] = << <<"lng", s>> >> /\ Fix(s)["ew"] = << <<"E", 0>> >>
    BY DEF Fix
  <2>6. /\ (n = 6 => term = Fix(s)["lat"]) /\ (n = 8 => term = Fix(s)["ns"])
        /\ (n = 10 => term = Fix(s)["lng"]) /\ (n = 12 => term = Fix(s)["ew"])
    BY <1>3, <1>9, <2>5, TextsAt
  <2>7. /\ (n > 6 => staged["lat"] = Fix(s)["lat"]) /\ (n > 8 => staged["ns"] = Fix(s)["ns"])
        /\ (n > 10 => staged["lng"] = Fix(s)["lng"]) /\ (n > 12 => staged["ew"] = Fix(s)["ew"])
    BY <1>4, <2>2 DEF Location
  <2>8. /\ (n + 1 > 6 => staged'["lat"] = Fix(s)["lat"]) /\ (n + 1 > 8 => staged'["ns"] = Fix(s)["ns"])
        /\ (n + 1 > 10 => staged'["lng"] = Fix(s)["lng"]) /\ (n + 1 > 12 => staged'["ew"] = Fix(s)["ew"])
    BY <1>1, <1>6, <2>1, <2>6, <2>7 DEF Location
  <2>9. \A f \in Location : n + 1 > PlaceOf(k, f) => staged'[f] = Fix(s)[f]
    BY <2>2, <2>8 DEF Location
  <2> QED BY <1>6, <1>7, <2>4, <2>9, Zenon DEF Understood
<1> QED BY <1>8, <1>9

\* The terms of a sentence that has none, even if they come too early.
LEMMA NoFixUnderstood ==
    ASSUME NEW k \in {"rmcNoFix", "ggaNoFix"}, NEW s \in Nat, NEW d \in {0, 2, 4, 6}, NEW n \in 3..14,
           EndsTerm(k, s, n, d), d # 0 => Skipped(k, n, d), n \in TextsOf(k)
    PROVE  Understood(k, s, n + 1)' /\ UNCHANGED <<committed, valid>>
<1>1. StarAt(k) = 15 /\ ~HasFix(k) /\ k \in AllKinds
  BY DEF StarAt, HasFix, AllKinds
<1>2. /\ ~isChecksumTerm /\ curSentenceType = TypeOf(k) /\ term = <<Line(k, s)[n]>> /\ term # <<>>
      /\ curTermNumber = CommasUpTo(k, n) - d /\ sentenceHasFix = FALSE
  <2>1. sentenceHasFix = (HasFix(k) /\ n >= FixAt(k))
    BY <1>1 DEF EndsTerm, Understood
  <2>2. sentenceHasFix = FALSE
    BY <1>1, <2>1, Zenon
  <2> QED BY <1>1, <2>2 DEF EndsTerm, Understood, TermAt
<1>3. CASE k = "rmcNoFix"
  <2>1. n \in {4, 6, 14}
    BY <1>1, <1>3, TextPlaces
  <2>2. (n = 4 => CommasUpTo(k, n) = 1) /\ (n = 6 => CommasUpTo(k, n) = 2) /\ (n = 14 => CommasUpTo(k, n) = 9)
    BY <1>3 DEF CommasUpTo, HasFix
  <2>3. curTermNumber \in {1, 2, 3, 5, 7, 9} /\ (curTermNumber = 2 => n = 6)
    BY <1>1, <1>2, <1>3, <2>1, <2>2 DEF Skipped
  <2>4. TermField = "fix" => curTermNumber = 2 /\ Combine = 34
    BY <1>2, <1>3, <2>3, FieldOfTerm DEF TypeOf
  <2>5. UNCHANGED <<committed, valid, curSentenceType>>
        /\ (TermField = "fix" => FixTerm) /\ (TermField # "fix" => sentenceHasFix' = sentenceHasFix)
    BY <1>2, <1>3, <2>3, TermTaken DEF EndsTerm, TypeOf
  <2>6. n = 6 => term[1] = <<"V", 0>>
    BY <1>2, <1>3, TextsAt
  <2>7. TermField = "fix" => sentenceHasFix' = FALSE
    <3>1. SUFFICES ASSUME TermField = "fix" PROVE sentenceHasFix' = FALSE
      OBVIOUS
    <3>2. FixTerm /\ term[1] = <<"V", 0>> /\ Combine = 34
      BY <2>3, <2>4, <2>5, <2>6, <3>1
    <3>3. <<"V", 0>> \in Letters /\ <<"V", 0>> # <<"A", 0>>
      BY DEF Letters
    <3>4. sentenceHasFix' = (<<"V", 0>> = <<"A", 0>> \/ (Combine # 34 /\ <<"V", 0>> # <<"0", 0>>))
      BY <3>2, <3>3, FixTaken, Zenon
    <3> QED BY <3>2, <3>3, <3>4, Zenon
  <2>8. sentenceHasFix' = FALSE
    BY <1>2, <2>5, <2>7, Zenon
  <2>9. sentenceHasFix' = (HasFix(k) /\ n + 1 >= FixAt(k))
    BY <1>1, <2>8, Zenon
  <2>10. curSentenceType' = IF n + 1 <= 2 THEN "OTHER" ELSE TypeOf(k)
    BY <1>2, <2>5
  <2> QED BY <1>1, <2>5, <2>9, <2>10, Zenon DEF Understood
<1>4. CASE k = "ggaNoFix"
  <2>1. n \in {4, 10, 12}
    BY <1>1, <1>4, TextPlaces
  <2>2. (n = 4 => CommasUpTo(k, n) = 1) /\ (n = 10 => CommasUpTo(k, n) = 6) /\ (n = 12 => CommasUpTo(k, n) = 7)
    BY <1>4 DEF CommasUpTo, HasFix
  <2>3. curTermNumber \in 1..7 /\ (curTermNumber = 6 => n = 10)
    BY <1>1, <1>2, <1>4, <2>1, <2>2 DEF Skipped
  <2>4. TermField = "fix" => curTermNumber = 6 /\ Combine = 6
    <3>1. Combine = curTermNumber
      BY <1>2, <1>4 DEF Combine, TypeOf
    <3> QED BY <1>2, <1>4, <2>3, <3>1, FieldOfTerm DEF TypeOf
  <2>5. UNCHANGED <<committed, valid, curSentenceType>>
        /\ (TermField = "fix" => FixTerm) /\ (TermField # "fix" => sentenceHasFix' = sentenceHasFix)
    BY <1>2, <1>4, <2>3, TermTaken DEF EndsTerm, TypeOf
  <2>6. n = 10 => term[1] = <<"0", 0>>
    BY <1>2, <1>4, TextsAt
  <2>7. TermField = "fix" => sentenceHasFix' = FALSE
    <3>1. SUFFICES ASSUME TermField = "fix" PROVE sentenceHasFix' = FALSE
      OBVIOUS
    <3>2. FixTerm /\ term[1] = <<"0", 0>>
      BY <2>3, <2>4, <2>5, <2>6, <3>1
    <3>3. <<"0", 0>> \in Letters /\ <<"0", 0>> # <<"A", 0>>
      BY DEF Letters
    <3>4. sentenceHasFix' = (<<"0", 0>> = <<"A", 0>> \/ (Combine # 34 /\ <<"0", 0>> # <<"0", 0>>))
      BY <3>2, <3>3, FixTaken, Zenon
    <3> QED BY <3>3, <3>4, Zenon
  <2>8. sentenceHasFix' = FALSE
    BY <1>2, <2>5, <2>7, Zenon
  <2>9. sentenceHasFix' = (HasFix(k) /\ n + 1 >= FixAt(k))
    BY <1>1, <2>8, Zenon
  <2>10. curSentenceType' = IF n + 1 <= 2 THEN "OTHER" ELSE TypeOf(k)
    BY <1>2, <2>5
  <2> QED BY <1>1, <2>5, <2>9, <2>10, Zenon DEF Understood
<1> QED BY <1>3, <1>4

\* Any term, of any sentence, up to the *.
LEMMA TermUnderstood ==
    ASSUME NEW k \in AllKinds, NEW s \in Nat, NEW d \in {0, 2, 4, 6}, NEW n \in 2..(StarAt(k) - 1),
           EndsTerm(k, s, n, d), d # 0 => Skipped(k, n, d)
    PROVE  Understood(k, s, n + 1)' /\ UNCHANGED <<committed, valid>>
<1>1. StarAt(k) \in 5..21
  BY LineEnds
<1>2. CASE n = 2
  <2>1. d = 0
    BY <1>2 DEF Skipped
  <2> QED BY <1>2, <2>1, TypeUnderstood
<1>3. CASE n > 2 /\ (n \notin TextsOf(k) \/ k = "other")
  <2>1. n \in 3..(StarAt(k) - 1)
    BY <1>1, <1>3
  <2> QED BY <1>3, <2>1, NothingUnderstood
<1>4. CASE n > 2 /\ n \in TextsOf(k) /\ k \in {"rmc", "gga"}
  <2>1. n \in 4..20 /\ d = 0
    BY <1>1, <1>4, TextPlaces DEF Skipped, HasFix
  <2> QED BY <1>4, <2>1, FixUnderstood
<1>5. CASE n > 2 /\ n \in TextsOf(k) /\ k \in {"rmcNoFix", "ggaNoFix"}
  <2>1. n \in 3..14
    BY <1>5, TextPlaces
  <2> QED BY <1>5, <2>1, NoFixUnderstood
<1> QED BY <1>2, <1>3, <1>4, <1>5 DEF AllKinds

-----------------------------------------------------------------------------

\* Each character is encoded in one way.
LEMMA EncodeCases ==
    ASSUME NEW c, NEW luck, Encode(c, luck)
    PROVE  /\ c \in Terminators => EncodeTerminator(c, luck)
           /\ c = Dollar => EncodeDollar(c)
           /\ IsText(c) => EncodeText(c)
           /\ \A sum : c = <<"sum", sum>> => EncodeText(c)
<1>1. Dollar \notin Terminators /\ \A sum : <<"sum", sum>> \notin Terminators \cup {Dollar}
  BY DEF Dollar, Terminators, Comma, Star
<1> QED BY <1>1 DEF Encode, EncodeTerminator, EncodeDollar, EncodeText, IsText

\* What the sketches read stays, ...
Unmoved == Position' = Position /\ valid' \cap Location = valid \cap Location

\* ... or becomes what sentence s says.
Moved(s) == Position' = Fix(s) /\ Location \subseteq valid'

\* What is understood does not depend on where in a term the parser is.
LEMMA UnderstoodStill ==
    ASSUME NEW k \in AllKinds, NEW s \in Nat, NEW n \in Nat, NEW m \in Nat, Understood(k, s, n),
           UNCHANGED <<curSentenceType, sentenceHasFix, staged>>, n <= 2 <=> m <= 2,
           HasFix(k) => /\ n >= FixAt(k) <=> m >= FixAt(k)
                        /\ \A f \in Location : n > PlaceOf(k, f) <=> m > PlaceOf(k, f)
    PROVE  Understood(k, s, m)'
<1>1. curSentenceType' = curSentenceType /\ sentenceHasFix' = sentenceHasFix /\ staged' = staged
  OBVIOUS
<1>2. /\ curSentenceType = IF n <= 2 THEN "OTHER" ELSE TypeOf(k)
      /\ sentenceHasFix = (HasFix(k) /\ n >= FixAt(k))
      /\ HasFix(k) => \A f \in Location : n > PlaceOf(k, f) => staged[f] = Fix(s)[f]
  BY DEF Understood
<1>3. curSentenceType' = IF m <= 2 THEN "OTHER" ELSE TypeOf(k)
  BY <1>1, <1>2
<1>4. sentenceHasFix' = (HasFix(k) /\ m >= FixAt(k))
  BY <1>1, <1>2, Zenon
<1>5. HasFix(k) => \A f \in Location : m > PlaceOf(k, f) => staged'[f] = Fix(s)[f]
  BY <1>1, <1>2
<1> QED BY <1>3, <1>4, <1>5, Zenon DEF Understood

\* A text is heard.
LEMMA TextHeard ==
    ASSUME NEW k \in AllKinds, NEW s \in Nat, NEW d, NEW n \in 1..(StarAt(k) + 2), Heard(k, s, n, d),
           n + 1 \in TextsOf(k) \cup {StarAt(k) + 1}, NEW luck, Encode(Line(k, s)[n + 1], luck),
           sumOf' = IF Line(k, s)[n + 1][1] = "sum" THEN s ELSE sumOf
    PROVE  Heard(k, s, n + 1, d)'
<1>1. StarAt(k) \in 5..21 /\ Line(k, s)[StarAt(k) + 1] = <<"sum", ParityOf(Body(k, s))>>
  BY LineEnds
<1>2. n \notin TextsOf(k) \cup {StarAt(k) + 1} /\ (n + 1 \in TextsOf(k) => n + 1 < StarAt(k))
  <2>1. n + 1 \in TextsOf(k) => n \notin TextsOf(k)
    BY TextPlaces DEF AllKinds
  <2>2. \A i \in TextsOf(k) : i < StarAt(k) /\ i # StarAt(k) + 1 /\ i # StarAt(k)
    BY <1>1 DEF TextsOf, Between
  <2> QED BY <1>1, <2>1, <2>2
<1>3. PICK c : c = Line(k, s)[n + 1]
  OBVIOUS
<1>4. EncodeText(c)
  BY <1>1, <1>3, EncodeCases, LineChars
<1>5. term' = TermAt(k, s, n + 1)
  <2>1. term = <<>>
    BY <1>2 DEF Heard, TermAt
  <2>2. term' = <<c>>
    BY <1>4, <2>1 DEF EncodeText
  <2> QED BY <1>3, <2>2 DEF TermAt
<1>6. UNCHANGED <<isChecksumTerm, curSentenceType, curTermNumber, sentenceHasFix, staged>>
  BY <1>4 DEF EncodeText
<1>8. CASE n + 1 \in TextsOf(k)
  <2>1. n + 1 < StarAt(k) /\ n + 1 \in Between(k) /\ n + 1 \notin CommasOf(k)
    BY <1>2, <1>8 DEF TextsOf
  <2>2. ~isChecksumTerm /\ (isChecksumTerm' <=> n + 1 \in {StarAt(k), StarAt(k) + 1})
    <3>1. n \notin {StarAt(k), StarAt(k) + 1} /\ n + 1 \notin {StarAt(k), StarAt(k) + 1}
      BY <1>1, <2>1
    <3>2. (isChecksumTerm <=> n \in {StarAt(k), StarAt(k) + 1})
      BY DEF Heard
    <3>3. isChecksumTerm' = isChecksumTerm
      BY <1>6
    <3> QED BY <3>1, <3>2, <3>3, Zenon
  <2>3. parity' = ParityUpTo(k, s, n + 1)
    <3>1. PICK p, q : p = ParityUpTo(k, s, n) /\ q = ParityUpTo(k, s, n + 1)
      OBVIOUS
    <3>2. parity' = Xor(p, c)
      BY <1>4, <2>2, <3>1 DEF EncodeText, Heard
    <3>3. \A x : x \in q <=> ((x \in p) # (x = c))
      BY <1>3, <2>1, <3>1, ParityCounted
    <3>4. \A x : x \in Xor(p, c) <=> x \in q
      BY <3>3 DEF Xor
    <3> QED BY <3>1, <3>2, <3>4
  <2>4. curTermNumber' = CommasUpTo(k, n + 1) - d
    <3>1. CommasUpTo(k, n + 1) = CommasUpTo(k, n)
      BY <2>1, CommaCounted
    <3>2. curTermNumber = CommasUpTo(k, n) - d
      BY <1>1, <2>1 DEF Heard
    <3> QED BY <1>6, <3>1, <3>2
  <2>5. Understood(k, s, n + 1)'
    <3>1. Understood(k, s, n)
      BY <1>1, <2>1 DEF Heard
    <3>2. n \in Nat /\ n + 1 \in Nat /\ (n <= 2 <=> n + 1 <= 2)
      <4>1. n # 2
        BY <2>1 DEF CommasOf
      <4> QED BY <4>1
    <3>3. HasFix(k) => n + 1 \in {2, 4, 6, 8, 10, 12, 14, 16, 18, 20}
      BY <1>8, TextPlaces DEF HasFix
    <3>4. FixAt(k) \in {7, 15} /\ \A f \in Location : PlaceOf(k, f) \in {6, 8, 10, 12, 14}
      BY DEF FixAt, PlaceOf, Location
    <3>5. HasFix(k) => /\ n >= FixAt(k) <=> n + 1 >= FixAt(k)
                       /\ \A f \in Location : n > PlaceOf(k, f) <=> n + 1 > PlaceOf(k, f)
      BY <3>3, <3>4
    <3> QED BY <1>6, <3>1, <3>2, <3>5, UnderstoodStill
  <2>6. ~(n + 1 = StarAt(k) + 1)
    BY <1>1, <2>1
  <2> QED BY <1>5, <2>2, <2>3, <2>4, <2>5, <2>6 DEF Heard
<1>9. CASE n = StarAt(k)
  <2>1. isChecksumTerm /\ (isChecksumTerm' <=> n + 1 \in {StarAt(k), StarAt(k) + 1})
    <3>1. (isChecksumTerm <=> n \in {StarAt(k), StarAt(k) + 1})
      BY DEF Heard
    <3>2. isChecksumTerm' = isChecksumTerm
      BY <1>6
    <3>3. n \in {StarAt(k), StarAt(k) + 1} /\ n + 1 \in {StarAt(k), StarAt(k) + 1}
      BY <1>9
    <3> QED BY <3>1, <3>2, <3>3, Zenon
  <2>2. parity' = ParityUpTo(k, s, n + 1)
    <3>1. parity' = parity /\ parity = ParityUpTo(k, s, n)
      BY <1>4, <2>1 DEF EncodeText, Heard
    <3>2. ParityUpTo(k, s, n + 1) = ParityUpTo(k, s, n)
      BY <1>1, <1>9, ParityCounted
    <3> QED BY <3>1, <3>2
  <2>3. Understood(k, s, n + 1)'
    <3>1. Understood(k, s, n)
      BY <1>1, <1>9 DEF Heard
    <3>2. n \in Nat /\ n + 1 \in Nat /\ (n <= 2 <=> n + 1 <= 2)
      BY <1>1, <1>9
    <3>3. HasFix(k) => n = 21
      BY <1>9 DEF StarAt
    <3>4. FixAt(k) \in {7, 15} /\ \A f \in Location : PlaceOf(k, f) \in {6, 8, 10, 12, 14}
      BY DEF FixAt, PlaceOf, Location
    <3>5. HasFix(k) => /\ n >= FixAt(k) <=> n + 1 >= FixAt(k)
                       /\ \A f \in Location : n > PlaceOf(k, f) <=> n + 1 > PlaceOf(k, f)
      BY <3>3, <3>4
    <3> QED BY <1>6, <3>1, <3>2, <3>5, UnderstoodStill
  <2>4. sumOf' = s /\ ~(n + 1 < StarAt(k))
    BY <1>1, <1>9
  <2> QED BY <1>5, <2>1, <2>2, <2>3, <2>4 DEF Heard
<1> QED BY <1>1, <1>8, <1>9

\* A comma, or the *, ends a term of the sentence.
LEMMA TermEnds ==
    ASSUME NEW k \in AllKinds, NEW s \in Nat, NEW d \in {0, 2, 4, 6}, NEW n \in 2..(StarAt(k) - 1),
           NEW i \in 2..(StarAt(k) - 1), NEW e \in {0, 2, 4, 6}, EndsTerm(k, s, i, e), e # 0 => Skipped(k, i, e),
           i = n \/ ~HasFix(k),
           parity = ParityUpTo(k, s, n), curTermNumber = CommasUpTo(k, n) - d, curTermNumber \in 0..255,
           n + 1 \in CommasOf(k) \cup {StarAt(k)}, NEW luck, Encode(Line(k, s)[n + 1], luck)
    PROVE  Heard(k, s, n + 1, d)'
<1>1. StarAt(k) \in 5..21 /\ Line(k, s)[StarAt(k)] = Star /\ n \in 2..20 /\ n < StarAt(k) /\ i \in 2..20
  <2>1. StarAt(k) \in 5..21 /\ Line(k, s)[StarAt(k)] = Star
    BY LineEnds
  <2> QED BY <2>1
<1>2. PICK c : c = Line(k, s)[n + 1]
  OBVIOUS
<1>3. (n + 1 \in CommasOf(k) => c = Comma /\ n + 1 < StarAt(k)) /\ (n + 1 = StarAt(k) => c = Star)
      /\ n + 1 \notin TextsOf(k)
  <2>1. n + 1 \in CommasOf(k) => n + 1 \in Between(k)
    BY LineChars
  <2> QED BY <1>1, <1>2, <2>1, LineChars DEF Between, TextsOf
<1>4. Comma # Star /\ Comma \in Terminators /\ Star \in Terminators
  BY DEF Comma, Star, Terminators
<1>5. EncodeTerminator(c, luck)
  BY <1>2, <1>3, <1>4, EncodeCases
<1>6. /\ parity' = IF c = Comma THEN Xor(parity, c) ELSE parity
      /\ EndOfTermHandler(parity', luck)
      /\ curTermNumber' = (curTermNumber + 1) % 256
      /\ term' = <<>>
      /\ isChecksumTerm' = (c = Star)
  BY <1>5 DEF EncodeTerminator
<1>7. Understood(k, s, i + 1)'
  BY TermUnderstood
<1>8. Understood(k, s, n + 1)'
  <2>1. CASE i = n
    BY <1>7, <2>1
  <2>2. CASE ~HasFix(k)
    <3>1. ~(i + 1 <= 2) /\ ~(n + 1 <= 2)
      BY <1>1
    <3>2. sentenceHasFix' = (HasFix(k) /\ i + 1 >= FixAt(k))
          /\ curSentenceType' = IF i + 1 <= 2 THEN "OTHER" ELSE TypeOf(k)
      BY <1>7 DEF Understood
    <3>3. sentenceHasFix' = (HasFix(k) /\ n + 1 >= FixAt(k))
      BY <2>2, <3>2, Zenon
    <3>4. curSentenceType' = IF n + 1 <= 2 THEN "OTHER" ELSE TypeOf(k)
      BY <3>1, <3>2
    <3> QED BY <2>2, <3>3, <3>4, Zenon DEF Understood
  <2> QED BY <2>1, <2>2
<1>10. (isChecksumTerm' <=> n + 1 \in {StarAt(k), StarAt(k) + 1})
  <2>1. c = Star <=> n + 1 \in {StarAt(k), StarAt(k) + 1}
    BY <1>1, <1>3, <1>4
  <2> QED BY <1>6, <2>1, Zenon
<1>11. term' = TermAt(k, s, n + 1)
  <2>1. n + 1 \notin TextsOf(k) \cup {StarAt(k) + 1}
    BY <1>1, <1>3
  <2> QED BY <1>6, <2>1 DEF TermAt
<1>12. parity' = ParityUpTo(k, s, n + 1)
  <2>1. parity = ParityUpTo(k, s, n)
    OBVIOUS
  <2>2. CASE n + 1 \in CommasOf(k)
    <3>1. \A x : x \in ParityUpTo(k, s, n + 1) <=> ((x \in ParityUpTo(k, s, n)) # (x = c))
      <4>1. n + 1 \in Between(k)
        BY <2>2, LineChars
      <4>2. n \in 1..(StarAt(k) + 2)
        BY <1>1
      <4> QED BY <1>2, <4>1, <4>2, ParityCounted
    <3>2. PICK p, q : p = ParityUpTo(k, s, n) /\ q = ParityUpTo(k, s, n + 1)
      OBVIOUS
    <3>3. parity' = Xor(p, c)
      BY <1>3, <1>6, <2>1, <2>2, <3>2
    <3>4. \A x : x \in Xor(p, c) <=> x \in q
      BY <3>1, <3>2 DEF Xor
    <3> QED BY <3>2, <3>3, <3>4
  <2>3. CASE n + 1 = StarAt(k)
    <3>1. n \in 1..(StarAt(k) + 2) /\ n >= StarAt(k) - 1
      BY <1>1, <2>3
    <3>2. ParityUpTo(k, s, n + 1) = ParityUpTo(k, s, n)
      BY <3>1, ParityCounted
    <3> QED BY <1>3, <1>4, <1>6, <2>1, <2>3, <3>2
  <2> QED BY <2>2, <2>3
<1>13. n + 1 < StarAt(k) => curTermNumber' = CommasUpTo(k, n + 1) - d
  <2>1. SUFFICES ASSUME n + 1 < StarAt(k) PROVE curTermNumber' = CommasUpTo(k, n + 1) - d
    OBVIOUS
  <2>2. PICK m \in 0..9 : m = CommasUpTo(k, n)
    BY <1>1, CommaCounted
  <2>3. CommasUpTo(k, n + 1) = m + 1
    BY <1>1, <2>1, <2>2, CommaCounted
  <2>4. curTermNumber = m - d
    BY <2>2
  <2>5. (curTermNumber + 1) % 256 = m - d + 1
    BY <2>4
  <2> QED BY <1>6, <2>3, <2>5
<1>14. n + 1 # StarAt(k) + 1
  BY <1>1
<1> QED BY <1>8, <1>10, <1>11, <1>12, <1>13, <1>14 DEF Heard

\* So do those of a sentence that is heard from the beginning.
LEMMA EndHeard ==
    ASSUME NEW k \in AllKinds, NEW s \in Nat, NEW d \in {0, 2, 4, 6}, NEW n \in 2..(StarAt(k) - 1),
           Heard(k, s, n, d), d # 0 => Skipped(k, n, d), Members, curTermNumber \in 0..255,
           n + 1 \in CommasOf(k) \cup {StarAt(k)}, NEW luck, Encode(Line(k, s)[n + 1], luck)
    PROVE  Heard(k, s, n + 1, d)'
<1>1. StarAt(k) \in 5..21 /\ Line(k, s)[StarAt(k)] = Star
  BY LineEnds
<1>2. n < StarAt(k) /\ n <= StarAt(k) + 1 /\ n \notin {StarAt(k), StarAt(k) + 1}
  BY <1>1
<1>3. term = TermAt(k, s, n) /\ curTermNumber = CommasUpTo(k, n) - d /\ Understood(k, s, n) /\ ~isChecksumTerm
      /\ parity = ParityUpTo(k, s, n)
  BY <1>2 DEF Heard
<1>4. Line(k, s)[n + 1] \in Terminators
  <2>1. Comma \in Terminators /\ Star \in Terminators
    BY DEF Terminators
  <2> QED BY <1>1, <2>1, LineChars
<1>5. \E sum, l : EndOfTermHandler(sum, l)
  BY <1>4, EncodeCases DEF EncodeTerminator
<1>6. EndsTerm(k, s, n, d)
  BY <1>3, <1>5, Zenon DEF EndsTerm, Members
<1> QED BY <1>3, <1>6, TermEnds

\* A checksum lets all of a location be committed, or nothing of it.
LEMMA AllOrNothing == Location \subseteq Commits \/ Location \cap Commits = {}
BY DEF Commits, Location

\* A location is committed where a checksum matches only.
LEMMA OnlySumsMove ==
    ASSUME NEW c, NEW luck, Encode(c, luck), Members,
           ~(isChecksumTerm /\ c \in Terminators /\ Passes(parity', luck) /\ Location \subseteq Commits)
    PROVE  Unmoved
<1>1. CASE EncodeText(c)
  BY <1>1 DEF EncodeText, Unmoved, Position
<1>2. CASE EncodeDollar(c)
  BY <1>2 DEF EncodeDollar, Unmoved, Position
<1>3. CASE EncodeTerminator(c, luck)
  <2>1. EndOfTermHandler(parity', luck) /\ c \in Terminators
    BY <1>3 DEF EncodeTerminator
  <2>2. CASE ~isChecksumTerm
    <3>1. UNCHANGED <<committed, valid>>
      BY <2>1, <2>2 DEF EndOfTermHandler, FirstTerm, OtherTerm
    <3> QED BY <3>1 DEF Unmoved, Position
  <2>3. CASE isChecksumTerm
    <3>1. Checksum(parity', luck)
      BY <2>1, <2>3 DEF EndOfTermHandler
    <3>2. CASE ~Passes(parity', luck)
      <4>1. UNCHANGED <<committed, valid>>
        BY <3>1, <3>2 DEF Checksum
      <4> QED BY <4>1 DEF Unmoved, Position
    <3>3. CASE Passes(parity', luck)
      <4>1. /\ committed' = [f \in Fields |-> IF f \in Commits THEN staged[f] ELSE committed[f]]
            /\ valid' = valid \cup Commits
        BY <3>1, <3>3 DEF Checksum
      <4>2. Location \cap Commits = {}
        BY <2>1, <2>3, <3>3, AllOrNothing
      <4>3. \A f \in Location : committed'[f] = committed[f]
        BY <4>1, <4>2 DEF Fields
      <4>4. Position' = Position
        BY <4>3 DEF Position
      <4>5. valid' \cap Location = valid \cap Location
        BY <4>1, <4>2
      <4> QED BY <4>4, <4>5 DEF Unmoved
    <3> QED BY <3>2, <3>3
  <2> QED BY <2>2, <2>3
<1> QED BY <1>1, <1>2, <1>3 DEF Encode

\* The checksum of a sentence that was heard is its own sum, unless a comma follows, which
\* is part of the parity before it is compared; it commits the position, if there is one.
LEMMA SumHeard ==
    ASSUME NEW k \in AllKinds, NEW s \in Nat, NEW d, Heard(k, s, StarAt(k) + 1, d), Members,
           NEW c \in Terminators, NEW luck, Encode(c, luck)
    PROVE  /\ isChecksumTerm /\ (Passes(parity', FALSE) <=> c # Comma)
           /\ Location \subseteq Commits <=> HasFix(k)
           /\ c # Comma /\ HasFix(k) => Moved(s)
<1>1. StarAt(k) \in 5..21 /\ Line(k, s)[StarAt(k) + 1] = <<"sum", ParityOf(Body(k, s))>>
  BY LineEnds
<1>2. PICK P : P = ParityOf(Body(k, s))
  OBVIOUS
<1>3. parity = P
  <2>1. ParityUpTo(k, s, StarAt(k) + 1) = P
    BY <1>1, <1>2, SumIsParity
  <2> QED BY <2>1 DEF Heard
<1>4. term = << <<"sum", P>> >>
  BY <1>1, <1>2 DEF Heard, TermAt
<1>5. isChecksumTerm /\ Understood(k, s, StarAt(k) + 1)
  BY <1>1 DEF Heard
<1>6. EncodeTerminator(c, luck)
  BY EncodeCases
<1>7. parity' = (IF c = Comma THEN Xor(parity, c) ELSE parity) /\ EndOfTermHandler(parity', luck)
  BY <1>6 DEF EncodeTerminator
<1>8. Passes(parity', FALSE) <=> c # Comma
  <2>1. CASE c = Comma
    <3>1. parity' # P
      BY <1>3, <1>7, <2>1 DEF Xor
    <3> QED BY <1>4, <2>1, <3>1 DEF Passes
  <2>2. CASE c # Comma
    BY <1>3, <1>4, <1>7, <2>2 DEF Passes
  <2> QED BY <2>1, <2>2
<1>9. curSentenceType = TypeOf(k) /\ sentenceHasFix = (HasFix(k) /\ StarAt(k) + 1 >= FixAt(k))
  BY <1>1, <1>5 DEF Understood
<1>10. HasFix(k) => StarAt(k) + 1 >= FixAt(k) /\ \A f \in Location : StarAt(k) + 1 > PlaceOf(k, f)
  <2>1. HasFix(k) => StarAt(k) = 21
    BY DEF StarAt
  <2>2. FixAt(k) \in {7, 15} /\ \A f \in Location : PlaceOf(k, f) \in {6, 8, 10, 12, 14}
    BY DEF FixAt, PlaceOf, Location
  <2> QED BY <2>1, <2>2
<1>11. Location \subseteq Commits <=> HasFix(k)
  <2>1. CASE HasFix(k)
    <3>1. sentenceHasFix
      BY <1>9, <1>10, <2>1, Zenon
    <3> QED BY <1>9, <2>1, <3>1 DEF Commits, TypeOf, HasFix
  <2>2. CASE ~HasFix(k)
    <3>1. ~sentenceHasFix
      BY <1>9, <2>2, Zenon
    <3> QED BY <2>2, <3>1 DEF Commits, Location
  <2> QED BY <2>1, <2>2
<1>12. ASSUME c # Comma, HasFix(k)
       PROVE  Moved(s)
  <2>1. Passes(parity', luck)
    BY <1>8, <1>12 DEF Passes
  <2>2. /\ committed' = [f \in Fields |-> IF f \in Commits THEN staged[f] ELSE committed[f]]
        /\ valid' = valid \cup Commits
    BY <1>5, <1>7, <2>1 DEF EndOfTermHandler, Checksum
  <2>3. \A f \in Location : staged[f] = Fix(s)[f]
    BY <1>5, <1>10, <1>12 DEF Understood
  <2>4. \A f \in Location : committed'[f] = Fix(s)[f]
    BY <1>11, <1>12, <2>2, <2>3 DEF Fields
  <2>5. Fix(s) = [f \in Location |-> Fix(s)[f]]
    BY DEF Fix, Location
  <2>6. Position' = Fix(s)
    BY <2>4, <2>5 DEF Position
  <2> QED BY <1>11, <1>12, <2>2, <2>6 DEF Moved
<1> QED BY <1>5, <1>8, <1>11, <1>12

\* What follows the checksum of a sentence.
LEMMA RestHeard ==
    ASSUME NEW k \in AllKinds, NEW s \in Nat, NEW d, NEW n \in {StarAt(k) + 1, StarAt(k) + 2},
           Heard(k, s, n, d), NEW luck, Encode(Line(k, s)[n + 1], luck)
    PROVE  Heard(k, s, n + 1, d)'
<1>1. /\ StarAt(k) \in 5..21
      /\ Line(k, s)[StarAt(k) + 2] = <<"CR", 0>> /\ Line(k, s)[StarAt(k) + 3] = <<"LF", 0>>
  BY LineEnds
<1>2. PICK c : c = Line(k, s)[n + 1]
  OBVIOUS
<1>3. c \in Terminators /\ c # Comma /\ c # Star /\ Encode(c, luck)
  <2>1. c \in {<<"CR", 0>>, <<"LF", 0>>}
    BY <1>1, <1>2
  <2>2. c \in Terminators
    BY <2>1 DEF Terminators
  <2>3. c # Comma /\ c # Star
    <3>1. <<"CR", 0>> # <<",", 0>> /\ <<"CR", 0>> # <<"*", 0>> /\ <<"LF", 0>> # <<",", 0>> /\ <<"LF", 0>> # <<"*", 0>>
      OBVIOUS
    <3> QED BY <2>1, <3>1 DEF Comma, Star
  <2> QED BY <1>2, <2>2, <2>3
<1>4. parity' = parity /\ term' = <<>> /\ ~isChecksumTerm'
  BY <1>3, EncodeCases DEF EncodeTerminator
<1>5. ParityUpTo(k, s, n + 1) = ParityUpTo(k, s, n) /\ parity = ParityUpTo(k, s, n)
  <2>1. n \in 1..(StarAt(k) + 2) /\ n >= StarAt(k) - 1
    BY <1>1
  <2> QED BY <2>1, ParityCounted DEF Heard
<1>6. n + 1 \notin TextsOf(k) \cup {StarAt(k) + 1}
  BY <1>1 DEF TextsOf, Between
<1>7. n + 1 \notin {StarAt(k), StarAt(k) + 1} /\ ~(n + 1 < StarAt(k)) /\ ~(n + 1 <= StarAt(k) + 1)
  BY <1>1
<1> QED BY <1>4, <1>5, <1>6, <1>7 DEF Heard, TermAt

\* The parser goes on to hear a sentence it has heard so far.
LEMMA HeardOn ==
    ASSUME NEW k \in AllKinds, NEW s \in Nat, NEW d \in {0, 2, 4, 6}, NEW n \in 1..(StarAt(k) + 2),
           Heard(k, s, n, d), d # 0 => Skipped(k, n, d), Members, curTermNumber \in 0..255,
           NEW luck, Encode(Line(k, s)[n + 1], luck),
           sumOf' = IF Line(k, s)[n + 1][1] = "sum" THEN s ELSE sumOf
    PROVE  Heard(k, s, n + 1, d)'
<1>1. StarAt(k) \in 5..21
  BY LineEnds
<1>2. CASE n + 1 \in TextsOf(k) \cup {StarAt(k) + 1}
  BY <1>2, TextHeard
<1>3. CASE n + 1 \in CommasOf(k) \cup {StarAt(k)}
  <2>1. n \in 2..(StarAt(k) - 1)
    <3>1. n + 1 \in CommasOf(k) => n + 1 \in Between(k) /\ n + 1 # 2
      BY LineChars DEF CommasOf
    <3> QED BY <1>1, <1>3, <3>1 DEF Between
  <2> QED BY <1>3, <2>1, EndHeard
<1>4. CASE n \in {StarAt(k) + 1, StarAt(k) + 2}
  BY <1>4, RestHeard
<1>5. n + 1 \in TextsOf(k) \cup CommasOf(k) \cup {StarAt(k), StarAt(k) + 1} \/ n \in {StarAt(k) + 1, StarAt(k) + 2}
  <2>1. n + 1 \in Between(k) => n + 1 \in TextsOf(k) \cup CommasOf(k)
    BY DEF TextsOf
  <2> QED BY <1>1, <2>1 DEF Between
<1> QED BY <1>2, <1>3, <1>4, <1>5

\* The $ is heard at any time.
LEMMA DollarHeard ==
    ASSUME NEW k \in AllKinds, NEW s \in Nat, NEW luck, Encode(Dollar, luck)
    PROVE  Heard(k, s, 1, 0)'
<1>1. EncodeDollar(Dollar)
  BY EncodeCases
<1>2. /\ curTermNumber' = 0 /\ term' = <<>> /\ parity' = {} /\ curSentenceType' = "OTHER"
      /\ ~isChecksumTerm' /\ sentenceHasFix' = FALSE /\ UNCHANGED <<staged, committed, valid>>
  BY <1>1 DEF EncodeDollar
<1>4. StarAt(k) \in 5..21
  BY LineEnds
<1>5. ParityUpTo(k, s, 1) = {} /\ CommasUpTo(k, 1) = 0
  <2>1. 1 \in 1..(StarAt(k) + 2)
    BY <1>4
  <2> QED BY <2>1, ParityCounted, CommaCounted
<1>6. 1 \notin TextsOf(k) \cup {StarAt(k) + 1} /\ 1 \notin {StarAt(k), StarAt(k) + 1} /\ 1 # StarAt(k) + 1
  BY <1>4 DEF TextsOf, Between
<1>7. Understood(k, s, 1)'
  <2>1. ~(1 >= FixAt(k)) /\ \A f \in Location : ~(1 > PlaceOf(k, f))
    BY DEF FixAt, PlaceOf, Location
  <2>2. sentenceHasFix' = (HasFix(k) /\ 1 >= FixAt(k))
    BY <1>2, <2>1, Zenon
  <2>3. curSentenceType' = IF 1 <= 2 THEN "OTHER" ELSE TypeOf(k)
    BY <1>2
  <2> QED BY <2>1, <2>2, <2>3, Zenon DEF Understood
<1>8. curTermNumber' = CommasUpTo(k, 1) - 0
  BY <1>2, <1>5
<1> QED BY <1>2, <1>5, <1>6, <1>7, <1>8 DEF Heard, TermAt

-----------------------------------------------------------------------------

\* What the next character of a line may be.
LEMMA NextChar ==
    ASSUME NEW k \in AllKinds, NEW s \in Nat, NEW n \in 1..(StarAt(k) + 2)
    PROVE  /\ n + 1 \in TextsOf(k) \cup CommasOf(k) \/ n >= StarAt(k) - 1
           /\ n + 1 \in TextsOf(k) => IsText(Line(k, s)[n + 1]) /\ n + 1 \in Between(k) /\ n + 1 < StarAt(k)
           /\ n + 1 \in CommasOf(k) => Line(k, s)[n + 1] = Comma /\ n + 1 \in Between(k) /\ n + 1 < StarAt(k)
           /\ n = StarAt(k) - 1 => Line(k, s)[n + 1] = Star
           /\ n = StarAt(k) => \E sum : Line(k, s)[n + 1] = <<"sum", sum>>
           /\ n > StarAt(k) => Line(k, s)[n + 1] \in Terminators \ {Comma, Star}
           /\ Line(k, s)[n + 1] = <<"CR", 0>> => n = StarAt(k) + 1
           /\ Line(k, s)[n + 1] # Dollar
<1>1. /\ StarAt(k) \in 5..21 /\ Line(k, s)[StarAt(k)] = Star
      /\ Line(k, s)[StarAt(k) + 1] = <<"sum", ParityOf(Body(k, s))>>
      /\ Line(k, s)[StarAt(k) + 2] = <<"CR", 0>> /\ Line(k, s)[StarAt(k) + 3] = <<"LF", 0>>
  BY LineEnds
<1>2. n + 1 \in Between(k) <=> n + 1 < StarAt(k)
  BY <1>1 DEF Between
<1>3. /\ n + 1 \in TextsOf(k) => IsText(Line(k, s)[n + 1]) /\ n + 1 \in Between(k)
      /\ n + 1 \in CommasOf(k) => Line(k, s)[n + 1] = Comma /\ n + 1 \in Between(k)
      /\ n + 1 \in Between(k) => n + 1 \in TextsOf(k) \cup CommasOf(k)
  BY LineChars DEF TextsOf
<1>4. PICK c, P : c = Line(k, s)[n + 1] /\ P = ParityOf(Body(k, s))
  OBVIOUS
<1>5. /\ n = StarAt(k) - 1 => c = Star
      /\ n = StarAt(k) => c = <<"sum", P>>
      /\ n = StarAt(k) + 1 => c = <<"CR", 0>>
      /\ n = StarAt(k) + 2 => c = <<"LF", 0>>
      /\ n + 1 \in Between(k) \/ n \in {StarAt(k) - 1, StarAt(k), StarAt(k) + 1, StarAt(k) + 2}
  BY <1>1, <1>2, <1>4
<1>6. <<"CR", 0>> \in Terminators \ {Comma, Star} /\ <<"LF", 0>> \in Terminators \ {Comma, Star}
  BY DEF Terminators, Comma, Star
<1>7. /\ \A x : IsText(x) => x # <<"CR", 0>> /\ x # Dollar
      /\ Comma # <<"CR", 0>> /\ Star # <<"CR", 0>> /\ <<"LF", 0>> # <<"CR", 0>>
      /\ Comma # Dollar /\ Star # Dollar /\ <<"CR", 0>> # Dollar /\ <<"LF", 0>> # Dollar
      /\ \A x : <<"sum", x>> # <<"CR", 0>> /\ <<"sum", x>> # Dollar
  BY DEF IsText, Terminators, Comma, Star, Dollar
<1>8. n > StarAt(k) => c \in Terminators \ {Comma, Star}
  BY <1>1, <1>5, <1>6
<1>9. c = <<"CR", 0>> => n = StarAt(k) + 1
  BY <1>1, <1>3, <1>4, <1>5, <1>7
<1>10. c # Dollar
  BY <1>1, <1>3, <1>4, <1>5, <1>7
<1> QED BY <1>1, <1>2, <1>3, <1>4, <1>5, <1>8, <1>9, <1>10

\* Each character leaves the parser with values of its types.
LEMMA ParserStays ==
    ASSUME NEW c, ParserTypes, NEW luck, Encode(c, luck)
    PROVE  ParserTypes'
<1>1. PICK S : term \in Seq(S)
  BY DEF ParserTypes
<1>2. Append(term, c) \in Seq(S \cup {c})
  BY <1>1
<1>3. <<>> \in Seq(S)
  OBVIOUS
<1>4. CASE EncodeText(c)
  <2>1. /\ term' = Append(term, c)
        /\ isChecksumTerm' = isChecksumTerm /\ UNCHANGED <<curTermNumber, staged, committed, valid>>
    BY <1>4 DEF EncodeText
  <2>2. isChecksumTerm' \in BOOLEAN
    BY <2>1, Zenon DEF ParserTypes
  <2>3. curTermNumber' \in 0..255 /\ Members'
    BY <2>1 DEF ParserTypes, Members
  <2>4. \E T : term' \in Seq(T)
    BY <1>2, <2>1
  <2> QED BY <2>2, <2>3, <2>4 DEF ParserTypes
<1>5. CASE EncodeDollar(c)
  <2>1. /\ term' = <<>> /\ isChecksumTerm' = FALSE /\ curTermNumber' = 0
        /\ UNCHANGED <<staged, committed, valid>>
    BY <1>5 DEF EncodeDollar
  <2>2. curTermNumber' \in 0..255
    BY <2>1
  <2>3. isChecksumTerm' \in BOOLEAN
    BY <2>1, Zenon
  <2>4. Members'
    BY <2>1 DEF ParserTypes, Members
  <2>5. \E T : term' \in Seq(T)
    BY <1>3, <2>1
  <2> QED BY <2>2, <2>3, <2>4, <2>5 DEF ParserTypes
<1>6. CASE EncodeTerminator(c, luck)
  <2>1. /\ EndOfTermHandler(parity', luck) /\ curTermNumber' = (curTermNumber + 1) % 256 /\ term' = <<>>
        /\ isChecksumTerm' = (c = Star)
    BY <1>6 DEF EncodeTerminator
  <2>2. Members'
    <3>1. CASE isChecksumTerm
      <4>1. staged' = staged
        BY <2>1, <3>1 DEF EndOfTermHandler, Checksum
      <4>2. \/ committed' = [f \in Fields |-> IF f \in Commits THEN staged[f] ELSE committed[f]]
               /\ valid' = valid \cup Commits
            \/ committed' = committed /\ valid' = valid
        BY <2>1, <3>1 DEF EndOfTermHandler, Checksum
      <4>3. Commits \subseteq Fields
        BY DEF Commits, Fields, Location
      <4> QED BY <4>1, <4>2, <4>3 DEF ParserTypes, Members
    <3>2. CASE ~isChecksumTerm /\ curTermNumber = 0
      BY <2>1, <3>2 DEF EndOfTermHandler, FirstTerm, ParserTypes, Members
    <3>3. CASE ~isChecksumTerm /\ curTermNumber # 0
      <4>1. OtherTerm
        BY <2>1, <3>3 DEF EndOfTermHandler
      <4>2. UNCHANGED <<committed, valid>>
        BY <4>1 DEF OtherTerm
      <4>3. PICK g : g = TermField
        OBVIOUS
      <4>4. \/ staged' = staged
            \/ staged' = CASE g = "lat" -> [staged EXCEPT !["lat"] = term, !["ns"] = <<>>]
                           [] g = "lng" -> [staged EXCEPT !["lng"] = term, !["ew"] = <<>>]
                           [] OTHER -> [staged EXCEPT ![g] = term]
        BY <4>1, <4>3 DEF OtherTerm, Stage
      <4>5. staged' = [f \in Fields |-> staged'[f]]
        <5>1. CASE staged' = staged
          BY <5>1 DEF ParserTypes, Members
        <5>2. CASE staged' = [staged EXCEPT !["lat"] = term, !["ns"] = <<>>]
          BY <5>2 DEF ParserTypes, Members
        <5>3. CASE staged' = [staged EXCEPT !["lng"] = term, !["ew"] = <<>>]
          BY <5>3 DEF ParserTypes, Members
        <5>4. CASE staged' = [staged EXCEPT ![g] = term]
          BY <5>4 DEF ParserTypes, Members
        <5> QED BY <4>4, <5>1, <5>2, <5>3, <5>4
      <4> QED BY <4>2, <4>5 DEF ParserTypes, Members
    <3> QED BY <3>1, <3>2, <3>3
  <2>3. curTermNumber' \in 0..255
    BY <2>1 DEF ParserTypes
  <2>4. isChecksumTerm' \in BOOLEAN
    BY <2>1, Zenon
  <2> QED BY <1>3, <2>1, <2>2, <2>3, <2>4 DEF ParserTypes
<1> QED BY <1>4, <1>5, <1>6 DEF Encode

\* The term of a checksum holds one text of this line at most, if nothing of it is lost.
LEMMA SumIsOwn ==
    ASSUME NEW k \in AllKinds, NEW s \in Nat, NEW n \in 1..(StarAt(k) + 2), ParserTypes,
           NEW luck, Encode(Line(k, s)[n + 1], luck)
    PROVE  OwnSum(k, s, n + 1)'
<1>1. PICK c : c = Line(k, s)[n + 1]
  OBVIOUS
<1>2. StarAt(k) \in 5..21
  BY LineEnds
<1>3. ASSUME term' = <<>>
      PROVE  IsNoSum(term')
  BY <1>3 DEF IsNoSum
<1>4. CASE c \in Terminators
  <2>1. term' = <<>>
    BY <1>1, <1>4, EncodeCases DEF EncodeTerminator
  <2> QED BY <1>3, <2>1 DEF OwnSum
<1>5. CASE c \notin Terminators
  <2>1. n + 1 \in TextsOf(k) \/ n = StarAt(k)
    <3>1. Comma \in Terminators /\ Star \in Terminators
      BY DEF Terminators
    <3>2. n + 1 \notin CommasOf(k) /\ n # StarAt(k) - 1 /\ ~(n > StarAt(k))
      BY <1>1, <1>5, <3>1, NextChar
    <3>3. n + 1 \in TextsOf(k) \cup CommasOf(k) \/ n >= StarAt(k) - 1
      BY NextChar
    <3> QED BY <1>2, <3>2, <3>3
  <2>2. term' = Append(term, c)
    BY <1>1, <2>1, NextChar, EncodeCases DEF EncodeText
  <2>3. PICK S : term \in Seq(S)
    BY DEF ParserTypes
  <2>4. CASE Len(term) = 0
    <3>1. term' = <<c>>
      BY <2>2, <2>3, <2>4
    <3>2. CASE n = StarAt(k)
      BY <1>1, <3>1, <3>2 DEF OwnSum
    <3>3. CASE n + 1 \in TextsOf(k)
      <4>1. \A sum : c # <<"sum", sum>>
        BY <1>1, <3>3, NextChar DEF IsText
      <4>2. IsNoSum(term')
        BY <3>1, <4>1 DEF IsNoSum
      <4> QED BY <4>2 DEF OwnSum
    <3> QED BY <2>1, <3>2, <3>3
  <2>5. CASE Len(term) # 0
    <3>1. Len(term') >= 2
      BY <2>2, <2>3, <2>5
    <3>2. \A x : Len(<<x>>) = 1
      OBVIOUS
    <3>3. IsNoSum(term')
      BY <3>1, <3>2 DEF IsNoSum
    <3> QED BY <3>3 DEF OwnSum
  <2> QED BY <2>4, <2>5
<1> QED BY <1>4, <1>5

\* A parity that is wrong stays wrong.
LEMMA BrokenOn ==
    ASSUME NEW k \in AllKinds, NEW s \in Nat, NEW n \in 1..StarAt(k), NEW x, Broken(x, k, s, n),
           n = StarAt(k) => isChecksumTerm, NEW luck, Encode(Line(k, s)[n + 1], luck)
    PROVE  Broken(x, k, s, n + 1)'
<1>1. PICK c : c = Line(k, s)[n + 1]
  OBVIOUS
<1>2. StarAt(k) \in 5..21 /\ n \in 1..(StarAt(k) + 2)
  <2>1. StarAt(k) \in 5..21
    BY LineEnds
  <2> QED BY <2>1
<1>3. PICK p, q : p = ParityUpTo(k, s, n) /\ q = ParityUpTo(k, s, n + 1)
  OBVIOUS
<1>4. (x \in parity) # (x \in p)
  BY <1>3 DEF Broken
<1>5. /\ n + 1 \in Between(k) => (x \in q <=> ((x \in p) # (x = c)))
      /\ n >= StarAt(k) - 1 => q = p
  BY <1>1, <1>2, <1>3, ParityCounted
<1>6. CASE n + 1 \in TextsOf(k)
  <2>1. n + 1 \in Between(k) /\ IsText(c) /\ n + 1 < StarAt(k)
    BY <1>1, <1>2, <1>6, NextChar
  <2>2. parity' = (IF isChecksumTerm THEN parity ELSE Xor(parity, c)) /\ isChecksumTerm' = isChecksumTerm
    BY <1>1, <2>1, EncodeCases DEF EncodeText
  <2>3. isChecksumTerm => \A i \in Between(k) : Line(k, s)[i] # x
    BY <2>1, <1>2 DEF Broken
  <2>4. isChecksumTerm => x # c
    BY <1>1, <2>1, <2>3
  <2>5. (x \in parity') # (x \in q)
    BY <1>4, <1>5, <2>1, <2>2, <2>4 DEF Xor
  <2> QED BY <1>3, <2>2, <2>3, <2>5 DEF Broken
<1>7. CASE n + 1 \in CommasOf(k)
  <2>1. n + 1 \in Between(k) /\ c = Comma
    BY <1>1, <1>2, <1>7, NextChar
  <2>2. Comma \in Terminators /\ Comma # Star
    BY DEF Terminators, Comma, Star
  <2>3. parity' = Xor(parity, c) /\ ~isChecksumTerm'
    BY <1>1, <2>1, <2>2, EncodeCases DEF EncodeTerminator
  <2>4. (x \in parity') # (x \in q)
    BY <1>4, <1>5, <2>1, <2>3 DEF Xor
  <2> QED BY <1>3, <2>3, <2>4 DEF Broken
<1>8. CASE n = StarAt(k) - 1
  <2>1. c = Star /\ Star \in Terminators /\ Comma # Star
    BY <1>1, <1>2, <1>8, NextChar DEF Terminators, Comma, Star
  <2>2. parity' = parity
    BY <1>1, <2>1, EncodeCases DEF EncodeTerminator
  <2> QED BY <1>2, <1>3, <1>4, <1>5, <1>8, <2>2 DEF Broken
<1>9. CASE n = StarAt(k)
  <2>1. EncodeText(c)
    BY <1>1, <1>2, <1>9, NextChar, EncodeCases
  <2>2. parity' = parity
    BY <1>9, <2>1 DEF EncodeText
  <2> QED BY <1>2, <1>3, <1>4, <1>5, <1>9, <2>2 DEF Broken
<1> QED BY <1>2, <1>6, <1>7, <1>8, <1>9, NextChar

\* A wrong parity passes no checksum.
LEMMA BrokenFails ==
    ASSUME NEW k \in AllKinds, NEW s \in Nat, NEW n \in 1..(StarAt(k) + 2), NEW x, Broken(x, k, s, n),
           OwnSum(k, s, n), isChecksumTerm, NEW c, c \in Terminators, c # Comma, NEW luck, Encode(c, luck)
    PROVE  ~Passes(parity', FALSE)
<1>1. parity' = parity
  BY EncodeCases DEF EncodeTerminator
<1>2. CASE IsNoSum(term)
  BY <1>2 DEF IsNoSum, Passes
<1>3. CASE n = StarAt(k) + 1 /\ term = <<Line(k, s)[n]>>
  <2>1. /\ ParityUpTo(k, s, StarAt(k) + 1) = ParityOf(Body(k, s))
        /\ Line(k, s)[StarAt(k) + 1] = <<"sum", ParityOf(Body(k, s))>>
        /\ StarAt(k) \in 5..21
    <3>1. StarAt(k) \in 5..21 /\ Line(k, s)[StarAt(k) + 1] = <<"sum", ParityOf(Body(k, s))>>
      BY LineEnds
    <3>2. StarAt(k) + 1 \in (StarAt(k) - 1)..(StarAt(k) + 3)
      BY <3>1
    <3> QED BY <3>1, <3>2, SumIsParity
  <2>2. PICK P : P = ParityOf(Body(k, s))
    OBVIOUS
  <2>3. parity # P
    BY <1>3, <2>1, <2>2 DEF Broken
  <2>4. term = << <<"sum", P>> >>
    BY <1>3, <2>1, <2>2
  <2> QED BY <1>1, <2>3, <2>4 DEF Passes
<1> QED BY <1>2, <1>3 DEF OwnSum

\* Where a checksum that is the sum of what was received lets a location be committed, it
\* is that of the sentence whose checksum was received last.
Told(c) ==
    isChecksumTerm /\ c \in Terminators /\ Passes(parity', FALSE) /\ Location \subseteq Commits => Moved(sumOf)

\* That holds wherever the parser has heard a beginning of a sentence.
LEMMA HeardTells ==
    ASSUME NEW k \in AllKinds, NEW s \in Nat, NEW d, NEW n \in 1..(StarAt(k) + 3), Heard(k, s, n, d), Members,
           NEW c, NEW luck, Encode(c, luck)
    PROVE  Told(c)
<1> SUFFICES ASSUME isChecksumTerm, c \in Terminators, Passes(parity', FALSE), Location \subseteq Commits
             PROVE  Moved(sumOf)
  BY DEF Told
<1>1. StarAt(k) \in 5..21
  BY LineEnds
<1>2. n \in {StarAt(k), StarAt(k) + 1}
  BY DEF Heard
<1>3. n # StarAt(k)
  <2>1. SUFFICES ASSUME n = StarAt(k) PROVE FALSE
    OBVIOUS
  <2>2. n \notin TextsOf(k) \cup {StarAt(k) + 1}
    BY <1>1, <2>1 DEF TextsOf, Between
  <2>3. term = <<>>
    BY <2>2 DEF Heard, TermAt
  <2>4. PICK p : p = parity'
    OBVIOUS
  <2>5. << >> # << <<"sum", p>> >>
    OBVIOUS
  <2> QED BY <2>3, <2>4, <2>5 DEF Passes
<1>4. n = StarAt(k) + 1
  BY <1>2, <1>3
<1>5. sumOf = s
  BY <1>4 DEF Heard
<1> QED BY <1>4, <1>5, SumHeard

\* The parity of the first three characters.
LEMMA FirstThree ==
    ASSUME NEW k \in AllKinds, NEW s \in Nat
    PROVE  /\ ParityUpTo(k, s, 1) = {} /\ ParityUpTo(k, s, 2) = {Line(k, s)[2]}
           /\ ParityUpTo(k, s, 3) = {Line(k, s)[2], Comma}
           /\ CommasUpTo(k, 1) = 0 /\ CommasUpTo(k, 2) = 0 /\ CommasUpTo(k, 3) = 1
<1>1. StarAt(k) \in 5..21
  BY LineEnds
<1>2. {j \in TextsOf(k) : j <= 1} = {} /\ {j \in TextsOf(k) : j <= 2} = {2} /\ {j \in TextsOf(k) : j <= 3} = {2}
  BY TextPlaces DEF AllKinds
<1>3. CommasUpTo(k, 1) = 0 /\ CommasUpTo(k, 2) = 0 /\ CommasUpTo(k, 3) = 1
  BY DEF CommasUpTo
<1>4. TextsUpTo(k, s, 1) = {} /\ TextsUpTo(k, s, 2) = {Line(k, s)[2]} /\ TextsUpTo(k, s, 3) = {Line(k, s)[2]}
  BY <1>2 DEF TextsUpTo
<1> QED BY <1>3, <1>4 DEF ParityUpTo

\* The first characters of two sentences are alike, if these are of one type.
LEMMA HeardAlike ==
    ASSUME NEW k \in AllKinds, NEW s \in Nat, NEW j \in AllKinds, NEW t \in Nat, NEW n \in 1..3,
           n = 1 \/ TypeOf(j) = TypeOf(k), Heard(k, s, n, 0)
    PROVE  Heard(j, t, n, 0)
<1>1. StarAt(k) \in 5..21 /\ StarAt(j) \in 5..21
  BY LineEnds
<1>2. n > 1 => Line(j, t)[2] = Line(k, s)[2]
  BY LineNames
<1>3. ParityUpTo(j, t, n) = ParityUpTo(k, s, n) /\ CommasUpTo(j, n) = CommasUpTo(k, n)
  <2>1. CASE n = 1 BY <2>1, FirstThree
  <2>2. CASE n = 2
    <3>1. PICK x : x = Line(k, s)[2] /\ x = Line(j, t)[2]
      BY <1>2, <2>2
    <3>2. ParityUpTo(k, s, 2) = {x} /\ ParityUpTo(j, t, 2) = {x} /\ CommasUpTo(k, 2) = 0 /\ CommasUpTo(j, 2) = 0
      BY <3>1, FirstThree
    <3> QED BY <2>2, <3>2
  <2>3. CASE n = 3
    <3>1. PICK x : x = Line(k, s)[2] /\ x = Line(j, t)[2]
      BY <1>2, <2>3
    <3>2. /\ ParityUpTo(k, s, 3) = {x, Comma} /\ ParityUpTo(j, t, 3) = {x, Comma}
          /\ CommasUpTo(k, 3) = 1 /\ CommasUpTo(j, 3) = 1
      BY <3>1, FirstThree
    <3> QED BY <2>3, <3>2
  <2> QED BY <2>1, <2>2, <2>3
<1>4. TermAt(j, t, n) = TermAt(k, s, n)
  <2>1. 2 \in TextsOf(k) /\ 2 \in TextsOf(j) /\ 1 \notin TextsOf(k) /\ 1 \notin TextsOf(j)
        /\ 3 \notin TextsOf(k) /\ 3 \notin TextsOf(j)
    BY LineChars DEF TextsOf, Between, CommasOf
  <2>2. CASE n = 2
    <3>1. PICK x : x = Line(k, s)[2] /\ x = Line(j, t)[2]
      BY <1>2, <2>2
    <3>2. TermAt(k, s, 2) = <<x>> /\ TermAt(j, t, 2) = <<x>>
      BY <2>1, <3>1 DEF TermAt
    <3> QED BY <2>2, <3>2
  <2>3. CASE n # 2
    <3>1. n \notin TextsOf(k) \cup {StarAt(k) + 1} /\ n \notin TextsOf(j) \cup {StarAt(j) + 1}
      BY <1>1, <2>1, <2>3
    <3> QED BY <3>1 DEF TermAt
  <2> QED BY <2>2, <2>3
<1>5. n \notin {StarAt(k), StarAt(k) + 1} /\ n \notin {StarAt(j), StarAt(j) + 1}
      /\ n <= StarAt(k) + 1 /\ n < StarAt(k) /\ n < StarAt(j)
  BY <1>1
<1>6. ~(n >= FixAt(k)) /\ ~(n >= FixAt(j)) /\ \A f \in Location : ~(n > PlaceOf(j, f))
  BY DEF FixAt, PlaceOf, Location
<1>7. Understood(k, s, n)
  BY <1>5 DEF Heard
<1>8. sentenceHasFix = (HasFix(j) /\ n >= FixAt(j))
  BY <1>6, <1>7, Zenon DEF Understood
<1>9. curSentenceType = IF n <= 2 THEN "OTHER" ELSE TypeOf(j)
  BY <1>7 DEF Understood
<1>10. Understood(j, t, n)
  BY <1>6, <1>8, <1>9, Zenon DEF Understood
<1>11. (isChecksumTerm <=> n \in {StarAt(j), StarAt(j) + 1})
  BY <1>5 DEF Heard
<1>12. parity = ParityUpTo(j, t, n) /\ term = TermAt(j, t, n) /\ curTermNumber = CommasUpTo(j, n) - 0
  BY <1>3, <1>4, <1>5 DEF Heard
<1>13. n # StarAt(j) + 1
  BY <1>5
<1> QED BY <1>10, <1>11, <1>12, <1>13 DEF Heard

\* Commas in a row.
LEMMA CommasInARow ==
    ASSUME NEW k \in AllKinds, NEW s \in Nat, NEW n \in 1..(StarAt(k) - 2), NEW q \in (n + 1)..(StarAt(k) - 1),
           \A i \in (n + 1)..q : i \in CommasOf(k)
    PROVE  /\ CommasUpTo(k, q) = CommasUpTo(k, n) + (q - n)
           /\ TextsUpTo(k, s, q) = TextsUpTo(k, s, n)
           /\ (q - n) % 2 = 0 => /\ ~HasFix(k) /\ n > 2 /\ Skipped(k, q, q - n)
                                 /\ n \in TextsOf(k) => q + 1 \in CommasOf(k) \cup {StarAt(k)}
<1>1. StarAt(k) \in 5..21
  BY LineEnds
<1>2. n \in 1..20 /\ q \in 2..20 /\ q > n
  BY <1>1
<1>3. TextsUpTo(k, s, q) = TextsUpTo(k, s, n)
  <2>1. \A j \in TextsOf(k) : j \in Int /\ j \notin CommasOf(k)
    BY DEF TextsOf, Between
  <2>2. {j \in TextsOf(k) : j <= q} = {j \in TextsOf(k) : j <= n}
    <3>1. ASSUME NEW j \in TextsOf(k), j <= q, ~(j <= n) PROVE FALSE
      <4>1. j \in (n + 1)..q
        BY <1>2, <2>1, <3>1
      <4> QED BY <2>1, <4>1
    <3>2. \A j \in TextsOf(k) : j <= n => j <= q
      BY <1>2, <2>1
    <3> QED BY <3>1, <3>2
  <2> QED BY <2>2 DEF TextsUpTo
<1>4. CASE q = n + 1
  <2>1. n + 1 \in CommasOf(k)
    BY <1>2, <1>4
  <2>2. n \in 1..(StarAt(k) + 2)
    BY <1>1, <1>2
  <2>3. CommasUpTo(k, n + 1) = CommasUpTo(k, n) + 1
    BY <2>1, <2>2, CommaCounted
  <2>4. q - n = 1
    BY <1>2, <1>4
  <2> QED BY <1>3, <1>4, <2>3, <2>4
<1>5. CASE q >= n + 2
  <2>1. n + 1 \in CommasOf(k) /\ n + 2 \in CommasOf(k) /\ q \in CommasOf(k)
        /\ (n < 10 /\ 10 <= q => 10 \in CommasOf(k))
    BY <1>2, <1>5
  <2>2. ~HasFix(k) /\ k # "other"
    BY <1>2, <2>1 DEF CommasOf, HasFix
  <2>3. CASE k = "rmcNoFix"
    <3>1. CommasOf(k) = {3, 5, 7, 8, 9, 10, 11, 12, 13}
      BY <2>3 DEF CommasOf, HasFix
    <3>2. n \in 6..11 /\ q \in 8..13
      BY <1>2, <1>5, <2>1, <3>1
    <3>3. CommasUpTo(k, n) = n - 4 /\ CommasUpTo(k, q) = q - 4 /\ n - 4 >= 1
      BY <2>3, <3>2 DEF CommasUpTo, HasFix
    <3>4. (q - n) % 2 = 0 => q - n \in {2, 4, 6} /\ (n = 6 => q + 1 \in {9, 11, 13})
      BY <1>5, <3>2
    <3>5. n \in TextsOf(k) => n = 6
      BY <2>3, <3>2, TextPlaces
    <3>6. CommasUpTo(k, q) = CommasUpTo(k, n) + (q - n) /\ CommasUpTo(k, q) - (q - n) >= 1
      BY <3>2, <3>3
    <3>7. (q - n) % 2 = 0 => Skipped(k, q, q - n)
      BY <2>2, <3>2, <3>4, <3>6 DEF Skipped
    <3>8. (q - n) % 2 = 0 /\ n \in TextsOf(k) => q + 1 \in CommasOf(k)
      BY <3>1, <3>4, <3>5
    <3> QED BY <1>3, <2>2, <3>2, <3>6, <3>7, <3>8
  <2>4. CASE k = "ggaNoFix"
    <3>1. CommasOf(k) = {3, 5, 6, 7, 8, 9, 11, 13, 14} /\ StarAt(k) = 15
      BY <2>4 DEF CommasOf, HasFix, StarAt
    <3>2. (n \in 4..7 /\ q \in 6..9) \/ (n = 12 /\ q = 14)
      BY <1>2, <1>5, <2>1, <3>1
    <3>3. /\ n \in 4..7 => CommasUpTo(k, n) = n - 3 /\ n - 3 >= 1
          /\ q \in 6..9 => CommasUpTo(k, q) = q - 3
          /\ CommasUpTo(k, 12) = 7 /\ CommasUpTo(k, 14) = 9
      BY <2>4 DEF CommasUpTo, HasFix
    <3>4. (q - n) % 2 = 0 => q - n \in {2, 4, 6} /\ (n = 4 => q + 1 \in {7, 9}) /\ (n = 12 => q + 1 = 15)
      BY <1>5, <3>2
    <3>5. n \in TextsOf(k) => n \in {4, 12}
      BY <2>4, <3>2, TextPlaces
    <3>6. CommasUpTo(k, q) = CommasUpTo(k, n) + (q - n) /\ CommasUpTo(k, q) - (q - n) >= 1
      BY <3>2, <3>3
    <3>7. (q - n) % 2 = 0 => Skipped(k, q, q - n)
      BY <2>2, <2>4, <3>2, <3>4, <3>6 DEF Skipped
    <3>8. (q - n) % 2 = 0 /\ n \in TextsOf(k) => q + 1 \in CommasOf(k) \cup {StarAt(k)}
      BY <3>1, <3>4, <3>5
    <3> QED BY <1>3, <2>2, <3>2, <3>6, <3>7, <3>8
  <2> QED BY <2>2, <2>3, <2>4 DEF AllKinds, HasFix
<1> QED BY <1>2, <1>4, <1>5

-----------------------------------------------------------------------------

\* Commas that were lost stay lost.
LEMMA SkippedOn ==
    ASSUME NEW k \in AllKinds, NEW n \in 1..(StarAt(k) + 2), NEW d, Skipped(k, n, d)
    PROVE  Skipped(k, n + 1, d)
<1>1. StarAt(k) \in 5..21
  BY LineEnds
<1>2. PICK c \in Nat, e \in Nat : c = CommasUpTo(k, n) /\ e = CommasUpTo(k, n + 1) /\ e >= c
  BY CommaCounted
<1> QED BY <1>1, <1>2 DEF Skipped

\* Where only commas were lost, an even number, the parser hears the rest.
LEMMA SkipHeard ==
    ASSUME NEW k \in AllKinds, NEW s \in Nat, NEW n \in 1..(StarAt(k) - 2), NEW q \in (n + 1)..(StarAt(k) - 1),
           \A i \in (n + 1)..q : i \in CommasOf(k), (q - n) % 2 = 0, Heard(k, s, n, 0),
           Members, curTermNumber \in 0..255, NEW luck, Encode(Line(k, s)[q + 1], luck),
           sumOf' = IF Line(k, s)[q + 1][1] = "sum" THEN s ELSE sumOf
    PROVE  Heard(k, s, q + 1, q - n)' /\ Skipped(k, q + 1, q - n)
<1>1. StarAt(k) \in 5..21
  BY LineEnds
<1>2. n \in 3..20 /\ q \in 2..20 /\ q > n /\ ~HasFix(k)
  BY <1>1, CommasInARow
<1>3. /\ CommasUpTo(k, q) = CommasUpTo(k, n) + (q - n) /\ TextsUpTo(k, s, q) = TextsUpTo(k, s, n)
      /\ Skipped(k, q, q - n) /\ (n \in TextsOf(k) => q + 1 \in CommasOf(k) \cup {StarAt(k)})
  BY CommasInARow
<1>4. PICK c \in 0..9, e \in 0..9, d \in Nat : c = CommasUpTo(k, n) /\ e = CommasUpTo(k, q) /\ d = q - n
  <2>1. n \in 1..(StarAt(k) + 2) /\ q \in 1..(StarAt(k) + 2)
    BY <1>1, <1>2
  <2> QED BY <2>1, CommaCounted
<1>5. d \in {2, 4, 6} /\ e = c + d /\ (e % 2 = 1 <=> c % 2 = 1)
  <2>1. d \in {2, 4, 6}
    BY <1>3, <1>4 DEF Skipped
  <2>2. e = c + d
    BY <1>3, <1>4
  <2> QED BY <2>1, <2>2
<1>6. ParityUpTo(k, s, q) = ParityUpTo(k, s, n)
  <2>1. CommasUpTo(k, q) % 2 = 1 <=> CommasUpTo(k, n) % 2 = 1
    BY <1>4, <1>5
  <2> QED BY <1>3, <2>1 DEF ParityUpTo
<1>7. n < StarAt(k) /\ n <= StarAt(k) + 1 /\ n \notin {StarAt(k), StarAt(k) + 1} /\ q < StarAt(k)
  BY <1>1
<1>8. parity = ParityUpTo(k, s, q) /\ ~isChecksumTerm /\ term = TermAt(k, s, n) /\ curTermNumber = c
      /\ Understood(k, s, n)
  BY <1>4, <1>6, <1>7 DEF Heard
<1>9. Skipped(k, q + 1, d)
  <2>1. q \in 1..(StarAt(k) + 2)
    BY <1>1, <1>2
  <2> QED BY <1>3, <1>4, <2>1, SkippedOn
<1>10. CASE n \notin TextsOf(k)
  <2>1. term = TermAt(k, s, q)
    <3>1. q \notin TextsOf(k) \cup {StarAt(k) + 1} /\ n \notin TextsOf(k) \cup {StarAt(k) + 1}
      <4>1. q \in CommasOf(k)
        BY <1>2
      <4> QED BY <1>1, <1>7, <1>10, <4>1 DEF TextsOf
    <3> QED BY <1>8, <3>1 DEF TermAt
  <2>2. Understood(k, s, q)
    <3>1. ~(n <= 2) /\ ~(q <= 2)
      BY <1>2
    <3>2. sentenceHasFix = (HasFix(k) /\ n >= FixAt(k))
      BY <1>8 DEF Understood
    <3>3. sentenceHasFix = (HasFix(k) /\ q >= FixAt(k))
      BY <1>2, <3>2, Zenon
    <3>4. curSentenceType = IF q <= 2 THEN "OTHER" ELSE TypeOf(k)
      BY <1>8, <3>1 DEF Understood
    <3> QED BY <1>2, <3>3, <3>4, Zenon DEF Understood
  <2>3. curTermNumber = CommasUpTo(k, q) - d
    BY <1>4, <1>5, <1>8
  <2>4. q \notin {StarAt(k), StarAt(k) + 1} /\ q # StarAt(k) + 1
    BY <1>1, <1>2, <1>7
  <2>5. Heard(k, s, q, d)
    BY <1>8, <2>1, <2>2, <2>3, <2>4 DEF Heard
  <2>6. Heard(k, s, q + 1, d)'
    <3>1. q \in 1..(StarAt(k) + 2) /\ d \in {0, 2, 4, 6} /\ Skipped(k, q, d)
      BY <1>1, <1>2, <1>3, <1>4, <1>5
    <3> QED BY <2>5, <3>1, HeardOn
  <2> QED BY <1>4, <1>9, <2>6
<1>11. CASE n \in TextsOf(k)
  <2>1. Line(k, s)[q + 1] \in Terminators
    <3>1. Comma \in Terminators /\ Star \in Terminators
      BY DEF Terminators
    <3> QED BY <1>3, <1>11, <3>1, LineChars, LineEnds
  <2>2. \E sum, l : EndOfTermHandler(sum, l)
    BY <2>1, EncodeCases DEF EncodeTerminator
  <2>3. curTermNumber = CommasUpTo(k, n) - 0 /\ curTermNumber = CommasUpTo(k, q) - d
    <3>1. c - 0 = c /\ e - d = c
      BY <1>5
    <3> QED BY <1>4, <1>8, <3>1
  <2>4. EndsTerm(k, s, n, 0)
    BY <1>8, <2>2, <2>3, Zenon DEF EndsTerm, Members
  <2>5. q \in 2..(StarAt(k) - 1) /\ n \in 2..(StarAt(k) - 1) /\ d \in {0, 2, 4, 6} /\ 0 \in {0, 2, 4, 6}
    BY <1>1, <1>2, <1>5
  <2>6. q + 1 \in CommasOf(k) \cup {StarAt(k)}
    BY <1>3, <1>11
  <2>7. Heard(k, s, q + 1, d)'
    BY <1>2, <1>8, <2>3, <2>4, <2>5, <2>6, TermEnds
  <2> QED BY <1>4, <1>9, <2>7
<1> QED BY <1>10, <1>11

\* The fourth character says which sentence it is.
LEMMA FourthTells ==
    ASSUME NEW k \in AllKinds, NEW s \in Nat, NEW n \in Nat, n >= 4,
           NEW j \in AllKinds, NEW t \in Nat, t # s, NEW q
    PROVE  /\ Line(k, s)[4] \in ParityUpTo(k, s, n) /\ Line(k, s)[4] \notin ParityUpTo(j, t, q)
           /\ \A i \in Between(j) : Line(j, t)[i] # Line(k, s)[4]
<1>1. 4 \in TextsOf(k) /\ TextsOf(j) \subseteq Between(j) /\ Line(k, s)[4] # Comma
  <2>1. ~IsText(Comma)
    BY DEF IsText, Terminators
  <2> QED BY <2>1, LineChars
<1>2. \A i \in Between(j) : Line(j, t)[i] # Line(k, s)[4]
  BY LineNames
<1>3. Line(k, s)[4] \in TextsUpTo(k, s, n)
  BY <1>1 DEF TextsUpTo
<1>4. Line(k, s)[4] \notin TextsUpTo(j, t, q)
  BY <1>1, <1>2 DEF TextsUpTo
<1> QED BY <1>1, <1>2, <1>3, <1>4 DEF ParityUpTo

\* After a gap that ended in another sentence, the parity is wrong, or nothing
\* that matters was lost.
LEMMA OtherSentence ==
    ASSUME NEW k \in AllKinds, NEW s \in Nat, NEW n \in 1..(StarAt(k) + 3), Heard(k, s, n, 0),
           NEW j \in AllKinds, NEW t \in Nat, t # s, NEW q \in 1..StarAt(j)
    PROVE  (\E x : Broken(x, j, t, q)) \/ (q = n /\ n \in 1..3 /\ (n = 1 \/ TypeOf(j) = TypeOf(k)))
<1>1. StarAt(k) \in 5..21 /\ StarAt(j) \in 5..21
  BY LineEnds
<1>2. n \in 1..24 /\ q \in 1..21
  BY <1>1
<1>3. parity = ParityUpTo(k, s, n)
  BY DEF Heard
<1>4. CASE n >= 4
  <2>1. PICK x : x = Line(k, s)[4]
    OBVIOUS
  <2>2. x \in parity /\ x \notin ParityUpTo(j, t, q) /\ \A i \in Between(j) : Line(j, t)[i] # x
    BY <1>2, <1>3, <1>4, <2>1, FourthTells
  <2> QED BY <2>2 DEF Broken
<1>5. CASE n \in 1..3
  <2>1. ~isChecksumTerm
    <3>1. n \notin {StarAt(k), StarAt(k) + 1}
      BY <1>1, <1>5
    <3> QED BY <3>1 DEF Heard
  <2>2. CASE q >= 4
    <3>1. PICK x : x = Line(j, t)[4]
      OBVIOUS
    <3>2. x \notin parity /\ x \in ParityUpTo(j, t, q)
      BY <1>2, <1>3, <2>2, <3>1, FourthTells
    <3> QED BY <2>1, <3>2 DEF Broken
  <2>3. CASE q \in 1..3
    <3>1. PICK x, y : x = Line(k, s)[2] /\ y = Line(j, t)[2]
      OBVIOUS
    <3>2. x # Comma /\ y # Comma
      <4>1. ~IsText(Comma)
        BY DEF IsText, Terminators
      <4> QED BY <3>1, <4>1, LineChars
    <3>3. /\ n = 1 => parity = {}
          /\ n = 2 => parity = {x}
          /\ n = 3 => parity = {x, Comma}
      BY <1>3, <3>1, FirstThree
    <3>4. /\ q = 1 => ParityUpTo(j, t, q) = {}
          /\ q = 2 => ParityUpTo(j, t, q) = {y}
          /\ q = 3 => ParityUpTo(j, t, q) = {y, Comma}
      BY <3>1, FirstThree
    <3>5. TypeOf(j) # TypeOf(k) => x # y
      <4>1. 2 \in Between(j)
        BY <1>1 DEF Between
      <4> QED BY <3>1, <4>1, LineNames
    <3>6. (\A z : z \in parity <=> z \in ParityUpTo(j, t, q)) \/ \E z : Broken(z, j, t, q)
      BY <2>1 DEF Broken
    <3>7. CASE n = 1
      <4>1. q # 1 => y \in ParityUpTo(j, t, q) /\ y \notin parity
        BY <2>3, <3>3, <3>4, <3>7
      <4> QED BY <1>5, <2>3, <3>6, <3>7, <4>1
    <3>8. CASE n = 2
      <4>1. q = 1 => x \in parity /\ x \notin ParityUpTo(j, t, q)
        BY <3>3, <3>4, <3>8
      <4>2. q = 3 => Comma \notin parity /\ Comma \in ParityUpTo(j, t, q)
        BY <3>2, <3>3, <3>4, <3>8
      <4>3. q = 2 /\ TypeOf(j) # TypeOf(k) => x \in parity /\ x \notin ParityUpTo(j, t, q)
        BY <3>3, <3>4, <3>5, <3>8
      <4> QED BY <1>5, <2>3, <3>6, <3>8, <4>1, <4>2, <4>3
    <3>9. CASE n = 3
      <4>1. q \in {1, 2} => Comma \in parity /\ Comma \notin ParityUpTo(j, t, q)
        BY <3>2, <3>3, <3>4, <3>9
      <4>2. q = 3 /\ TypeOf(j) # TypeOf(k) => x \in parity /\ x \notin ParityUpTo(j, t, q)
        BY <3>2, <3>3, <3>4, <3>5, <3>9
      <4> QED BY <1>5, <2>3, <3>6, <3>9, <4>1, <4>2
    <3> QED BY <1>5, <3>7, <3>8, <3>9
  <2> QED BY <1>2, <2>2, <2>3
<1> QED BY <1>2, <1>4, <1>5

\* After a gap within a sentence, the parity is wrong, or commas are missing.
LEMMA SameSentence ==
    ASSUME NEW k \in AllKinds, NEW s \in Nat, NEW n \in 1..(StarAt(k) - 2), NEW q \in (n + 1)..(StarAt(k) - 1),
           Heard(k, s, n, 0)
    PROVE  (\E x : Broken(x, k, s, q)) \/ ((q - n) % 2 = 0 /\ \A i \in (n + 1)..q : i \in CommasOf(k))
<1>1. StarAt(k) \in 5..21
  BY LineEnds
<1>2. n \in 1..19 /\ q \in 2..20 /\ q > n
  BY <1>1
<1>3. parity = ParityUpTo(k, s, n) /\ ~isChecksumTerm
  <2>1. n \notin {StarAt(k), StarAt(k) + 1}
    BY <1>1
  <2> QED BY <2>1 DEF Heard
<1>4. \A x : (x \in ParityUpTo(k, s, n)) # (x \in ParityUpTo(k, s, q)) => Broken(x, k, s, q)
  BY <1>3 DEF Broken
<1>5. ~IsText(Comma)
  BY DEF IsText, Terminators
<1>6. CASE \E i \in (n + 1)..q : i \in TextsOf(k)
  <2>1. PICK i \in (n + 1)..q : i \in TextsOf(k)
    BY <1>6
  <2>2. PICK x : x = Line(k, s)[i]
    OBVIOUS
  <2>3. x # Comma
    BY <1>5, <2>1, <2>2, LineChars
  <2>4. x \in TextsUpTo(k, s, q)
    BY <1>2, <2>1, <2>2 DEF TextsUpTo
  <2>5. x \notin TextsUpTo(k, s, n)
    <3>1. ASSUME NEW j \in TextsOf(k), j <= n, x = Line(k, s)[j] PROVE FALSE
      <4>1. i = j
        <5>1. Line(k, s)[i] = Line(k, s)[j]
          BY <2>2, <3>1
        <5>2. \A a, b \in TextsOf(k) : Line(k, s)[a] = Line(k, s)[b] => a = b
          BY LineChars
        <5> QED BY <2>1, <3>1, <5>1, <5>2
      <4> QED BY <1>2, <2>1, <3>1, <4>1
    <3> QED BY <3>1 DEF TextsUpTo
  <2>6. x \notin ParityUpTo(k, s, n) /\ x \in ParityUpTo(k, s, q)
    BY <2>3, <2>4, <2>5 DEF ParityUpTo
  <2> QED BY <1>4, <2>6
<1>7. CASE \A i \in (n + 1)..q : i \in CommasOf(k)
  <2>1. CommasUpTo(k, q) = CommasUpTo(k, n) + (q - n)
    BY <1>7, CommasInARow
  <2>2. CASE (q - n) % 2 # 0
    <3>1. PICK c \in Nat, e \in Nat : c = CommasUpTo(k, n) /\ e = CommasUpTo(k, q)
      <4>1. n \in 1..(StarAt(k) + 2) /\ q \in 1..(StarAt(k) + 2)
        BY <1>1, <1>2
      <4> QED BY <4>1, CommaCounted
    <3>2. (e % 2 = 1) # (c % 2 = 1)
      <4>1. PICK m \in Nat : m = q - n
        BY <1>2
      <4>2. e = c + m /\ m % 2 = 1
        BY <2>1, <2>2, <3>1, <4>1
      <4> QED BY <4>2
    <3>3. Comma \notin TextsUpTo(k, s, n) /\ Comma \notin TextsUpTo(k, s, q)
      BY <1>5, LineChars DEF TextsUpTo
    <3>4. /\ Comma \in ParityUpTo(k, s, n) <=> c % 2 = 1
          /\ Comma \in ParityUpTo(k, s, q) <=> e % 2 = 1
      BY <3>1, <3>3 DEF ParityUpTo
    <3> QED BY <1>4, <3>2, <3>4
  <2> QED BY <1>7, <2>2
<1>8. \A i \in (n + 1)..q : i \in TextsOf(k) \/ i \in CommasOf(k)
  BY <1>1, <1>2 DEF TextsOf, Between
<1> QED BY <1>6, <1>7, <1>8

-----------------------------------------------------------------------------

\* The next character is the one after the first q of sentence t, of kind j.
At(j, t, q) ==
    /\ Here(j, t, q) /\ j \in Kinds /\ t \in 1..MaxSentences /\ q \in 0..(StarAt(j) + 2)
    /\ Char = Line(j, t)[q + 1] /\ Len(Sentence) = StarAt(j) + 3

\* There is one as long as the receiver sends.
LEMMA CharIsNext ==
    ASSUME FeedTypes, id <= MaxSentences
    PROVE  \E j \in AllKinds, t \in Nat, q \in Nat : At(j, t, q)
<1>1. Kinds \subseteq AllKinds /\ MaxSentences \in Nat
  BY FeedAssumption DEF AllKinds
<1>2. PICK j \in AllKinds, t \in Nat : j = kind /\ t = id /\ j \in Kinds /\ t \in 1..MaxSentences
  BY <1>1 DEF FeedTypes
<1>3. StarAt(j) \in 5..21 /\ Len(Line(j, t)) = StarAt(j) + 3
  BY LineEnds
<1>4. PICK q \in Nat : q = pos /\ q \in 0..(StarAt(j) + 2)
  BY <1>2, <1>3 DEF FeedTypes
<1>5. Sentence = Line(j, t)
  <2>1. Sentences = [k \in Kinds |-> [s \in 1..(MaxSentences + 1) |-> Line(k, s)]]
    BY Zenon DEF Sentences, Line
  <2>2. t \in 1..(MaxSentences + 1)
    BY <1>1, <1>2
  <2> QED BY <1>2, <2>1, <2>2 DEF Sentence
<1>6. Here(j, t, q) /\ Char = Line(j, t)[q + 1] /\ Len(Sentence) = StarAt(j) + 3
  BY <1>2, <1>3, <1>4, <1>5 DEF Here, Char
<1> QED BY <1>2, <1>4, <1>6 DEF At

\* The receiver goes on from there.
Goes(j, t, q) ==
    /\ id' \in 1..(MaxSentences + 1) /\ kind' \in Kinds /\ pos' \in 0..(StarAt(kind') + 2)
    /\ q < StarAt(j) + 2 => Here(j, t, q + 1)'
    /\ q = StarAt(j) + 2 => pos' = 0 /\ id' = t + 1 /\ whole' = TRUE

LEMMA Advances ==
    ASSUME FeedTypes, NEW j \in AllKinds, NEW t \in Nat, NEW q \in Nat, At(j, t, q), NEW received, Advance(received)
    PROVE  Goes(j, t, q) /\ (q < StarAt(j) + 2 => whole' = (whole /\ received))
<1>1. Kinds \subseteq AllKinds /\ MaxSentences \in Nat
  BY FeedAssumption DEF AllKinds
<1>2. /\ j = kind /\ t = id /\ q = pos /\ j \in Kinds /\ t \in 1..MaxSentences /\ q \in 0..(StarAt(j) + 2)
      /\ Len(Sentence) = StarAt(j) + 3
  BY DEF At, Here
<1>3. PICK z \in 5..21, len \in Nat : z = StarAt(j) /\ len = Len(Sentence) /\ len = z + 3
  <2>1. StarAt(j) \in 5..21 /\ StarAt(j) + 3 \in Nat
    <3>1. StarAt(j) \in 5..21
      BY LineEnds
    <3> QED BY <3>1
  <2> QED BY <1>2, <2>1
<1>4. CASE q < StarAt(j) + 2
  <2>1. pos + 1 < Len(Sentence)
    BY <1>2, <1>3, <1>4
  <2>2. pos' = pos + 1 /\ whole' = (whole /\ received) /\ id' = id /\ kind' = kind
    BY <2>1 DEF Advance
  <2>3. kind' = j /\ pos' = q + 1 /\ id' = t
    BY <1>2, <2>2
  <2>4. StarAt(kind') = z
    BY <1>3, <2>3
  <2>5. pos' \in 0..(StarAt(kind') + 2) /\ id' \in 1..(MaxSentences + 1) /\ kind' \in Kinds
    BY <1>1, <1>2, <1>3, <1>4, <2>3, <2>4
  <2>6. q # StarAt(j) + 2
    BY <1>3, <1>4
  <2> QED BY <2>2, <2>3, <2>5, <2>6 DEF Goes, Here
<1>5. CASE q = StarAt(j) + 2
  <2>1. ~(pos + 1 < Len(Sentence))
    BY <1>2, <1>3, <1>5
  <2>2. pos' = 0 /\ whole' = TRUE /\ id' = t + 1 /\ kind' \in Kinds
    BY <1>2, <2>1 DEF Advance
  <2>3. pos' \in 0..(StarAt(kind') + 2) /\ id' \in 1..(MaxSentences + 1)
    <3>1. PICK m \in AllKinds : m = kind'
      BY <1>1, <2>2
    <3>2. StarAt(m) \in 5..21
      BY LineEnds
    <3> QED BY <1>1, <1>2, <2>2, <3>1, <3>2
  <2>4. ~(q < StarAt(j) + 2)
    BY <1>3, <1>5
  <2> QED BY <2>2, <2>3, <2>4 DEF Goes
<1> QED BY <1>2, <1>3, <1>4, <1>5

\* The character comes through.
Takes(j, t, q) ==
    /\ At(j, t, q) /\ Goes(j, t, q)
    /\ \E luck \in BOOLEAN : Encode(Line(j, t)[q + 1], luck)
    /\ sumOf' = IF Line(j, t)[q + 1][1] = "sum" THEN t ELSE sumOf
    /\ ~gap' /\ cuts' = (IF q = 0 THEN 0 ELSE cuts)
    /\ q < StarAt(j) + 2 => whole' = whole
    /\ FeedTypes'

\* Each character that comes through is one of a sentence.
LEMMA Received ==
    ASSUME FeedTypes, Receive
    PROVE  \E j \in AllKinds, t \in Nat, q \in Nat : Takes(j, t, q)
<1>1. PICK j \in AllKinds, t \in Nat, q \in Nat : At(j, t, q)
  <2>1. id <= MaxSentences
    BY DEF Receive
  <2> QED BY <2>1, CharIsNext
<1>2. StarAt(j) \in 5..21 /\ Line(j, t)[1] = Dollar
  BY LineEnds
<1>3. t = id /\ q = pos /\ q \in 0..(StarAt(j) + 2) /\ Char = Line(j, t)[q + 1]
  BY <1>1 DEF At, Here
<1>4. (\E luck \in BOOLEAN : Encode(Line(j, t)[q + 1], luck))
      /\ sumOf' = IF Line(j, t)[q + 1][1] = "sum" THEN t ELSE sumOf
  BY <1>3 DEF Receive
<1>5. gap' = FALSE /\ cuts' = (IF Char = Dollar THEN 0 ELSE cuts) /\ Advance(TRUE)
  BY DEF Receive
<1>6. cuts' = IF q = 0 THEN 0 ELSE cuts
  <2>1. CASE q = 0
    BY <1>2, <1>3, <1>5, <2>1
  <2>2. CASE q # 0
    <3>1. q \in 1..(StarAt(j) + 2)
      BY <1>2, <1>3, <2>2
    <3>2. Char # Dollar
      BY <1>3, <3>1, NextChar
    <3> QED BY <1>5, <2>2, <3>2
  <2> QED BY <2>1, <2>2
<1>7. Goes(j, t, q) /\ (q < StarAt(j) + 2 => whole' = (whole /\ TRUE))
  BY <1>1, <1>5, Advances
<1>8. q < StarAt(j) + 2 => whole' = whole
  BY <1>7, Zenon DEF FeedTypes
<1>9. q < StarAt(j) + 2 \/ q = StarAt(j) + 2
  BY <1>2, <1>3
<1>10. id' \in 1..(MaxSentences + 1) /\ kind' \in Kinds /\ pos' \in 0..(StarAt(kind') + 2)
  BY <1>7 DEF Goes
<1>11. whole' \in BOOLEAN /\ gap' \in BOOLEAN
  <2>1. whole' \in BOOLEAN
    BY <1>7, <1>8, <1>9, Zenon DEF FeedTypes, Goes
  <2> QED BY <1>5, <2>1, Zenon
<1>12. cuts' \in 0..2
  BY <1>6 DEF FeedTypes
<1>13. pos' = 0 => whole'
  <2>1. q < StarAt(j) + 2 => pos' = q + 1
    BY <1>7 DEF Goes, Here
  <2>2. q < StarAt(j) + 2 => pos' # 0
    BY <2>1
  <2> QED BY <1>7, <1>9, <2>2 DEF Goes
<1>14. ~whole' \/ gap' => cuts' # 0
  <2>1. ~whole' => q < StarAt(j) + 2 /\ ~whole
    BY <1>7, <1>8, <1>9 DEF Goes
  <2>2. ~whole => q # 0 /\ cuts # 0
    BY <1>3 DEF FeedTypes
  <2> QED BY <1>5, <1>6, <2>1, <2>2
<1>15. whole' /\ pos' > 0 => ~gap' /\ cuts' = 0
  <2>1. SUFFICES ASSUME whole', pos' > 0 PROVE cuts' = 0
    BY <1>5
  <2>2. q < StarAt(j) + 2
    <3>1. q = StarAt(j) + 2 => pos' = 0
      BY <1>7 DEF Goes
    <3> QED BY <1>9, <2>1, <3>1
  <2>3. whole
    BY <1>8, <2>1, <2>2, Zenon
  <2>4. q # 0 => cuts = 0
    BY <1>3, <2>3 DEF FeedTypes
  <2> QED BY <1>6, <2>4
<1>16. FeedTypes'
  BY <1>10, <1>11, <1>12, <1>13, <1>14, <1>15 DEF FeedTypes
<1> QED BY <1>1, <1>4, <1>5, <1>6, <1>7, <1>8, <1>16 DEF Takes

\* It does not, or not all of it.
Slips(j, t, q) ==
    /\ At(j, t, q) /\ Goes(j, t, q)
    /\ cuts' = (IF gap THEN cuts ELSE IF cuts = 0 THEN 1 ELSE 2) /\ sumOf' = sumOf
    /\ q < StarAt(j) + 2 => ~whole'
    /\ FeedTypes'

LEMMA Slipped ==
    ASSUME FeedTypes, Gap, gap' \in BOOLEAN
    PROVE  \E j \in AllKinds, t \in Nat, q \in Nat : Slips(j, t, q)
<1>1. PICK j \in AllKinds, t \in Nat, q \in Nat : At(j, t, q)
  <2>1. id <= MaxSentences
    BY DEF Gap
  <2> QED BY <2>1, CharIsNext
<1>2. StarAt(j) \in 5..21 /\ q \in 0..(StarAt(j) + 2)
  BY <1>1, LineEnds DEF At
<1>3. cuts' = (IF gap THEN cuts ELSE IF cuts = 0 THEN 1 ELSE 2) /\ sumOf' = sumOf /\ Advance(FALSE)
  BY DEF Gap
<1>4. Goes(j, t, q) /\ (q < StarAt(j) + 2 => whole' = (whole /\ FALSE))
  BY <1>1, <1>3, Advances
<1>5. q < StarAt(j) + 2 => whole' = FALSE
  BY <1>4, Zenon
<1>6. q < StarAt(j) + 2 \/ q = StarAt(j) + 2
  BY <1>2
<1>7. id' \in 1..(MaxSentences + 1) /\ kind' \in Kinds /\ pos' \in 0..(StarAt(kind') + 2)
  BY <1>4 DEF Goes
<1>8. whole' \in BOOLEAN
  BY <1>4, <1>5, <1>6, Zenon DEF Goes
<1>9. cuts' \in 0..2 /\ cuts' # 0
  BY <1>3 DEF FeedTypes
<1>10. pos' = 0 => whole'
  <2>1. q < StarAt(j) + 2 => pos' = q + 1
    BY <1>4 DEF Goes, Here
  <2>2. q < StarAt(j) + 2 => pos' # 0
    BY <2>1
  <2> QED BY <1>4, <1>6, <2>2 DEF Goes
<1>11. ~(whole' /\ pos' > 0)
  <2>1. q = StarAt(j) + 2 => ~(pos' > 0)
    BY <1>4 DEF Goes
  <2> QED BY <1>5, <1>6, <2>1, Zenon
<1>12. FeedTypes'
  BY <1>7, <1>8, <1>9, <1>10, <1>11 DEF FeedTypes
<1> QED BY <1>1, <1>3, <1>4, <1>5, <1>12 DEF Slips

\* A line of which characters are missing goes on.
LEMMA LateGoes ==
    ASSUME NEW j \in AllKinds, NEW t \in Nat, NEW q \in Nat, Takes(j, t, q), q > 0, ~whole, cuts = 1
    PROVE  /\ q < StarAt(j) + 2 => Late' /\ Here(j, t, q + 1)'
           /\ q = StarAt(j) + 2 => Mode'
<1>1. ~gap' /\ cuts' = 1
  BY DEF Takes
<1>2. ASSUME q < StarAt(j) + 2
      PROVE  Late' /\ Here(j, t, q + 1)'
  <2>1. Here(j, t, q + 1)' /\ whole' = whole
    BY <1>2 DEF Takes, Goes
  <2>2. ~whole'
    BY <2>1, Zenon
  <2>3. pos' > 0
    BY <2>1 DEF Here
  <2> QED BY <1>1, <2>1, <2>2, <2>3 DEF Late
<1>3. q = StarAt(j) + 2 => Dollared'
  BY <1>1 DEF Takes, Goes, Dollared
<1> QED BY <1>2, <1>3 DEF Mode

\* A line whose * was lost stays without.
LEMMA OverGoes ==
    ASSUME NEW j \in AllKinds, NEW t \in Nat, NEW q \in Nat, Takes(j, t, q),
           ~whole, cuts = 1, q >= StarAt(j), ~isChecksumTerm \/ q > StarAt(j)
    PROVE  Mode'
<1>1. StarAt(j) \in 5..21 /\ q > 0 /\ q \in 1..(StarAt(j) + 2)
  <2>1. StarAt(j) \in 5..21
    BY LineEnds
  <2> QED BY <2>1 DEF Takes, At
<1>2. PICK c, luck : c = Line(j, t)[q + 1] /\ Encode(c, luck)
  BY DEF Takes
<1>3. ~isChecksumTerm'
  <2>1. CASE q = StarAt(j)
    <3>1. EncodeText(c)
      BY <1>1, <1>2, <2>1, NextChar, EncodeCases
    <3>2. ~isChecksumTerm
      BY <1>1, <2>1
    <3> QED BY <3>1, <3>2 DEF EncodeText
  <2>2. CASE q > StarAt(j)
    <3>1. c \in Terminators \ {Comma, Star}
      BY <1>1, <1>2, <2>2, NextChar
    <3>2. EncodeTerminator(c, luck) /\ c # Star
      BY <1>2, <3>1, EncodeCases
    <3> QED BY <3>2 DEF EncodeTerminator
  <2> QED BY <1>1, <2>1, <2>2
<1>4. CASE q < StarAt(j) + 2
  <2>1. Late' /\ Here(j, t, q + 1)'
    BY <1>1, <1>4, LateGoes
  <2>2. pos' > StarAt(kind')
    BY <1>1, <2>1 DEF Here
  <2>3. Over'
    BY <1>3, <2>1, <2>2 DEF Over
  <2> QED BY <2>3 DEF Mode
<1>5. CASE q = StarAt(j) + 2
  BY <1>1, <1>5, LateGoes
<1> QED BY <1>1, <1>4, <1>5

\* A line whose parity is wrong goes on with it up to the checksum.
LEMMA SpoiledGoes ==
    ASSUME NEW j \in AllKinds, NEW t \in Nat, NEW q \in 1..StarAt(j), ParserTypes,
           Takes(j, t, q), ~whole, cuts = 1, NEW x, Broken(x, j, t, q), q = StarAt(j) => isChecksumTerm
    PROVE  Mode'
<1>1. StarAt(j) \in 5..21
  BY LineEnds
<1>2. q \in Nat /\ q > 0 /\ q < StarAt(j) + 2 /\ q \in 1..(StarAt(j) + 2)
  BY <1>1
<1>3. PICK luck : Encode(Line(j, t)[q + 1], luck)
  BY DEF Takes
<1>4. Late' /\ Here(j, t, q + 1)'
  BY <1>2, LateGoes
<1>5. Broken(x, j, t, q + 1)'
  BY <1>3, BrokenOn
<1>6. OwnSum(j, t, q + 1)'
  BY <1>2, <1>3, SumIsOwn
<1>7. q + 1 \in Nat
  BY <1>2
<1>8. Spoiled(x)'
  BY <1>4, <1>5, <1>6, <1>7 DEF Spoiled
<1> QED BY <1>8 DEF Mode

\* A sentence without some commas goes on.
LEMMA ShiftedGoes ==
    ASSUME NEW j \in AllKinds, NEW t \in Nat, NEW q \in Nat, Takes(j, t, q),
           q > 0, ~whole, cuts = 1, NEW d, Skipped(j, q + 1, d), Heard(j, t, q + 1, d)'
    PROVE  Mode'
<1>1. CASE q < StarAt(j) + 2
  <2>1. Late' /\ Here(j, t, q + 1)'
    BY <1>1, LateGoes
  <2>2. d \in {2, 4, 6}
    BY DEF Skipped
  <2>3. q + 1 \in Nat
    OBVIOUS
  <2>4. Shifted(d)'
    BY <2>1, <2>3 DEF Shifted
  <2> QED BY <2>2, <2>4 DEF Mode
<1>2. CASE q = StarAt(j) + 2
  BY <1>2, LateGoes
<1>3. q \in 0..(StarAt(j) + 2) /\ StarAt(j) \in 5..21
  BY LineEnds DEF Takes, At
<1> QED BY <1>1, <1>2, <1>3

\* A sentence that is heard from the beginning is heard on.
LEMMA InStepGoes ==
    ASSUME NEW j \in AllKinds, NEW t \in Nat, NEW q \in Nat, Takes(j, t, q), Heard(j, t, q + 1, 0)'
    PROVE  Mode'
<1>1. StarAt(j) \in 5..21 /\ q \in 0..(StarAt(j) + 2)
  BY LineEnds DEF Takes, At
<1>2. q + 1 \in 1..(StarAt(j) + 3)
  BY <1>1
<1>3. ~gap' /\ (Here(j, t, q + 1)' \/ (pos' = 0 /\ id' = t + 1))
  BY <1>1 DEF Takes, Goes
<1>4. InStep(j, t, q + 1)'
  BY <1>3 DEF InStep
<1> QED BY <1>2, <1>4 DEF Mode

\* The first character after a gap.
LEMMA GapGoes ==
    ASSUME NEW j \in AllKinds, NEW t \in Nat, NEW q \in Nat, ParserTypes, Takes(j, t, q), cuts = 1,
           q > 0, NEW k \in AllKinds, NEW s \in Nat, NEW n \in 1..(StarAt(k) + 3), InStep(k, s, n), gap
    PROVE  Mode'
<1>1. StarAt(j) \in 5..21 /\ q \in 0..(StarAt(j) + 2) /\ StarAt(k) \in 5..21
  BY LineEnds DEF Takes, At
<1>2. Heard(k, s, n, 0) /\ ~whole /\ (t > s \/ (t = s /\ j = k /\ q > n))
  BY DEF InStep, Takes, At, Here
<1>3. (\E luck \in BOOLEAN : Encode(Line(j, t)[q + 1], luck))
      /\ sumOf' = IF Line(j, t)[q + 1][1] = "sum" THEN t ELSE sumOf
  BY DEF Takes
<1>7. PICK luck : Encode(Line(j, t)[q + 1], luck)
  BY <1>3
<1>4. CASE q >= StarAt(j) /\ (~isChecksumTerm \/ q > StarAt(j))
  BY <1>2, <1>4, OverGoes
<1>5. CASE q \in 1..StarAt(j) /\ (q = StarAt(j) => isChecksumTerm) /\ \E x : Broken(x, j, t, q)
  BY <1>2, <1>5, SpoiledGoes
<1>6. CASE q \in 1..StarAt(j) /\ (q = StarAt(j) => isChecksumTerm) /\ ~ \E x : Broken(x, j, t, q)
  <2>1. CASE t # s
    <3>1. q = n /\ n \in 1..3 /\ (n = 1 \/ TypeOf(j) = TypeOf(k))
      BY <1>2, <1>6, <2>1, OtherSentence
    <3>2. Heard(j, t, q, 0)
      BY <1>2, <3>1, HeardAlike
    <3>3. q \in 1..(StarAt(j) + 2) /\ 0 \in {0, 2, 4, 6}
      BY <1>1, <1>6
    <3>4. Members /\ curTermNumber \in 0..255
      BY DEF ParserTypes
    <3>5. Heard(j, t, q + 1, 0)'
      BY <1>3, <1>7, <3>2, <3>3, <3>4, HeardOn
    <3> QED BY <3>5, InStepGoes
  <2>2. CASE t = s
    <3>1. j = k /\ q > n /\ Heard(j, t, n, 0)
      BY <1>2, <2>2
    <3>2. isChecksumTerm => n \in {StarAt(j), StarAt(j) + 1}
      BY <3>1 DEF Heard
    <3>3. q # StarAt(j)
      BY <1>1, <1>6, <3>1, <3>2
    <3>4. n \in 1..(StarAt(j) - 2) /\ q \in (n + 1)..(StarAt(j) - 1)
      BY <1>1, <1>6, <3>1, <3>3
    <3>5. (q - n) % 2 = 0 /\ \A i \in (n + 1)..q : i \in CommasOf(j)
      BY <1>6, <3>1, <3>4, SameSentence
    <3>6. Members /\ curTermNumber \in 0..255
      BY DEF ParserTypes
    <3>7. Heard(j, t, q + 1, q - n)' /\ Skipped(j, q + 1, q - n)
      BY <1>3, <1>7, <3>1, <3>4, <3>5, <3>6, SkipHeard
    <3> QED BY <1>2, <3>7, ShiftedGoes
  <2> QED BY <2>1, <2>2
<1> QED BY <1>1, <1>4, <1>5, <1>6

\* The first character after a gap in which a text was cut.
LEMMA RaggedGoes ==
    ASSUME NEW j \in AllKinds, NEW t \in Nat, NEW q \in Nat, FeedTypes, ParserTypes, Takes(j, t, q), q > 0,
           NEW x, Ragged(x)
    PROVE  Mode'
<1>1. StarAt(j) \in 5..21 /\ q \in 0..(StarAt(j) + 2)
  BY LineEnds DEF Takes, At
<1>2. kind = j /\ id = t /\ pos = q /\ cuts = 1 /\ Gone(x) /\ gap
  BY DEF Takes, At, Here, Ragged
<1>3. ~whole
  BY <1>2 DEF FeedTypes
<1>4. CASE q >= StarAt(j) /\ (~isChecksumTerm \/ q > StarAt(j))
  BY <1>2, <1>3, <1>4, OverGoes
<1>5. CASE q \in 1..StarAt(j) /\ (q = StarAt(j) => isChecksumTerm)
  <2>1. x \in parity /\ x # Comma /\ \A i \in Between(j) : Line(j, t)[i] # x
    BY <1>1, <1>2, <1>5 DEF Gone
  <2>2. x \notin ParityUpTo(j, t, q)
    BY <2>1 DEF ParityUpTo, TextsUpTo, TextsOf
  <2>3. Broken(x, j, t, q)
    BY <2>1, <2>2 DEF Broken
  <2> QED BY <1>2, <1>3, <1>5, <2>3, SpoiledGoes
<1> QED BY <1>1, <1>4, <1>5

\* Whatever comes through leaves the parser in one of the modes.
LEMMA ReceiveGoes ==
    ASSUME FeedTypes, ParserTypes, Mode, Receive
    PROVE  Mode' /\ FeedTypes'
<1>1. PICK j \in AllKinds, t \in Nat, q \in Nat : Takes(j, t, q)
  BY Received
<1>2. /\ Here(j, t, q) /\ q \in 0..(StarAt(j) + 2) /\ FeedTypes' /\ cuts' = (IF q = 0 THEN 0 ELSE cuts)
      /\ sumOf' = IF Line(j, t)[q + 1][1] = "sum" THEN t ELSE sumOf
  BY <1>1 DEF Takes, At
<1>11. PICK luck : Encode(Line(j, t)[q + 1], luck)
  BY <1>1 DEF Takes
<1>3. StarAt(j) \in 5..21 /\ Line(j, t)[1] = Dollar
  BY LineEnds
<1>4. Members /\ curTermNumber \in 0..255
  BY DEF ParserTypes
<1>5. CASE q = 0
  <2>1. Encode(Dollar, luck)
    BY <1>3, <1>5, <1>11
  <2>2. Heard(j, t, q + 1, 0)'
    BY <1>5, <2>1, DollarHeard
  <2> QED BY <1>1, <1>2, <2>2, InStepGoes
<1>12. CASE cuts = 2
  BY <1>2, <1>5, <1>12 DEF Mode
<1>6. ASSUME q # 0, cuts # 2, NEW k \in AllKinds, NEW s \in Nat, NEW n \in 1..(StarAt(k) + 3), InStep(k, s, n)
      PROVE  Mode'
  <2>1. q > 0 /\ pos = q /\ q \in 1..(StarAt(j) + 2)
    BY <1>2, <1>3, <1>6 DEF Here
  <2>2. CASE gap
    <3>1. cuts = 1
      BY <1>6, <2>2 DEF FeedTypes
    <3> QED BY <1>1, <1>6, <2>1, <2>2, <3>1, GapGoes
  <2>3. CASE ~gap
    <3>1. Here(k, s, n) /\ Heard(k, s, n, 0)
      BY <1>6, <2>1, <2>3 DEF InStep
    <3>2. Heard(j, t, q, 0)
      BY <1>2, <3>1 DEF Here
    <3>3. Heard(j, t, q + 1, 0)'
      BY <1>2, <1>4, <1>11, <2>1, <3>2, HeardOn
    <3> QED BY <1>1, <3>3, InStepGoes
  <2> QED BY <2>2, <2>3
<1>7. ASSUME q # 0, NEW d \in {2, 4, 6}, Shifted(d)
      PROVE  Mode'
  <2>1. ~whole /\ cuts = 1 /\ q > 0 /\ q \in 1..(StarAt(j) + 2)
    BY <1>2, <1>3, <1>7 DEF Shifted, Late
  <2>2. Skipped(j, q, d) /\ Heard(j, t, q, d)
    BY <1>2, <1>7 DEF Shifted, Here
  <2>3. d \in {0, 2, 4, 6}
    OBVIOUS
  <2>4. Heard(j, t, q + 1, d)'
    BY <1>2, <1>4, <1>11, <2>1, <2>2, <2>3, HeardOn
  <2>5. Skipped(j, q + 1, d)
    BY <2>1, <2>2, SkippedOn
  <2> QED BY <1>1, <2>1, <2>4, <2>5, ShiftedGoes
<1>8. ASSUME q # 0, NEW x, Spoiled(x)
      PROVE  Mode'
  <2>1. ~whole /\ cuts = 1 /\ q > 0 /\ Broken(x, j, t, q)
    BY <1>2, <1>8 DEF Spoiled, Late, Here
  <2>2. CASE q >= StarAt(j) /\ (~isChecksumTerm \/ q > StarAt(j))
    BY <1>1, <2>1, <2>2, OverGoes
  <2>3. CASE q \in 1..StarAt(j) /\ (q = StarAt(j) => isChecksumTerm)
    BY <1>1, <2>1, <2>3, SpoiledGoes
  <2> QED BY <1>2, <1>3, <2>1, <2>2, <2>3
<1>13. ASSUME q # 0, NEW x, Ragged(x)
       PROVE  Mode'
  BY <1>1, <1>13, RaggedGoes
<1>9. ASSUME q # 0, Over
      PROVE  Mode'
  <2>1. ~whole /\ cuts = 1 /\ q > StarAt(j)
    BY <1>2, <1>9 DEF Over, Late, Here
  <2>2. q >= StarAt(j)
    BY <1>3, <2>1
  <2> QED BY <1>1, <2>1, <2>2, OverGoes
<1>10. ASSUME q # 0
       PROVE  ~Dollared
  BY <1>2, <1>10 DEF Dollared, Here
<1>14. CASE q # 0 /\ cuts # 2
  BY <1>2, <1>6, <1>7, <1>8, <1>9, <1>10, <1>13, <1>14 DEF Mode
<1> QED BY <1>2, <1>5, <1>12, <1>14

\* And where there was one gap at most, what a sum commits is the sentence whose sum it is.
LEMMA ReceiveTells ==
    ASSUME FeedTypes, ParserTypes, Mode, Receive, cuts # 2
    PROVE  Told(Char)
<1>1. PICK j \in AllKinds, t \in Nat, q \in Nat : Takes(j, t, q)
  BY Received
<1>2. Here(j, t, q) /\ q \in 0..(StarAt(j) + 2) /\ Char = Line(j, t)[q + 1]
  BY <1>1 DEF Takes, At
<1>3. StarAt(j) \in 5..21 /\ Line(j, t)[1] = Dollar
  BY LineEnds
<1>4. Members
  BY DEF ParserTypes
<1>5. PICK c, luck : c = Line(j, t)[q + 1] /\ Encode(c, luck)
  BY <1>1 DEF Takes
<1>6. ~(isChecksumTerm /\ c \in Terminators /\ Passes(parity', FALSE)) => Told(c)
  BY DEF Told
<1>13. (isChecksumTerm => IsNoSum(term)) => Told(c)
  BY <1>6 DEF IsNoSum, Passes
<1>7. ASSUME NEW k \in AllKinds, NEW s \in Nat, NEW n \in 1..(StarAt(k) + 3), InStep(k, s, n)
      PROVE  Told(c)
  BY <1>4, <1>5, <1>7, HeardTells DEF InStep
<1>8. ASSUME NEW d \in {2, 4, 6}, Shifted(d)
      PROVE  Told(c)
  <2>1. Heard(j, t, q, d) /\ pos = q /\ pos > 0
    BY <1>2, <1>8 DEF Shifted, Here, Late
  <2>2. q \in 1..(StarAt(j) + 3)
    BY <1>2, <1>3, <2>1
  <2> QED BY <1>4, <1>5, <2>1, <2>2, HeardTells
<1>9. ASSUME NEW x, Spoiled(x)
      PROVE  Told(c)
  <2>1. Broken(x, j, t, q) /\ OwnSum(j, t, q) /\ pos = q /\ pos > 0
    BY <1>2, <1>9 DEF Spoiled, Here, Late
  <2>2. q \in 1..(StarAt(j) + 2)
    BY <1>2, <1>3, <2>1
  <2>3. ASSUME isChecksumTerm, c \in Terminators, Passes(parity', FALSE)
        PROVE  FALSE
    <3>1. CASE c # Comma
      BY <1>5, <2>1, <2>2, <2>3, <3>1, BrokenFails
    <3>2. CASE c = Comma
      <4>1. ~(q > StarAt(j))
        BY <1>5, <2>2, <3>2, NextChar
      <4>2. IsNoSum(term)
        BY <1>3, <2>1, <2>2, <2>3, <4>1 DEF OwnSum
      <4> QED BY <2>3, <4>2 DEF IsNoSum, Passes
    <3> QED BY <3>1, <3>2
  <2> QED BY <1>6, <2>3
<1>10. Over => Told(c)
  BY <1>13 DEF Over
<1>14. ASSUME NEW x, Ragged(x)
       PROVE  Told(c)
  BY <1>13, <1>14 DEF Ragged
<1>11. Dollared => Told(c)
  <2>1. Dollared => c \notin Terminators
    <3>1. Dollar \notin Terminators
      BY DEF Dollar, Terminators, Comma, Star
    <3>2. Dollared => q = 0
      BY <1>2 DEF Dollared, Here
    <3> QED BY <1>3, <1>5, <3>1, <3>2
  <2> QED BY <1>6, <2>1
<1>12. Told(c)
  BY <1>7, <1>8, <1>9, <1>10, <1>11, <1>14 DEF Mode
<1> QED BY <1>2, <1>5, <1>12

\* What is in the parity for good stays for good.
LEMMA GoneOn ==
    ASSUME FeedTypes, NEW x, Gone(x), x \in parity',
           NEW j \in AllKinds, NEW t \in Nat, NEW q \in Nat, At(j, t, q), Goes(j, t, q)
    PROVE  Gone(x)'
<1>1. StarAt(j) \in 5..21 /\ q \in 0..(StarAt(j) + 2) /\ kind = j /\ id = t /\ pos = q
  BY LineEnds DEF At, Here
<1>2. x # Comma
  BY DEF Gone
<1>3. (id' = t /\ kind' = j /\ pos' = q + 1) \/ id' = t + 1
  BY <1>1 DEF Goes, Here
<1>4. id' \in Nat /\ pos' \in Nat
  BY <1>1, <1>3 DEF Goes, Here
<1>5. ASSUME NEW k \in AllKinds, NEW s \in Nat, s > id' \/ (s = id' /\ k = kind' /\ pos' <= StarAt(k))
      PROVE  \A i \in Between(k) : Line(k, s)[i] # x
  <2>1. StarAt(k) \in 5..21
    BY LineEnds
  <2>2. s > id \/ (s = id /\ k = kind /\ pos <= StarAt(k))
    BY <1>1, <1>3, <1>4, <1>5, <2>1
  <2> QED BY <2>2 DEF Gone
<1>6. ASSUME NEW s \in Nat, NEW p \in Nat, s > id' \/ (s = id' /\ p >= pos')
      PROVE  x # <<"part", <<s, p>> >>
  <2>1. s > id \/ (s = id /\ p >= pos)
    BY <1>1, <1>3, <1>4, <1>6
  <2> QED BY <2>1 DEF Gone
<1> QED BY <1>2, <1>5, <1>6 DEF Gone

\* Where a gap began in a sentence with no other, it goes on as the first since the $.
LEMMA OneGap ==
    ASSUME FeedTypes, Mode, NEW j \in AllKinds, NEW t \in Nat, NEW q \in Nat, Slips(j, t, q)
    PROVE  \/ cuts' = 2
           \/ cuts' = 1 /\ \E k \in AllKinds, s \in Nat : \E n \in 1..(StarAt(k) + 3) : InStep(k, s, n)
           \/ cuts' = 1 /\ \E x : Ragged(x)
<1>1. cuts' = (IF gap THEN cuts ELSE IF cuts = 0 THEN 1 ELSE 2) /\ cuts \in 0..2 /\ (gap => cuts # 0)
  BY DEF Slips, FeedTypes
<1>2. CASE ~gap /\ cuts # 0
  BY <1>1, <1>2
<1>3. CASE cuts = 2
  BY <1>1, <1>3
<1>4. CASE gap /\ cuts = 1
  BY <1>1, <1>4 DEF Mode, Shifted, Spoiled, Over, Late, Dollared
<1>5. CASE ~gap /\ cuts = 0
  BY <1>1, <1>5 DEF Mode, Shifted, Spoiled, Ragged, Over, Late, Dollared
<1> QED BY <1>1, <1>2, <1>3, <1>4, <1>5

\* What is lost leaves the parser where it was.
LEMMA LoseGoes ==
    ASSUME FeedTypes, ParserTypes, Mode, Lose
    PROVE  Mode' /\ FeedTypes' /\ ParserTypes'
<1>1. /\ gap' = TRUE /\ Gap
      /\ UNCHANGED <<parity, isChecksumTerm, term, curSentenceType, curTermNumber, sentenceHasFix,
                     staged, committed, valid>>
  BY DEF Lose, parser
<1>2. PICK j \in AllKinds, t \in Nat, q \in Nat : Slips(j, t, q)
  BY <1>1, Slipped
<1>3. /\ At(j, t, q) /\ Goes(j, t, q) /\ FeedTypes' /\ sumOf' = sumOf
      /\ kind = j /\ id = t /\ pos = q /\ q \in 0..(StarAt(j) + 2) /\ StarAt(j) \in 5..21
  BY <1>2, LineEnds DEF Slips, At, Here
<1>4. ParserTypes'
  BY <1>1 DEF ParserTypes, Members
<1>5. (id' = t /\ kind' = j /\ pos' = q + 1 /\ ~whole') \/ (id' = t + 1 /\ pos' = 0)
  BY <1>2, <1>3 DEF Slips, Goes, Here
<1>6. ASSUME NEW k \in AllKinds, NEW s \in Nat, NEW n \in 1..(StarAt(k) + 3), InStep(k, s, n)
      PROVE  Mode'
  <2>1. Heard(k, s, n, 0)'
    BY <1>1, <1>3, <1>6 DEF InStep, Heard, Understood
  <2>2. id' > s \/ (id' = s /\ kind' = k /\ pos' > n)
    <3>1. t > s \/ (t = s /\ j = k /\ (q = n \/ q > n))
      BY <1>3, <1>6 DEF InStep, Here
    <3>2. n \in Nat
      <4>1. StarAt(k) \in 5..21
        BY LineEnds
      <4> QED BY <4>1
    <3> QED BY <1>5, <3>1, <3>2
  <2>3. gap' /\ (pos' > 0 => ~whole')
    BY <1>1, <1>5
  <2>4. InStep(k, s, n)'
    BY <2>1, <2>2, <2>3 DEF InStep
  <2> QED BY <2>4 DEF Mode
<1>7. ASSUME cuts' = 1, NEW x, Ragged(x)
      PROVE  Mode'
  <2>1. Gone(x)'
    BY <1>1, <1>3, <1>7, GoneOn DEF Ragged, Gone
  <2>2. isChecksumTerm' => IsNoSum(term')
    BY <1>1, <1>7 DEF Ragged
  <2>3. Ragged(x)'
    BY <1>1, <1>7, <2>1, <2>2 DEF Ragged
  <2> QED BY <2>3 DEF Mode
<1>8. CASE cuts' = 2
  BY <1>3, <1>4, <1>8 DEF Mode
<1>9. Mode'
  BY <1>2, <1>6, <1>7, <1>8, OneGap
<1> QED BY <1>3, <1>4, <1>9

\* Where the parity is wrong for good, a text that is cut leaves no checksum to pass.
LEMMA CutSpoils ==
    ASSUME NEW j \in AllKinds, NEW t \in Nat, NEW q \in 1..StarAt(j), Slips(j, t, q), cuts' = 1,
           gap' \in BOOLEAN, IsNoSum(term'), NEW x, Gone(x)'
    PROVE  Mode'
<1>1. StarAt(j) \in 5..21
  BY LineEnds
<1>2. Here(j, t, q + 1)' /\ ~whole'
  BY <1>1 DEF Slips, Goes
<1>3. kind' = j /\ id' = t /\ pos' = q + 1
  BY <1>2 DEF Here
<1>4. CASE gap'
  <2>1. Ragged(x)'
    BY <1>4 DEF Ragged
  <2> QED BY <2>1 DEF Mode
<1>5. CASE ~gap'
  <2>1. Late'
    BY <1>1, <1>2, <1>3, <1>5 DEF Late
  <2>2. CASE q = StarAt(j)
    <3>1. pos' > StarAt(kind')
      BY <1>1, <1>3, <2>2
    <3>2. Over'
      BY <2>1, <3>1 DEF Over
    <3> QED BY <3>2 DEF Mode
  <2>3. CASE q < StarAt(j)
    <3>1. x \in parity' /\ x # Comma /\ \A i \in Between(j) : Line(j, t)[i] # x
      <4>1. pos' <= StarAt(j)
        BY <1>1, <1>3, <2>3
      <4> QED BY <1>3, <4>1 DEF Gone
    <3>2. x \notin ParityUpTo(j, t, q + 1)
      BY <3>1 DEF ParityUpTo, TextsUpTo, TextsOf
    <3>3. Broken(x, j, t, q + 1)'
      BY <3>1, <3>2 DEF Broken
    <3>4. OwnSum(j, t, q + 1)'
      BY DEF OwnSum
    <3>5. q + 1 \in Nat
      BY <1>1
    <3>6. Spoiled(x)'
      BY <1>2, <2>1, <3>3, <3>4, <3>5 DEF Spoiled
    <3> QED BY <3>6 DEF Mode
  <2> QED BY <1>1, <2>2, <2>3
<1> QED BY <1>4, <1>5

\* A text that is cut is in the parity for good, or the fourth character of the sentence is.
LEMMA CutGoes ==
    ASSUME FeedTypes, ParserTypes, Mode, Cut
    PROVE  Mode' /\ FeedTypes' /\ ParserTypes'
<1>1. Gap /\ gap' \in BOOLEAN /\ EncodeText(Part) /\ Char \notin Terminators /\ Char # Dollar
  BY DEF Cut
<1>2. PICK j \in AllKinds, t \in Nat, q \in Nat : Slips(j, t, q)
  BY <1>1, Slipped
<1>3. /\ At(j, t, q) /\ Goes(j, t, q) /\ FeedTypes' /\ Char = Line(j, t)[q + 1]
      /\ kind = j /\ id = t /\ pos = q /\ q \in 0..(StarAt(j) + 2)
  BY <1>2 DEF Slips, At, Here
<1>4. StarAt(j) \in 5..21 /\ Line(j, t)[1] = Dollar
  BY LineEnds
<1>5. q \in 1..StarAt(j)
  <2>1. q # 0
    BY <1>1, <1>3, <1>4
  <2>2. q \in 1..(StarAt(j) + 2)
    BY <1>3, <1>4, <2>1
  <2>3. ~(q > StarAt(j))
    BY <1>1, <1>3, <2>2, NextChar
  <2> QED BY <1>4, <2>2, <2>3
<1>6. PICK y : y = <<"part", <<t, q>> >>
  OBVIOUS
<1>7. /\ term' = Append(term, y) /\ isChecksumTerm' = isChecksumTerm
      /\ parity' = IF isChecksumTerm THEN parity ELSE Xor(parity, y)
  BY <1>1, <1>3, <1>6 DEF EncodeText, Part
<1>8. ParserTypes'
  <2>1. PICK c : c = Part
    OBVIOUS
  <2>2. Encode(c, TRUE)
    BY <1>1, <2>1 DEF Encode
  <2> QED BY <2>2, ParserStays
<1>9. IsNoSum(term')
  <2>1. PICK S : term \in Seq(S)
    BY DEF ParserTypes
  <2>2. term'[Len(term) + 1] = y /\ Len(term') = Len(term) + 1 /\ Len(term) \in Nat
    BY <1>7, <2>1
  <2>3. ASSUME NEW sum, term' = << <<"sum", sum>> >>
        PROVE  FALSE
    <3>1. Len(term') = 1 /\ term'[1] = <<"sum", sum>>
      BY <2>3
    <3>2. y = <<"sum", sum>>
      BY <2>2, <3>1
    <3> QED BY <1>6, <3>2
  <2> QED BY <2>3 DEF IsNoSum
<1>10. y # Comma /\ \A k \in AllKinds, s \in Nat : \A i \in Between(k) : Line(k, s)[i] # y
  <2>1. y # Comma
    BY <1>6 DEF Comma
  <2>2. ASSUME NEW k \in AllKinds, NEW s \in Nat, NEW i \in Between(k)
        PROVE  Line(k, s)[i] # y
    <3>1. CASE i \in TextsOf(k)
      BY <1>6, <3>1, LineChars DEF IsText
    <3>2. CASE i \in CommasOf(k)
      BY <2>1, <3>2, LineChars
    <3> QED BY <3>1, <3>2 DEF TextsOf
  <2> QED BY <2>1, <2>2
<1>11. id' = t /\ kind' = j /\ pos' = q + 1
  BY <1>3, <1>4, <1>5 DEF Goes, Here
<1>12. ASSUME cuts' = 1, NEW x, Gone(x)'
       PROVE  Mode'
  BY <1>1, <1>2, <1>5, <1>9, <1>12, CutSpoils
<1>13. ASSUME cuts' = 1, NEW k \in AllKinds, NEW s \in Nat, NEW n \in 1..(StarAt(k) + 3), InStep(k, s, n)
       PROVE  Mode'
  <2>1. Heard(k, s, n, 0) /\ StarAt(k) \in 5..21
    BY <1>13, LineEnds DEF InStep
  <2>2. parity = ParityUpTo(k, s, n)
    BY <2>1 DEF Heard
  <2>3. CASE ~isChecksumTerm
    <3>1. y \notin parity
      BY <1>10, <2>2 DEF ParityUpTo, TextsUpTo, TextsOf
    <3>2. y \in parity'
      BY <1>7, <2>3, <3>1 DEF Xor
    <3>3. ASSUME NEW v \in Nat, NEW p \in Nat, v > id' \/ (v = id' /\ p >= pos')
          PROVE  y # <<"part", <<v, p>> >>
      BY <1>6, <1>11, <3>3
    <3>4. Gone(y)'
      BY <1>10, <3>2, <3>3 DEF Gone
    <3> QED BY <1>12, <1>13, <3>4
  <2>4. CASE isChecksumTerm
    <3>1. n \in {StarAt(k), StarAt(k) + 1} /\ n \in Nat /\ n >= 4
      <4>1. n \in {StarAt(k), StarAt(k) + 1}
        BY <2>1, <2>4 DEF Heard
      <4> QED BY <2>1, <4>1
    <3>2. t > s \/ (t = s /\ q = StarAt(j))
      <4>1. t > s \/ (t = s /\ j = k /\ q >= n)
        BY <1>3, <1>5, <1>13, <3>1 DEF InStep, Here
      <4> QED BY <1>4, <1>5, <3>1, <4>1
    <3>3. PICK x : x = Line(k, s)[4]
      OBVIOUS
    <3>4. x \in parity'
      BY <1>7, <2>2, <2>4, <3>1, <3>3, FourthTells
    <3>5. IsText(x) /\ x # Comma
      <4>1. ~IsText(Comma)
        BY DEF IsText, Terminators
      <4> QED BY <3>3, <4>1, LineChars
    <3>6. \A p : x # <<"part", p>>
      BY <3>5 DEF IsText
    <3>7. ASSUME NEW m \in AllKinds, NEW v \in Nat, v > id' \/ (v = id' /\ m = kind' /\ pos' <= StarAt(m))
          PROVE  \A i \in Between(m) : Line(m, v)[i] # x
      <4>1. v # s
        BY <1>4, <1>11, <3>2, <3>7
      <4> QED BY <3>1, <3>3, <4>1, FourthTells
    <3>8. Gone(x)'
      BY <3>4, <3>5, <3>6, <3>7 DEF Gone
    <3> QED BY <1>12, <1>13, <3>8
  <2> QED BY <2>3, <2>4
<1>14. ASSUME cuts' = 1, NEW x, Ragged(x)
       PROVE  Mode'
  <2>1. Gone(x)
    BY <1>14 DEF Ragged
  <2>2. x # y /\ x \in parity
    BY <1>3, <1>6, <2>1 DEF Gone
  <2>3. x \in parity'
    BY <1>7, <2>2 DEF Xor
  <2>4. Gone(x)'
    BY <1>3, <2>1, <2>3, GoneOn
  <2> QED BY <1>12, <1>14, <2>4
<1>15. CASE cuts' = 2
  BY <1>3, <1>8, <1>15 DEF Mode
<1>16. Mode'
  BY <1>2, <1>13, <1>14, <1>15, OneGap
<1> QED BY <1>3, <1>8, <1>16

-----------------------------------------------------------------------------

\* The position is that of one sentence, and stays so, if no checksum matches by luck and
\* there is no second gap.
LEMMA LocationKept ==
    ASSUME FeedInv, Receive
    PROVE  LocationIsOneFix' /\ (Unmoved \/ doubtful' \/ Moved(sumOf))
<1>1. PICK luck \in BOOLEAN : /\ Encode(Char, luck)
                              /\ doubtful' = IF EndsLocation(luck)
                                             THEN cuts = 2 \/ ~Passes(parity', FALSE) ELSE doubtful
  BY DEF Receive
<1>2. passed' = IF isChecksumTerm /\ Char \in Terminators /\ Passes(parity', FALSE) THEN passed \cup {sumOf} ELSE passed
  BY DEF Receive
<1>3. CASE ~EndsLocation(luck)
  <2>1. doubtful' = doubtful
    BY <1>1, <1>3, Zenon
  <2>2. Unmoved
    <3>1. PICK c : c = Char
      OBVIOUS
    <3> QED BY <1>1, <1>3, <3>1, OnlySumsMove DEF EndsLocation, FeedInv, ParserTypes
  <2>3. Position' = Position /\ valid' \cap Location = valid \cap Location /\ passed \subseteq passed'
    BY <1>2, <2>2 DEF Unmoved
  <2>4. SUFFICES ASSUME Location \cap valid' # {}, ~doubtful'
                 PROVE  Location \subseteq valid' /\ \E s \in passed' : Position' = Fix(s)
    BY <2>2 DEF LocationIsOneFix, Fix
  <2>5. Location \cap valid # {} /\ ~doubtful
    <3>1. Location \cap valid # {}
      BY <2>3, <2>4
    <3>2. ~doubtful
      BY <2>1, <2>4, Zenon
    <3> QED BY <3>1, <3>2
  <2>6. Location \subseteq valid /\ \E s \in passed : Position = Fix(s)
    BY <2>5 DEF FeedInv, LocationIsOneFix
  <2> QED BY <2>3, <2>6
<1>4. CASE EndsLocation(luck) /\ doubtful'
  BY <1>4 DEF LocationIsOneFix
<1>5. CASE EndsLocation(luck) /\ ~doubtful'
  <2>1. ~(cuts = 2 \/ ~Passes(parity', FALSE))
    <3>1. doubtful' = (cuts = 2 \/ ~Passes(parity', FALSE))
      BY <1>1, <1>5, Zenon
    <3> QED BY <1>5, <3>1, Zenon
  <2>2. Told(Char)
    BY <2>1, ReceiveTells DEF FeedInv
  <2>3. Moved(sumOf) /\ sumOf \in passed'
    BY <1>2, <1>5, <2>1, <2>2 DEF Told, EndsLocation
  <2>4. Position' = Fix(sumOf) /\ Location \subseteq valid'
    BY <2>3 DEF Moved
  <2> QED BY <2>3, <2>4 DEF LocationIsOneFix, Fix
<1> QED BY <1>3, <1>4, <1>5

\* Before the first $ the parser is as after one.
LEMMA FeedStarts ==
    ASSUME FeedInit
    PROVE  FeedInv
<1>1. Kinds \subseteq AllKinds /\ MaxSentences \in Nat
  BY FeedAssumption DEF AllKinds
<1>2. PICK k \in AllKinds : k = kind
  BY <1>1 DEF FeedInit
<1>3. StarAt(k) \in 5..21
  BY LineEnds
<1>4. /\ parity = {} /\ isChecksumTerm = FALSE /\ term = <<>> /\ curSentenceType = "OTHER"
      /\ curTermNumber = 0 /\ sentenceHasFix = FALSE
      /\ staged = [f \in Fields |-> <<>>] /\ committed = [f \in Fields |-> <<>>] /\ valid = {}
      /\ id = 1 /\ kind \in Kinds /\ pos = 0 /\ gap = FALSE /\ cuts = 0 /\ whole = TRUE
  BY DEF FeedInit, ParserInit
<1>5. FeedTypes
  <2>1. whole \in BOOLEAN /\ gap \in BOOLEAN
    BY <1>4, Zenon
  <2>2. pos \in 0..(StarAt(kind) + 2)
    BY <1>2, <1>3, <1>4
  <2>3. cuts \in 0..2 /\ (pos = 0 => whole) /\ (~whole \/ gap => cuts # 0) /\ (whole /\ pos > 0 => ~gap /\ cuts = 0)
    BY <1>4
  <2> QED BY <1>1, <1>4, <2>1, <2>2, <2>3 DEF FeedTypes
<1>6. ParserTypes
  <2>1. isChecksumTerm \in BOOLEAN
    BY <1>4, Zenon
  <2>2. \E S : term \in Seq(S)
    <3>1. <<>> \in Seq({})
      OBVIOUS
    <3> QED BY <1>4, <3>1
  <2>3. Members
    BY <1>4 DEF Members
  <2>4. curTermNumber \in 0..255
    BY <1>4
  <2> QED BY <2>1, <2>2, <2>3, <2>4 DEF ParserTypes
<1>7. LocationIsOneFix
  BY <1>4 DEF LocationIsOneFix
<1>8. Heard(k, 0, 1, 0)
  <2>1. ParityUpTo(k, 0, 1) = {} /\ CommasUpTo(k, 1) = 0
    BY FirstThree
  <2>2. 1 \notin TextsOf(k) \cup {StarAt(k) + 1} /\ 1 \notin {StarAt(k), StarAt(k) + 1} /\ 1 # StarAt(k) + 1
    BY <1>3 DEF TextsOf, Between
  <2>3. ~(1 >= FixAt(k)) /\ \A f \in Location : ~(1 > PlaceOf(k, f))
    BY DEF FixAt, PlaceOf, Location
  <2>4. sentenceHasFix = (HasFix(k) /\ 1 >= FixAt(k))
    BY <1>4, <2>3, Zenon
  <2>5. curSentenceType = IF 1 <= 2 THEN "OTHER" ELSE TypeOf(k)
    BY <1>4
  <2>6. Understood(k, 0, 1)
    BY <2>3, <2>4, <2>5, Zenon DEF Understood
  <2>7. term = TermAt(k, 0, 1) /\ parity = ParityUpTo(k, 0, 1) /\ curTermNumber = CommasUpTo(k, 1) - 0
    BY <1>4, <2>1, <2>2 DEF TermAt
  <2>8. ~isChecksumTerm
    BY <1>4
  <2> QED BY <2>2, <2>6, <2>7, <2>8 DEF Heard
<1>9. Mode
  <2>1. InStep(k, 0, 1)
    BY <1>4, <1>8 DEF InStep
  <2>2. 1 \in 1..(StarAt(k) + 3) /\ 0 \in Nat
    BY <1>3
  <2> QED BY <2>1, <2>2 DEF Mode
<1> QED BY <1>5, <1>6, <1>7, <1>9 DEF FeedInv

\* The invariant is inductive, and every step leaves the position, or is in doubt, or
\* moves it to the sentence whose checksum was received last.
LEMMA FeedSteps ==
    ASSUME FeedInv, [FeedNext]_feedVars
    PROVE  FeedInv' /\ (Unmoved \/ doubtful' \/ Moved(sumOf))
<1>1. CASE Receive
  <2>1. Mode' /\ FeedTypes'
    BY <1>1, ReceiveGoes DEF FeedInv
  <2>2. ParserTypes'
    <3>1. PICK c, luck : c = Char /\ Encode(c, luck)
      BY <1>1 DEF Receive
    <3> QED BY <3>1, ParserStays DEF FeedInv
  <2>3. LocationIsOneFix' /\ (Unmoved \/ doubtful' \/ Moved(sumOf))
    BY <1>1, LocationKept
  <2> QED BY <2>1, <2>2, <2>3 DEF FeedInv
<1>2. CASE Lose \/ Cut
  <2>1. Mode' /\ FeedTypes' /\ ParserTypes'
    BY <1>2, LoseGoes, CutGoes DEF FeedInv
  <2>2. UNCHANGED <<committed, valid, passed, doubtful>>
    BY <1>2 DEF Lose, Cut, Gap, EncodeText, parser
  <2>3. LocationIsOneFix' /\ Unmoved
    BY <2>2 DEF FeedInv, LocationIsOneFix, Position, Unmoved
  <2> QED BY <2>1, <2>3 DEF FeedInv
<1>3. CASE UNCHANGED feedVars
  <2>1. UNCHANGED <<parity, isChecksumTerm, term, curSentenceType, curTermNumber, sentenceHasFix, staged,
                    committed, valid, id, kind, pos, gap, gaps, through, whole, cuts, sumOf, passed, doubtful>>
    BY <1>3 DEF feedVars, feed, parser
  <2>2. FeedTypes' /\ ParserTypes'
    BY <2>1 DEF FeedInv, FeedTypes, ParserTypes, Members
  <2>3. LocationIsOneFix' /\ Unmoved
    BY <2>1 DEF FeedInv, LocationIsOneFix, Position, Unmoved
  <2>4. Mode'
    <3>1. ASSUME NEW k, NEW s, NEW n, NEW d, Heard(k, s, n, d)
          PROVE  Heard(k, s, n, d)'
      BY <2>1, <3>1 DEF Heard, Understood
    <3>2. ASSUME NEW k, NEW s, NEW n, InStep(k, s, n)
          PROVE  InStep(k, s, n)'
      <4>1. Heard(k, s, n, 0)'
        BY <3>1, <3>2 DEF InStep
      <4> QED BY <2>1, <3>2, <4>1 DEF InStep, Here
    <3>3. Late => Late'
      BY <2>1 DEF Late
    <3>4. ASSUME NEW d, Shifted(d)
          PROVE  Shifted(d)'
      <4>1. PICK k \in AllKinds, s \in Nat, n \in Nat : Here(k, s, n) /\ Skipped(k, n, d) /\ Heard(k, s, n, d)
        BY <3>4 DEF Shifted
      <4>2. Here(k, s, n)' /\ Heard(k, s, n, d)'
        BY <2>1, <3>1, <4>1 DEF Here
      <4> QED BY <3>3, <3>4, <4>1, <4>2 DEF Shifted
    <3>5. ASSUME NEW x, Spoiled(x)
          PROVE  Spoiled(x)'
      <4>1. PICK k \in AllKinds, s \in Nat, n \in Nat : Here(k, s, n) /\ Broken(x, k, s, n) /\ OwnSum(k, s, n)
        BY <3>5 DEF Spoiled
      <4>2. Here(k, s, n)'
        BY <2>1, <4>1 DEF Here
      <4>3. Broken(x, k, s, n)'
        BY <2>1, <4>1 DEF Broken
      <4>4. OwnSum(k, s, n)'
        BY <2>1, <4>1 DEF OwnSum
      <4> QED BY <3>3, <3>5, <4>2, <4>3, <4>4 DEF Spoiled
    <3>6. (Over => Over') /\ (Dollared => Dollared')
      BY <2>1 DEF Over, Dollared, Late
    <3>7. ASSUME NEW x, Ragged(x)
          PROVE  Ragged(x)'
      BY <2>1, <3>7 DEF Ragged, Gone
    <3>8. cuts = 2 => cuts' = 2
      BY <2>1
    <3> QED BY <3>2, <3>4, <3>5, <3>6, <3>7, <3>8 DEF Mode, FeedInv
  <2> QED BY <2>2, <2>3, <2>4 DEF FeedInv
<1> QED BY <1>1, <1>2, <1>3 DEF FeedNext

\* Nothing of a whole sentence is missing: at the end of its checksum it is committed.
LEMMA WholeIsHeard ==
    ASSUME FeedInv, [FeedNext]_feedVars, whole, HasFix(kind), Char = <<"CR", 0>>, pos' = pos + 1, ~gap'
    PROVE  Position' = Fix(id) /\ ~doubtful'
<1>1. Receive /\ pos \in Nat
  <2>1. pos \in Nat
    <3>1. PICK k \in AllKinds : k = kind /\ pos \in 0..(StarAt(k) + 2)
      BY FeedAssumption DEF FeedInv, FeedTypes, AllKinds
    <3>2. StarAt(k) \in 5..21
      BY LineEnds
    <3> QED BY <3>1, <3>2
  <2>2. ~Lose
    <3>1. Lose => gap' = TRUE
      BY DEF Lose
    <3> QED BY <3>1
  <2>3. ~Cut
    BY DEF Cut, Terminators
  <2>4. ~UNCHANGED feedVars
    <3>1. UNCHANGED feedVars => pos' = pos
      BY DEF feedVars, feed
    <3> QED BY <2>1, <3>1
  <2> QED BY <2>1, <2>2, <2>3, <2>4 DEF FeedNext
<1>2. PICK j \in AllKinds, t \in Nat, q \in Nat : Takes(j, t, q)
  BY <1>1, Received DEF FeedInv
<1>3. kind = j /\ id = t /\ pos = q /\ q \in 0..(StarAt(j) + 2) /\ Char = Line(j, t)[q + 1]
  BY <1>2 DEF Takes, At, Here
<1>4. StarAt(j) \in 5..21 /\ Line(j, t)[1] = Dollar
  BY LineEnds
<1>5. q = StarAt(j) + 1
  <2>1. q # 0
    <3>1. Dollar # <<"CR", 0>>
      BY DEF Dollar
    <3> QED BY <1>3, <1>4, <3>1
  <2>2. q \in 1..(StarAt(j) + 2)
    BY <1>3, <1>4, <2>1
  <2> QED BY <1>3, <2>2, NextChar
<1>6. pos > 0
  BY <1>3, <1>4, <1>5
<1>7. ~gap /\ cuts = 0
  BY <1>6 DEF FeedInv, FeedTypes
<1>8. PICK k \in AllKinds, s \in Nat : \E m \in 1..(StarAt(k) + 3) : InStep(k, s, m)
  BY <1>7 DEF FeedInv, Mode, Shifted, Spoiled, Ragged, Over, Late, Dollared
<1>9. PICK n \in 1..(StarAt(k) + 3) : InStep(k, s, n)
  BY <1>8
<1>10. Heard(j, t, q, 0)
  BY <1>3, <1>6, <1>7, <1>9 DEF InStep, Here
<1>11. PICK c : c = Char /\ c \in Terminators /\ c # Comma
  <2>1. <<"CR", 0>> \in Terminators /\ <<"CR", 0>> # Comma
    BY DEF Terminators, Comma
  <2> QED BY <2>1
<1>12. PICK luck \in BOOLEAN : /\ Encode(c, luck)
                               /\ doubtful' = IF EndsLocation(luck)
                                              THEN cuts = 2 \/ ~Passes(parity', FALSE) ELSE doubtful
  BY <1>1, <1>11 DEF Receive
<1>13. isChecksumTerm /\ Passes(parity', FALSE) /\ Location \subseteq Commits /\ Moved(t)
  <2>1. Heard(j, t, StarAt(j) + 1, 0) /\ Members /\ HasFix(j)
    BY <1>3, <1>5, <1>10 DEF FeedInv, ParserTypes
  <2> QED BY <1>11, <1>12, <2>1, SumHeard
<1>14. ~doubtful'
  <2>1. EndsLocation(luck)
    BY <1>11, <1>13 DEF EndsLocation, Passes
  <2>2. doubtful' = (cuts = 2 \/ ~Passes(parity', FALSE))
    BY <1>12, <2>1, Zenon
  <2>3. cuts # 2
    BY <1>7
  <2> QED BY <1>13, <2>2, <2>3, Zenon
<1> QED BY <1>3, <1>13, <1>14 DEF Moved

\* The invariant holds, whatever is lost, and whatever matches by luck.
THEOREM FeedInvariant == FeedSpec => []FeedInv
<1>1. FeedInit => FeedInv
  BY FeedStarts
<1>2. FeedInv /\ [FeedNext]_feedVars => FeedInv'
  BY FeedSteps
<1> QED BY <1>1, <1>2, PTL DEF FeedSpec

\* The location that a sketch reads was reported in one sentence whose own sum passed, if
\* it was not committed by luck or with two gaps since the $ (LocationIsOneFix of
\* GpsFeed), for any number of sentences and gaps, however close, in either sketch.
THEOREM PositionsAreNotMixed == FeedSpec => []LocationIsOneFix
<1>1. FeedInv => LocationIsOneFix
  BY DEF FeedInv
<1> QED BY <1>1, FeedInvariant, PTL

\* It only moves to the sentence whose checksum was received last, under the same
\* conditions (LocationFollowsTheReceiver of GpsFeed).
THEOREM PositionsAreCurrent == FeedSpec => LocationFollowsTheReceiver
<1>1. FeedInv /\ [FeedNext]_feedVars => [Position' # Position /\ ~doubtful' => Position' = Fix(sumOf)]_feedVars
  BY FeedSteps DEF Unmoved, Moved
<1> QED BY <1>1, FeedInvariant, PTL DEF FeedSpec, LocationFollowsTheReceiver

\* A sentence with a fix that comes through whole is committed, whatever was lost or
\* matched before (WholeFixesAreCommitted of GpsFeed).
THEOREM FixesAreCommitted == FeedSpec => WholeFixesAreCommitted
<1>1. FeedInv /\ [FeedNext]_feedVars
      => [whole /\ HasFix(kind) /\ Char = <<"CR", 0>> /\ pos' = pos + 1 /\ ~gap'
             => Position' = Fix(id) /\ ~doubtful']_feedVars
  BY WholeIsHeard
<1> QED BY <1>1, FeedInvariant, PTL DEF FeedSpec, WholeFixesAreCommitted

\* What was read since the last gap, if there was one since the $ the parser has.
Spaced ==
    /\ through \in 0..Buffer /\ cuts # 2
    /\ gap => through = 0
    /\ ~gap /\ cuts = 1 => IF pos > 0 THEN through < pos ELSE through < Buffer

LEMMA SpacingKept ==
    ASSUME Buffer >= 24, FeedTypes, Spaced, [FeedNext]_feedVars
    PROVE  Spaced'
<1>1. Buffer \in Nat
  BY FeedAssumption
<1>2. CASE Receive
  <2>1. PICK j \in AllKinds, t \in Nat, q \in Nat : Takes(j, t, q)
    BY <1>2, Received
  <2>2. StarAt(j) \in 5..21 /\ q \in 0..(StarAt(j) + 2) /\ pos = q
    BY <2>1, LineEnds DEF Takes, At, Here
  <2>3. ~gap' /\ cuts' = (IF q = 0 THEN 0 ELSE cuts)
        /\ through' = (IF through < Buffer THEN through + 1 ELSE through)
    BY <1>2, <2>1 DEF Takes, Receive
  <2>4. pos' = q + 1 \/ (q = StarAt(j) + 2 /\ pos' = 0)
    BY <2>1, <2>2 DEF Takes, Goes, Here
  <2>5. through' \in 0..Buffer /\ through' <= through + 1
    BY <1>1, <2>3 DEF Spaced
  <2>6. cuts' = 1 => q > 0 /\ through < q
    <3>1. SUFFICES ASSUME cuts' = 1 PROVE q > 0 /\ through < q
      OBVIOUS
    <3>2. q > 0 /\ cuts = 1
      BY <2>2, <2>3, <3>1
    <3> QED BY <2>2, <3>2 DEF Spaced
  <2>7. cuts' = 1 => IF pos' > 0 THEN through' < pos' ELSE through' < Buffer
    BY <1>1, <2>2, <2>4, <2>5, <2>6 DEF Spaced
  <2>8. cuts' # 2
    BY <2>3 DEF Spaced
  <2> QED BY <2>3, <2>5, <2>7, <2>8 DEF Spaced
<1>3. CASE Lose \/ Cut
  <2>1. Gap /\ gap' \in BOOLEAN
    BY <1>3 DEF Lose, Cut
  <2>2. PICK j \in AllKinds, t \in Nat, q \in Nat : Slips(j, t, q)
    BY <2>1, Slipped
  <2>3. StarAt(j) \in 5..21 /\ q \in 0..(StarAt(j) + 2) /\ pos = q
    BY <2>2, LineEnds DEF Slips, At, Here
  <2>4. through' = 0 /\ (gap \/ through = Buffer)
        /\ cuts' = IF gap THEN cuts ELSE IF cuts = 0 THEN 1 ELSE 2
    BY <2>1 DEF Gap
  <2>5. ~gap => cuts = 0
    <3>1. SUFFICES ASSUME ~gap, cuts # 0 PROVE FALSE
      OBVIOUS
    <3>2. cuts = 1 /\ through = Buffer
      BY <2>4, <3>1 DEF Spaced, FeedTypes
    <3> QED BY <1>1, <2>3, <3>1, <3>2 DEF Spaced
  <2>6. cuts' # 2
    BY <2>4, <2>5 DEF Spaced
  <2>7. pos' \in Nat
    BY <2>2, <2>3 DEF Slips, Goes, Here
  <2> QED BY <1>1, <2>4, <2>6, <2>7 DEF Spaced
<1>4. CASE UNCHANGED feedVars
  BY <1>4 DEF feedVars, feed, Spaced
<1> QED BY <1>2, <1>3, <1>4 DEF FeedNext

\* Where all of a buffer that holds a sentence comes through between two gaps, as in
\* gpscheck.txt, no second gap begins before the next $: only luck is left to doubt.
THEOREM OneGapToASentence ==
    ASSUME Buffer >= 24
    PROVE  FeedSpec => [](cuts < 2)
<1>1. FeedInit => Spaced
  BY FeedAssumption DEF FeedInit, Spaced
<1>2. FeedInv /\ Spaced /\ [FeedNext]_feedVars => Spaced'
  BY SpacingKept DEF FeedInv
<1>3. FeedInv /\ Spaced => cuts < 2
  BY DEF FeedInv, FeedTypes, Spaced
<1> QED BY <1>1, <1>2, <1>3, FeedInvariant, PTL DEF FeedSpec
=============================================================================
