----------------------------- MODULE GsmTracker -----------------------------
(***************************************************************************)
(* The cellular tracker (NavIC_GPS.txt): every round posts the position    *)
(* over HTTP and sends it as an SMS, in AT commands.  waitResponse() takes *)
(* the first answer that fits, whichever command it is to: an answer that  *)
(* nobody waited for, or that came too late, is taken for a later one.     *)
(***************************************************************************)
EXTENDS Integers, Sequences

CONSTANTS
    MayFail,     \* commands the modem may answer ERROR for reasons of its own
    MayBeLate,   \* commands whose answer may come after the time it is waited for
    MaxFaults    \* how often that happens

\* The commands of a round, in order; BODY and TEXT are what follows a prompt.
Commands == <<"INIT", "URL", "CONTENT", "DATA", "BODY", "ACTION", "HEAD", "TERM",
              "CMGF", "CSCS", "CMGS", "TEXT">>
Steps == 1..12
Http == {Commands[n] : n \in 1..8}

\* What the constants must be.
TrackerConstants ==
    /\ MayFail \subseteq {Commands[n] : n \in Steps} /\ MayBeLate \subseteq {Commands[n] : n \in Steps}
    /\ MaxFaults \in Nat

VARIABLES
    step,      \* the command the sketch is at
    waiting,   \* it is in waitResponse()
    toModem,   \* commands on their way
    inbox,     \* answers in the receive buffer: what, and of which command
    mode,      \* the modem reads "commands", a "body" or a "text"
    http,      \* its HTTP service is on
    fresh,     \* history: it took a body since the last ACTION came
    stale,     \* history: it performed an ACTION on a body that is not of its round
    taken,     \* history: the last answer taken, by and of which command
    faults     \* faults so far

vars == <<step, waiting, toModem, inbox, mode, http, fresh, stale, taken, faults>>

Nothing == [by |-> "none", of |-> "none"]

Init ==
    /\ step = 1 /\ waiting = FALSE /\ toModem = <<>> /\ inbox = <<>>
    /\ mode = "commands" /\ http = FALSE
    /\ fresh = FALSE /\ stale = FALSE /\ taken = Nothing /\ faults = 0

Command == Commands[step]
Fault == faults < MaxFaults /\ faults' = faults + 1

(***************************************************************************)
(* The sketch: httpPost() and sendSMS().                                   *)
(***************************************************************************)
\* Mutant of Awaited: the prompt is not named, and waitResponse() looks for OK.
AwaitedMutant == CASE Command = "CMGS" -> ">" [] Command \in {"HEAD", "TERM"} -> "none" [] OTHER -> "OK"

\* r1 of waitResponse(); the answers to HEAD and TERM are not waited for.
Awaited == CASE Command = "DATA" -> "DOWNLOAD" [] Command = "CMGS" -> ">"
             [] Command \in {"HEAD", "TERM"} -> "none" [] OTHER -> "OK"

\* Mutant of AfterSuccess: the body is left out.
NoBodyMutant == IF Command = "TEXT" THEN 1 ELSE IF Command = "DATA" THEN 6 ELSE step + 1

AfterSuccess == IF Command = "TEXT" THEN 1 ELSE step + 1

\* Mutant of AfterFailure: the prompt is waited for once.
AfterFailureMutant ==
    CASE Command = "ACTION" -> 9
      [] Command \in {"CMGS", "TEXT"} -> 1
      [] OTHER -> step + 1

\* A failure is printed and passed over, but that of ACTION, which skips HEAD
\* and TERM, that of CMGS, and that of DATA: its prompt is waited for again.
AfterFailure ==
    CASE Command = "DATA" -> step
      [] Command = "ACTION" -> 9
      [] Command \in {"CMGS", "TEXT"} -> 1
      [] OTHER -> step + 1

Goto(n) == step' = n /\ waiting' = (n = step)

\* sendAT() or streamWrite()
Send ==
    /\ ~waiting
    /\ toModem' = Append(toModem, Command)
    /\ IF Awaited = "none" THEN Goto(AfterSuccess) ELSE waiting' = TRUE /\ UNCHANGED step
    /\ UNCHANGED <<inbox, mode, http, fresh, stale, taken, faults>>

\* waitResponse() reads an answer: r1, r2 = "ERROR", or one to pass over.
ReadAnswer ==
    /\ waiting /\ inbox # <<>>
    /\ inbox' = Tail(inbox)
    /\ IF Head(inbox).is \in {Awaited, "ERROR"}
       THEN /\ taken' = [by |-> Command, of |-> Head(inbox).of]
            /\ Goto(IF Head(inbox).is = Awaited THEN AfterSuccess ELSE AfterFailure)
       ELSE UNCHANGED <<step, waiting, taken>>
    /\ UNCHANGED <<toModem, mode, http, fresh, stale, faults>>

\* Its time is over: nothing will come, or what comes is late.
Timeout ==
    /\ waiting /\ inbox = <<>>
    /\ IF toModem = <<>> THEN UNCHANGED faults ELSE Head(toModem) \in MayBeLate /\ Fault
    /\ Goto(AfterFailure)
    /\ UNCHANGED <<toModem, inbox, mode, http, fresh, stale, taken>>

Sketch == Send \/ ReadAnswer \/ Timeout

(***************************************************************************)
(* The modem: one command after another, and a prompt takes what follows.  *)
(***************************************************************************)
Answer(c, a) == inbox' = Append(inbox, [is |-> a, of |-> c])

\* What c needs to be done, and what it is answered then.
Accepts(c) == CASE c = "INIT" -> ~http
                [] c \in Http \ {"INIT", "BODY"} -> http
                [] OTHER -> TRUE
Done(c) == CASE c = "DATA" -> "DOWNLOAD" [] c = "CMGS" -> ">" [] OTHER -> "OK"

Performs(c) ==
    /\ Accepts(c)
    /\ Answer(c, Done(c))
    /\ http' = ((http \/ c = "INIT") /\ c # "TERM")
    /\ mode' = CASE c = "DATA" -> "body" [] c = "CMGS" -> "text" [] OTHER -> "commands"
    /\ fresh' = ((fresh \/ c = "BODY") /\ c # "ACTION")
    /\ stale' = (stale \/ (c = "ACTION" /\ ~fresh))
    /\ UNCHANGED faults

Refuses(c) ==
    /\ IF Accepts(c) THEN c \in MayFail /\ Fault ELSE UNCHANGED faults
    /\ Answer(c, "ERROR")
    /\ mode' = "commands"
    /\ fresh' = (fresh /\ c # "ACTION")
    /\ UNCHANGED <<http, stale>>

\* In text mode a command is text, and so is a body; outside it they are nothing.
Swallows(c) ==
    /\ fresh' = (fresh /\ c # "ACTION")
    /\ UNCHANGED <<inbox, mode, http, stale, faults>>

Modem ==
    /\ toModem # <<>> /\ toModem' = Tail(toModem)
    /\ LET c == Head(toModem)
           expected == CASE mode = "body" -> c = "BODY" [] mode = "text" -> c = "TEXT"
                         [] OTHER -> c \notin {"BODY", "TEXT"}
       IN  IF expected THEN Performs(c) \/ Refuses(c) ELSE Swallows(c)
    /\ UNCHANGED <<step, waiting, taken>>

Next == Sketch \/ Modem

Spec == Init /\ [][Next]_vars
FairSpec == Spec /\ WF_vars(Sketch) /\ WF_vars(Modem)

(***************************************************************************)
(* Properties                                                              *)
(***************************************************************************)
\* Late answers or not, an ACTION the modem performs, however late, posts the
\* body of its own round and no other: BODY follows the prompt of DATA, which
\* is waited for as long as it takes.  A modem that refuses the body it asked
\* for posts the one before.
PostsAreCurrent == ~stale

\* The sketch waits for a DOWNLOAD that is neither in its buffer nor on its way
\* only where the modem refused the DATA it waits for, where its HTTP service is
\* off, or where it reads commands as the text of an SMS, whose prompt came
\* unseen.  A prompt that the modem gave is never taken by the wait for another
\* answer, and a DATA is never read as the body of an earlier one.
DataRefused == taken = [by |-> "DATA", of |-> "DATA"]
    \/ \E i \in DOMAIN inbox : inbox[i] = [is |-> "ERROR", of |-> "DATA"]
PromptIsHere == \E i \in DOMAIN inbox : inbox[i].is = "DOWNLOAD"
WaitsInVainOnlyIf ==
    Command = "DATA" /\ waiting /\ toModem = <<>> /\ ~PromptIsHere
        => ~http \/ mode = "text" \/ DataRefused

\* The tracker goes on posting: round follows round.
KeepsPosting == []<>(Command = "ACTION" /\ waiting)
=============================================================================
