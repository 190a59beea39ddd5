------------------------------ MODULE LoginFlow -------------------------------
(***************************************************************************)
(* The browser login (internal/auth: flow.go, callback.go, paste.go,       *)
(* manual.go; gcom.go runs the same functions against grafana.com).        *)
(*                                                                         *)
(* gcx waits for the redirect that ends the login on two routes at once:   *)
(* a callback server, whose requests are handlers of their own, and a      *)
(* reader of pasted URLs. Both accept the same single-use code, and a      *)
(* guard lets one of them exchange it. In manual mode there is no server   *)
(* and no guard.                                                           *)
(*                                                                         *)
(* An answer, in a request or in a line, by what the code tells apart:     *)
(*   foreign     of another login;  cancelled, denied  of this one;        *)
(*   incomplete  of this one, without a code or a trusted endpoint;        *)
(*   complete    of this one, with a code;                                 *)
(*   garbage, closed, reopen  lines only: no URL, the end of the input,    *)
(*               Enter where a line asks for the page to be opened again.  *)
(*                                                                         *)
(* The wait for the reader has a backstop of two seconds (closeGrace) for  *)
(* a reader that does not end. It is left out: a login that needed it      *)
(* would not end here.                                                     *)
(***************************************************************************)
EXTENDS Integers

CONSTANTS Tabs,      \* requests to the callback server
          Codes,     \* authorization codes, one for each approval
          Settings,  \* mode and reader of a login
          Lines,     \* bound: lines the user enters
          Faults,    \* bound: exchanges that fail, and the server's end
          Tries,     \* manualPasteTries
          None

Modes   == {"callback", "manual"}
Readers == {"none", "paste", "reopen"}
Errors  == {"cancelled", "denied", "failed", "serve", "input"}

ASSUME LoginConstantsOK ==
  /\ Settings \subseteq [mode : Modes, reader : Readers]
  /\ Lines \in Nat /\ Faults \in Nat /\ Tries \in Nat \ {0}
  /\ None \notin Tabs \cup Errors

Plain(kinds) == [kind : kinds, code : {None}]
Answers      == Plain({"foreign", "cancelled", "denied", "incomplete"})
                  \cup [kind : {"complete"}, code : Codes]
Inputs       == Answers \cup Plain({"garbage", "closed", "reopen"})

VARIABLES setting,
          flow,         \* the goroutine that runs the login
          tab,          \* the handler of each request
          server,       \* what the handlers share
          taken,        \* exchangeGuard
          chan,         \* the channels to the login, one place each
          reader,       \* the goroutine that reads the terminal
          code,         \* what grafana.com says of each code
          interrupted,  \* the context is cancelled
          lines, faults,
          won,          \* some exchange gave a token,
          rejected      \* and one of a pasted code failed

vars == <<setting, flow, tab, server, taken, chan, reader, code, interrupted, lines, faults,
          won, rejected>>

Empty == [kind |-> "none", code |-> None]
Manual == setting.mode = "manual"
Error(a) == CASE a.kind = "cancelled" -> "cancelled" [] a.kind = "denied" -> "denied"
              [] OTHER -> "failed"

-------------------------------------------------------------------------------
(* handleCallbackParams, for both routes *)

\* What the checks say of an answer whose route finds the guard taken, or not.
Verdict(a, isTaken) ==
  CASE a.kind # "complete"            -> a.kind
    [] a.kind = "complete" /\ isTaken -> "claimed"
    [] OTHER                          -> "exchange"

\* Mutant: the claim comes before the checks of the endpoint.
ClaimsFirst(a) == taken \/ a.kind \in {"incomplete", "complete"}

\* exchangeGuard.claim, made by what has passed the checks.
Claims(a) == taken \/ a.kind = "complete"

\* A code is spent by the first exchange that reaches the server. An exchange
\* fails with a spent code, also one that is its own, sent again by the
\* transport because the answer was lost; with the context; or by itself, as
\* when what it returns is not acceptable.
Succeeds(c) ==
  /\ code[c] = "fresh" /\ code' = [code EXCEPT ![c] = "spent"]
  /\ won' = TRUE
  /\ UNCHANGED faults

ExchangeFails(c) ==
  /\ IF code[c] = "spent" \/ interrupted THEN UNCHANGED faults
     ELSE faults < Faults /\ faults' = faults + 1
  /\ \E s \in {code[c], "spent"} : code' = [code EXCEPT ![c] = s]
  /\ UNCHANGED won

-------------------------------------------------------------------------------
(* newCallbackServer, startCallbackServer *)

Serving   == server.serving /\ ~Manual /\ flow.pc \in {"select", "handling", "exchanging", "closing"}
Process   == flow.pc # "returned"
Page(t, p) == tab' = [tab EXCEPT ![t] = [@ EXCEPT !.pc = "answered", !.page = p]]
TabGoes(t, s) == tab' = [tab EXCEPT ![t].pc = s]

\* A callback of another login is answered without the lock.
Arrive(t, a) ==
  /\ Serving /\ tab[t].pc = "idle"
  /\ tab' = [tab EXCEPT ![t] = IF a.kind = "foreign"
                               THEN [pc |-> "answered", answer |-> a, page |-> "notice"]
                               ELSE [pc |-> "queued", answer |-> a, page |-> "none"]]
  /\ UNCHANGED <<setting, flow, server, taken, chan, reader, code, interrupted, lines, faults,
                 won, rejected>>

\* Under the lock: gone, ignored, beaten by the paste route, or decisive.
Handle(t) ==
  LET a == tab[t].answer
      v == Verdict(a, taken)
  IN  /\ tab[t].pc = "queued" /\ server.mu = None /\ Process
      /\ IF server.consumed THEN Page(t, "gone") /\ UNCHANGED <<server, taken>>
         ELSE /\ taken' = Claims(a)
              /\ CASE v = "incomplete" -> Page(t, "notice") /\ UNCHANGED server
                   [] v = "claimed"    -> /\ Page(t, "success")
                                          /\ server' = [server EXCEPT !.consumed = TRUE]
                   [] OTHER            -> /\ TabGoes(t, IF v = "exchange" THEN v ELSE "failing")
                                          /\ server' = [server EXCEPT !.mu = t]
      /\ UNCHANGED <<setting, flow, chan, reader, code, interrupted, lines, faults, won, rejected>>

ExchangeEnds(t) ==
  /\ tab[t].pc = "exchange" /\ Process
  /\ \/ Succeeds(tab[t].answer.code) /\ TabGoes(t, "succeeding")
     \/ ExchangeFails(tab[t].answer.code) /\ TabGoes(t, "failing")
  /\ UNCHANGED <<setting, flow, server, taken, chan, reader, interrupted, lines, rejected>>

\* The handler tells the login, then the browser; a full channel is waited for.
Report(t) ==
  /\ Process
  /\ \/ /\ tab[t].pc = "succeeding" /\ ~chan.result
        /\ chan' = [chan EXCEPT !.result = TRUE]
        /\ Page(t, "success")
     \/ /\ tab[t].pc = "failing" /\ chan.error = None
        /\ chan' = [chan EXCEPT !.error = Error(tab[t].answer)]
        /\ Page(t, "failure")
  /\ server' = [server EXCEPT !.mu = None, !.consumed = TRUE]
  /\ UNCHANGED <<setting, flow, taken, reader, code, interrupted, lines, faults, won, rejected>>

\* Serve returns with an error of its own. Where the channel is full, its
\* goroutine stays behind.
ServeFails ==
  /\ Serving /\ faults < Faults
  /\ faults' = faults + 1
  /\ chan' = IF chan.error = None THEN [chan EXCEPT !.error = "serve"] ELSE chan
  /\ server' = [server EXCEPT !.serving = FALSE]
  /\ UNCHANGED <<setting, flow, tab, taken, reader, code, interrupted, lines, won, rejected>>

Interrupt ==
  /\ Process /\ ~interrupted
  /\ interrupted' = TRUE
  /\ UNCHANGED <<setting, flow, tab, server, taken, chan, reader, code, lines, faults, won, rejected>>

-------------------------------------------------------------------------------
(* pasteWatcher *)

Stopped == flow.pc \in {"closing", "shutdown", "returned"}

\* What a line is to the reader that reads it. Blank lines are dropped.
LineInputs == CASE setting.reader = "reopen" -> Plain({"reopen", "closed"})
                [] setting.reader = "paste"  -> Answers \cup Plain({"garbage", "closed"})
                [] OTHER                     -> {}

ReadLine(i) ==
  /\ ~Manual /\ reader.pc = "reading" /\ ~Stopped /\ lines < Lines
  /\ lines' = lines + 1
  /\ reader' = [pc |-> "delivering", item |-> i]
  /\ UNCHANGED <<setting, flow, tab, server, taken, chan, code, interrupted, faults, won, rejected>>

\* The read ends with the deadline, a delivery because nobody wants it.
Stops == reader.pc \in {"reading", "delivering"} /\ Stopped

ReaderStops ==
  /\ Stops
  /\ reader' = [pc |-> "ended", item |-> Empty]
  /\ UNCHANGED <<setting, flow, tab, server, taken, chan, code, interrupted, lines, faults,
                 won, rejected>>

Deliver ==
  /\ reader.pc = "delivering" /\ chan.input = Empty
  /\ chan' = [chan EXCEPT !.input = reader.item]
  /\ reader' = [pc |-> IF reader.item.kind = "closed" THEN "ended" ELSE "reading", item |-> Empty]
  /\ UNCHANGED <<setting, flow, tab, server, taken, code, interrupted, lines, faults, won, rejected>>

-------------------------------------------------------------------------------
(* awaitCallbackOrPaste *)

Select == ~Manual /\ flow.pc = "select"
Returns(how) == flow' = [flow EXCEPT !.pc = "closing", !.msg = Empty, !.outcome = how]

ReceiveResult ==
  /\ Select /\ chan.result
  /\ chan' = [chan EXCEPT !.result = FALSE]
  /\ Returns("result")
  /\ UNCHANGED <<setting, tab, server, taken, reader, code, interrupted, lines, faults, won, rejected>>

ReceiveError ==
  /\ Select /\ chan.error # None
  /\ chan' = [chan EXCEPT !.error = None]
  /\ Returns(chan.error)
  /\ UNCHANGED <<setting, tab, server, taken, reader, code, interrupted, lines, faults, won, rejected>>

ContextDone ==
  /\ Select /\ interrupted
  /\ Returns("interrupted")
  /\ UNCHANGED <<setting, tab, server, taken, chan, reader, code, interrupted, lines, faults,
                 won, rejected>>

\* A request to open the page again gives way to what has arrived; the pages
\* it opens are among the tabs. Unreadable lines and the end of the input are
\* reported, and the login goes on.
ReceiveInput ==
  /\ Select /\ chan.input # Empty
  /\ IF chan.input.kind = "reopen"
     THEN \/ chan.result /\ Returns("result")
             /\ chan' = [chan EXCEPT !.input = Empty, !.result = FALSE]
          \/ chan.error # None /\ Returns(chan.error)
             /\ chan' = [chan EXCEPT !.input = Empty, !.error = None]
          \/ ~chan.result /\ chan.error = None /\ UNCHANGED flow
             /\ chan' = [chan EXCEPT !.input = Empty]
     ELSE /\ flow' = IF chan.input.kind \in {"closed", "garbage"} THEN flow
                     ELSE [flow EXCEPT !.pc = "handling", !.msg = chan.input]
          /\ chan' = [chan EXCEPT !.input = Empty]
  /\ UNCHANGED <<setting, tab, server, taken, reader, code, interrupted, lines, faults, won, rejected>>

\* Mutant: the paste route reports that it was beaten.
BeatenIsAnError == Returns("failed")

\* The other route's result is on its way.
Beaten == flow' = [flow EXCEPT !.pc = "select", !.msg = Empty]

Rejects == flow' = [flow EXCEPT !.pc = "select", !.msg = Empty]

\* Mutant: the paste route has no guard.
NilGuard == FALSE

PasteGuard == taken

HandlePaste ==
  LET v == Verdict(flow.msg, PasteGuard)
  IN  /\ ~Manual /\ flow.pc = "handling"
      /\ taken' = Claims(flow.msg)
      /\ CASE v = "exchange"  -> flow' = [flow EXCEPT !.pc = "exchanging"]
           [] v = "claimed"   -> Beaten
           [] v = "cancelled" -> Returns(v)
           [] OTHER           -> Rejects
      /\ UNCHANGED <<setting, tab, server, chan, reader, code, interrupted, lines, faults,
                     won, rejected>>

PasteExchangeEnds ==
  /\ ~Manual /\ flow.pc = "exchanging"
  /\ \/ Succeeds(flow.msg.code) /\ Returns("result") /\ UNCHANGED rejected
     \/ ExchangeFails(flow.msg.code) /\ Rejects /\ rejected' = TRUE
  /\ UNCHANGED <<setting, tab, server, taken, chan, reader, interrupted, lines>>

\* paste.Close waits for the reader, Shutdown for the handlers, at most for
\* five seconds.
Joined ==
  /\ flow.pc = "closing" /\ reader.pc = "ended"
  /\ flow' = [flow EXCEPT !.pc = "shutdown"]
  /\ server' = [server EXCEPT !.serving = FALSE]
  /\ UNCHANGED <<setting, tab, taken, chan, reader, code, interrupted, lines, faults, won, rejected>>

Shutdown ==
  /\ flow.pc = "shutdown"
  /\ flow' = [flow EXCEPT !.pc = "returned"]
  /\ UNCHANGED <<setting, tab, server, taken, chan, reader, code, interrupted, lines, faults,
                 won, rejected>>

-------------------------------------------------------------------------------
(* runManualPaste *)

\* Mutant: one try more.
TriesOnceMore == flow.tries < Tries

TriesAgain == flow.tries + 1 < Tries

Ends(how) == flow' = [flow EXCEPT !.pc = "returned", !.msg = Empty, !.outcome = how]

\* The line did not work: the next one, as long as there are tries left.
Refuse(how) ==
  flow' = IF TriesAgain
          THEN [flow EXCEPT !.pc = "select", !.msg = Empty, !.tries = @ + 1, !.last = how]
          ELSE [flow EXCEPT !.pc = "returned", !.msg = Empty, !.outcome = how]

\* Without another line the reason is that of the last one.
ManualLine(i) ==
  /\ Manual /\ flow.pc = "select"
  /\ \/ lines < Lines /\ lines' = lines + 1
     \/ lines = Lines /\ i.kind = "closed" /\ UNCHANGED lines
  /\ CASE i.kind = "closed"     -> Ends(IF flow.last # None /\ ~interrupted THEN flow.last
                                        ELSE "input")
       [] i.kind = "garbage"    -> Refuse("input")
       [] i.kind = "cancelled"  -> Ends("cancelled")
       [] i.kind = "complete"   -> flow' = [flow EXCEPT !.pc = "exchanging", !.msg = i]
       [] OTHER                 -> Refuse(Error(i))
  /\ UNCHANGED <<setting, tab, server, taken, chan, reader, code, interrupted, faults, won, rejected>>

ManualInterrupted ==
  /\ Manual /\ flow.pc = "select" /\ interrupted
  /\ Ends("interrupted")
  /\ UNCHANGED <<setting, tab, server, taken, chan, reader, code, interrupted, lines, faults,
                 won, rejected>>

ManualExchangeEnds ==
  /\ Manual /\ flow.pc = "exchanging"
  /\ \/ Succeeds(flow.msg.code) /\ Ends("result")
     \/ ExchangeFails(flow.msg.code) /\ Refuse("failed")
  /\ UNCHANGED <<setting, tab, server, taken, chan, reader, interrupted, lines, rejected>>

-------------------------------------------------------------------------------

Init ==
  /\ setting \in Settings
  /\ flow = [pc |-> "select", msg |-> Empty, tries |-> 0, last |-> None, outcome |-> "none"]
  /\ tab = [t \in Tabs |-> [pc |-> "idle", answer |-> Empty, page |-> "none"]]
  /\ server = [mu |-> None, consumed |-> FALSE, serving |-> TRUE]
  /\ taken = FALSE
  /\ chan = [result |-> FALSE, error |-> None, input |-> Empty]
  /\ reader = [pc |-> IF setting.reader = "none" THEN "ended" ELSE "reading", item |-> Empty]
  /\ code = [c \in Codes |-> "fresh"]
  /\ interrupted = FALSE /\ won = FALSE /\ rejected = FALSE
  /\ lines = 0 /\ faults = 0

\* The steps of the program, as against those of the browser and the user.
Step ==
  \/ \E t \in Tabs : Handle(t) \/ ExchangeEnds(t) \/ Report(t)
  \/ ReaderStops \/ Deliver
  \/ ReceiveResult \/ ReceiveError \/ ContextDone \/ ReceiveInput
  \/ HandlePaste \/ PasteExchangeEnds \/ Joined \/ Shutdown
  \/ ManualInterrupted \/ ManualExchangeEnds

Next ==
  \/ Step
  \/ \E t \in Tabs, a \in Answers : Arrive(t, a)
  \/ \E i \in LineInputs : ReadLine(i)
  \/ \E i \in Answers \cup Plain({"garbage", "closed"}) : ManualLine(i)
  \/ ServeFails \/ Interrupt

Spec == Init /\ [][Next]_vars

\* Goroutines run, exchanges end (in 30 seconds at most).
FairSpec == Spec /\ WF_vars(Step)

-------------------------------------------------------------------------------
(* Properties *)

\* The types of the variables.
TypeOK ==
  /\ flow.pc \in {"select", "handling", "exchanging", "closing", "shutdown", "returned"}
  /\ flow.msg \in Inputs \cup {Empty} /\ flow.tries \in 0..Tries - 1
  /\ flow.last \in Errors \cup {None}
  /\ flow.outcome \in Errors \cup {"none", "result", "interrupted"}
  /\ \A t \in Tabs :
       /\ tab[t].pc \in {"idle", "queued", "exchange", "succeeding", "failing", "answered"}
       /\ tab[t].answer \in Answers \cup {Empty}
       /\ tab[t].page \in {"none", "notice", "gone", "success", "failure"}
  /\ server.mu \in Tabs \cup {None} /\ {server.consumed, server.serving, taken} \subseteq BOOLEAN
  /\ chan.error \in Errors \cup {None} /\ chan.input \in Inputs \cup {Empty}
  /\ reader.pc \in {"reading", "delivering", "ended"}
  /\ code \in [Codes -> {"fresh", "spent"}]
  /\ lines \in 0..Lines /\ faults \in 0..Faults

Exchanging == { t \in Tabs : tab[t].pc = "exchange" }

\* exchangeGuard: the two routes and every further request together start one
\* exchange. None is started while another runs, or after one has given a
\* token, also not with another code of this login.
OneExchange ==
  ~Manual =>
    /\ \A t, u \in Exchanging : t = u
    /\ Exchanging # {} => ~won /\ flow.pc # "exchanging"
    /\ flow.pc = "exchanging" => ~won

\* errExchangeClaimed: once some route has a token, the login never reports
\* the other route's failure: it ends with the token, unless it was
\* interrupted, cancelled by a pasted answer, or lost its server.
NoFalseFailure ==
  /\ flow.outcome = "result" => won
  /\ won => flow.outcome \notin {"failed", "denied", "input"}

\* answerCallbackError: what a browser is told to be the end of the login is
\* followed by its end in the terminal, and so is an interrupt; unless the
\* exchange of a pasted code has failed before (see ClaimedIsDelivered).
ToldEnds ==
  (interrupted \/ \E t \in Tabs : tab[t].page \in {"success", "failure"})
    ~> (flow.pc = "returned" \/ rejected)

\* callback.go, on errExchangeClaimed: "the route that won the race delivers
\* the result". A browser that is shown the success page because the other
\* route has claimed the code belongs to a login that ends.
ClaimedIsDelivered ==
  \A t \in Tabs : tab[t].page = "success" ~> flow.pc = "returned"

===============================================================================
