--------------------------- MODULE LoginFlowProofs ----------------------------
(***************************************************************************)
(* That a login exchanges one code, and that a login with a token does not *)
(* report a failure, for any number of requests, codes, lines and failures *)
(***************************************************************************)
EXTENDS LoginFlow, TLAPS

\* The variables as records; TypeOK says no more than this.
Logins    == [pc : {"select", "handling", "exchanging", "closing", "shutdown", "returned"},
              msg : Inputs \cup {Empty}, tries : 0..Tries - 1, last : Errors \cup {None},
              outcome : Errors \cup {"none", "result", "interrupted"}]
Handlers  == [pc : {"idle", "queued", "exchange", "succeeding", "failing", "answered"},
              answer : Answers \cup {Empty},
              page : {"none", "notice", "gone", "success", "failure"}]
Servers   == [mu : Tabs \cup {None}, consumed : BOOLEAN, serving : BOOLEAN]
Channels  == [result : BOOLEAN, error : Errors \cup {None}, input : Inputs \cup {Empty}]
Terminals == [pc : {"reading", "delivering", "ended"}, item : Inputs \cup {Empty}]

Types ==
  /\ flow \in Logins
  /\ tab \in [Tabs -> Handlers]
  /\ server \in Servers
  /\ chan \in Channels
  /\ reader \in Terminals
  /\ code \in [Codes -> {"fresh", "spent"}]
  /\ lines \in 0..Lines /\ faults \in 0..Faults
  /\ taken \in BOOLEAN /\ won \in BOOLEAN

\* A handler that decides something has the lock, and nothing was decided.
Decides(t) == tab[t].pc \in {"exchange", "succeeding", "failing"}
Deciding   == \A t \in Tabs : Decides(t) => server.mu = t /\ ~server.consumed

\* The guard is never given back, so that only one exchange is started.
Guarded ==
  /\ \A t \in Tabs : tab[t].pc = "exchange" => ~won /\ taken /\ flow.pc # "exchanging"
  /\ flow.pc = "exchanging" => ~won /\ taken
  /\ ~taken => ~won

Failures == {"failed", "denied", "cancelled"}

\* A failure is told by the handler that decided.
ToldFailure == chan.error \in Failures \/ flow.outcome \in {"failed", "denied"}

\* Nothing is told, or will be, that contradicts the token of a handler.
Clean ==
  /\ chan.error \notin {"failed", "denied"} /\ flow.outcome \notin {"failed", "denied"}
  /\ \A t \in Tabs : tab[t].pc # "failing"

Sent ==
  /\ chan.result => won
  /\ \A t \in Tabs : tab[t].pc = "succeeding" => won
  /\ ToldFailure => server.consumed
  /\ chan.error # "input" /\ flow.outcome # "input"
  /\ flow.pc \in {"select", "handling", "exchanging"} => flow.outcome = "none"
  /\ flow.outcome = "result" => won
  /\ won => \/ flow.outcome = "result"
            \/ Clean /\ (server.consumed \/ \E t \in Tabs : tab[t].pc = "succeeding")

\* The manual mode has neither a server nor a reader.
Alone ==
  /\ \A t \in Tabs : tab[t].pc = "idle"
  /\ flow.pc \in {"select", "exchanging"} => flow.outcome = "none" /\ ~won
  /\ flow.pc \in {"select", "exchanging", "closing", "shutdown", "returned"}
  /\ won <=> flow.outcome = "result"

\* The inductive invariant.
IInv ==
  /\ Types
  /\ Manual => Alone
  /\ ~Manual => Deciding /\ Guarded /\ Sent

-------------------------------------------------------------------------------

LEMMA EmptyOK == Empty \in [kind : {"none"}, code : {None}] /\ Empty.kind = "none"
  BY DEF Empty

LEMMA AnswersOK == \A a \in Answers :
  /\ a.kind \in {"foreign", "cancelled", "denied", "incomplete", "complete"}
  /\ a.kind = "complete" => a.code \in Codes
  BY DEF Answers, Plain

LEMMA InputsOK == \A i \in Inputs :
  /\ i.kind \in {"foreign", "cancelled", "denied", "incomplete", "complete",
                  "garbage", "closed", "reopen"}
  /\ i.kind = "complete" => i.code \in Codes
  BY DEF Inputs, Answers, Plain

LEMMA LinesOK == LineInputs \subseteq Inputs /\ Answers \subseteq Inputs
                 /\ Plain({"garbage", "closed"}) \subseteq Inputs
  BY DEF LineInputs, Inputs, Answers, Plain

(* What the assignments that several steps share do *)

LEMMA PageOK == ASSUME tab \in [Tabs -> Handlers], NEW t \in Tabs,
                       NEW p \in {"notice", "gone", "success", "failure"}, Page(t, p)
                PROVE  /\ tab' \in [Tabs -> Handlers]
                       /\ tab'[t].pc = "answered"
                       /\ \A u \in Tabs \ {t} : tab'[u] = tab[u]
  <1> DEFINE h == [tab[t] EXCEPT !.pc = "answered", !.page = p]
  <1>1. tab' = [tab EXCEPT ![t] = h]
    BY DEF Page
  <1>2. h \in Handlers /\ h.pc = "answered"
    BY DEF Handlers
  <1> QED
    BY <1>1, <1>2

LEMMA TabGoesOK == ASSUME tab \in [Tabs -> Handlers], NEW t \in Tabs,
                          NEW s \in {"exchange", "succeeding", "failing"}, TabGoes(t, s)
                   PROVE  /\ tab' \in [Tabs -> Handlers]
                          /\ tab'[t].pc = s
                          /\ \A u \in Tabs \ {t} : tab'[u] = tab[u]
  <1> DEFINE h == [tab[t] EXCEPT !.pc = s]
  <1>1. tab' = [tab EXCEPT ![t] = h]
    BY DEF TabGoes
  <1>2. h \in Handlers /\ h.pc = s
    BY DEF Handlers
  <1> QED
    BY <1>1, <1>2

LEMMA ReturnsOK == ASSUME flow \in Logins, NEW how \in Errors \cup {"result", "interrupted"},
                          Returns(how)
                   PROVE  flow' \in Logins /\ flow'.pc = "closing" /\ flow'.outcome = how
  BY DEF Returns, Logins

LEMMA RejectsOK == ASSUME flow \in Logins, Rejects
                   PROVE  flow' \in Logins /\ flow'.pc = "select" /\ flow'.outcome = flow.outcome
  BY DEF Rejects, Logins

LEMMA EndsOK == ASSUME flow \in Logins, NEW how \in Errors \cup {"result", "interrupted"}, Ends(how)
                PROVE  flow' \in Logins /\ flow'.pc = "returned" /\ flow'.outcome = how
  BY DEF Ends, Logins

LEMMA RefuseOK == ASSUME flow \in Logins, NEW how \in Errors, Refuse(how)
                  PROVE  /\ flow' \in Logins
                         /\ \/ flow'.pc = "select" /\ flow'.outcome = flow.outcome
                            \/ flow'.pc = "returned" /\ flow'.outcome = how
  <1>1. CASE TriesAgain
    <2>1. flow.tries + 1 \in 0..Tries - 1
      BY <1>1, LoginConstantsOK DEF TriesAgain, Logins
    <2>2. flow' = [flow EXCEPT !.pc = "select", !.msg = Empty,
                              !.tries = flow.tries + 1, !.last = how]
      BY <1>1 DEF Refuse
    <2> QED
      BY <2>1, <2>2 DEF Logins
  <1>2. CASE ~TriesAgain
    BY <1>2 DEF Refuse, Logins
  <1> QED
    BY <1>1, <1>2

LEMMA ErrorOK == \A a \in Answers : Error(a) \in {"cancelled", "denied", "failed"}
  BY DEF Error

\* The login reports, or goes on; the handlers do nothing.
Meanwhile ==
  /\ ~Manual /\ flow.pc \in {"select", "handling"}
  /\ UNCHANGED <<setting, tab, server, reader, code, lines, faults, won>>
  /\ chan' \in Channels /\ (chan'.result => chan.result) /\ chan'.error \in {chan.error, None}
  /\ taken' \in BOOLEAN /\ (taken => taken')

LEMMA LoginEnds ==
  ASSUME IInv, Meanwhile, NEW how \in Errors \cup {"result", "interrupted"}, Returns(how),
         how = "result" => won, how \in {"failed", "denied"} => chan.error = how, how # "input"
  PROVE  IInv'
  <1>1. ~Manual /\ ~Manual' /\ Deciding /\ Guarded /\ Sent /\ Types
    BY DEF Meanwhile, IInv, Manual
  <1>2. flow' \in Logins /\ flow'.pc = "closing" /\ flow'.outcome = how
    BY <1>1, ReturnsOK DEF Types
  <1>3. flow.outcome = "none"
    BY <1>1 DEF Meanwhile, Sent
  <1>4. Types' /\ Deciding' /\ Guarded'
    BY <1>1, <1>2 DEF Meanwhile, Types, Deciding, Decides, Guarded
  <1>5. ToldFailure' => server.consumed
    BY <1>1, <1>2, LoginConstantsOK DEF Meanwhile, Sent, ToldFailure, Failures, Errors
  <1>6. Clean => Clean'
    BY <1>2, LoginConstantsOK DEF Meanwhile, Clean, Errors
  <1>7. Sent'
    BY <1>1, <1>2, <1>3, <1>5, <1>6, LoginConstantsOK DEF Meanwhile, Sent, Errors
  <1> QED
    BY <1>1, <1>4, <1>7 DEF IInv

LEMMA LoginGoesOn ==
  ASSUME IInv, Meanwhile, flow' \in Logins, flow'.outcome = flow.outcome,
         flow'.pc \in {"select", "handling"}
  PROVE  IInv'
  <1>1. ~Manual /\ ~Manual' /\ Deciding /\ Guarded /\ Sent /\ Types
    BY DEF Meanwhile, IInv, Manual
  <1>2. Types' /\ Deciding' /\ Guarded'
    BY <1>1 DEF Meanwhile, Types, Deciding, Decides, Guarded
  <1>3. (ToldFailure' => ToldFailure) /\ (Clean => Clean')
    BY LoginConstantsOK DEF Meanwhile, ToldFailure, Clean, Failures, Errors
  <1>4. Sent'
    BY <1>1, <1>3, LoginConstantsOK DEF Meanwhile, Sent, Errors
  <1> QED
    BY <1>1, <1>2, <1>4 DEF IInv

\* What neither the handlers nor the login decide.
LEMMA Elsewhere ==
  ASSUME IInv, Types', UNCHANGED <<setting, tab, taken, won>>,
         chan'.result = chan.result, chan'.error \in {chan.error, "serve"},
         server'.mu = server.mu, server'.consumed = server.consumed,
         flow'.outcome = flow.outcome,
         \/ flow'.pc = flow.pc
         \/ flow.pc \in {"closing", "shutdown"} /\ flow'.pc \in {"shutdown", "returned"}
  PROVE  IInv'
  <1>1. Manual' = Manual
    BY DEF Manual
  <1>2. Manual => Alone'
    BY DEF IInv, Alone
  <1>3. ~Manual => Deciding' /\ Guarded'
    BY DEF IInv, Deciding, Decides, Guarded
  <1>4. (ToldFailure' => ToldFailure) /\ (Clean => Clean')
    BY DEF ToldFailure, Clean, Failures
  <1>5. ~Manual => Sent'
    BY <1>4 DEF IInv, Sent
  <1> QED
    BY <1>1, <1>2, <1>3, <1>5 DEF IInv

LEMMA ArriveInv == ASSUME IInv, NEW t \in Tabs, NEW a \in Answers, Arrive(t, a) PROVE IInv'
  <1>1. ~Manual /\ ~Manual' /\ Deciding /\ Guarded /\ Sent /\ Types /\ tab[t].pc = "idle"
    BY DEF Arrive, Serving, IInv, Manual
  <1>2. /\ tab' \in [Tabs -> Handlers] /\ tab'[t].pc \in {"queued", "answered"}
        /\ \A u \in Tabs \ {t} : tab'[u] = tab[u]
    BY <1>1 DEF Arrive, Types, Handlers
  <1>3. Types' /\ Deciding' /\ Guarded'
    BY <1>1, <1>2 DEF Arrive, Types, Deciding, Decides, Guarded
  <1>4. Sent'
    BY <1>1, <1>2 DEF Arrive, Sent, Clean, ToldFailure
  <1> QED
    BY <1>1, <1>3, <1>4 DEF IInv

LEMMA HandleInv == ASSUME IInv, NEW t \in Tabs, Handle(t) PROVE IInv'
  <1>1. ~Manual /\ ~Manual' /\ Deciding /\ Guarded /\ Sent /\ Types
    BY DEF Handle, IInv, Alone, Manual
  <1>2. \A u \in Tabs : ~Decides(u)
    BY <1>1, LoginConstantsOK DEF Handle, Deciding
  <1>3. /\ UNCHANGED <<flow, chan, reader, code, lines, faults, won>>
        /\ taken \in BOOLEAN /\ won \in BOOLEAN /\ server \in Servers
        /\ tab \in [Tabs -> Handlers]
    BY <1>1 DEF Handle, Types
  <1>4. ASSUME NEW p \in {"gone", "notice", "success"}, Page(t, p),
               server' = server \/ server' = [server EXCEPT !.consumed = TRUE],
               taken' \in BOOLEAN, taken => taken'
        PROVE  IInv'
    <2>1. tab' \in [Tabs -> Handlers] /\ \A u \in Tabs : ~Decides(u)'
      BY <1>2, <1>3, <1>4, PageOK DEF Decides
    <2>2. server' \in Servers /\ (server.consumed => server'.consumed)
      BY <1>3, <1>4 DEF Servers
    <2>3. Types'
      BY <1>1, <1>3, <1>4, <2>1, <2>2 DEF Types
    <2>4. Deciding' /\ Guarded'
      BY <1>1, <1>3, <1>4, <2>1 DEF Deciding, Guarded, Decides
    <2>5. Sent'
      BY <1>1, <1>2, <1>3, <2>1, <2>2 DEF Sent, Clean, ToldFailure, Decides
    <2> QED
      BY <1>1, <2>3, <2>4, <2>5 DEF IInv
  <1>5. ASSUME NEW s \in {"exchange", "failing"}, TabGoes(t, s),
               server' = [server EXCEPT !.mu = t], ~server.consumed,
               taken' \in BOOLEAN, taken => taken', s = "exchange" => ~taken /\ taken'
        PROVE  IInv'
    <2>1. /\ tab' \in [Tabs -> Handlers] /\ tab'[t].pc = s
          /\ \A u \in Tabs \ {t} : ~Decides(u)'
      BY <1>2, <1>3, <1>5, TabGoesOK DEF Decides
    <2>2. server' \in Servers /\ ~server'.consumed /\ server'.mu = t
      BY <1>3, <1>5 DEF Servers
    <2>3. Types'
      BY <1>1, <1>3, <1>5, <2>1, <2>2 DEF Types
    <2>4. Deciding' /\ Guarded'
      BY <1>1, <1>3, <1>5, <2>1, <2>2 DEF Deciding, Guarded, Decides
    <2>5. won => flow.outcome = "result"
      BY <1>1, <1>2, <1>5 DEF Sent, Decides
    <2>6. Sent'
      BY <1>1, <1>2, <1>3, <1>5, <2>1, <2>2, <2>5 DEF Sent, ToldFailure, Decides
    <2> QED
      BY <1>1, <2>3, <2>4, <2>6 DEF IInv
  <1>6. CASE server.consumed
    BY <1>3, <1>4, <1>6 DEF Handle
  <1>7. CASE ~server.consumed
    <2> DEFINE a == tab[t].answer
               v == Verdict(a, taken)
    <2>1. /\ taken' = Claims(a) /\ taken' \in BOOLEAN /\ (taken => taken')
          /\ v = "exchange" => ~taken /\ taken'
      <3>1. taken' = Claims(a)
        BY <1>7 DEF Handle
      <3>2. v = "exchange" => a.kind = "exchange" \/ (a.kind = "complete" /\ ~taken)
        BY DEF Verdict
      <3>3. a.kind # "exchange"
        BY <1>3, AnswersOK, EmptyOK DEF Handlers
      <3> QED
        BY <1>3, <3>1, <3>2, <3>3 DEF Claims
    <2>2. CASE v = "incomplete"
      BY <1>4, <1>7, <2>1, <2>2 DEF Handle
    <2>3. CASE v = "claimed"
      <3>1. Page(t, "success") /\ server' = [server EXCEPT !.consumed = TRUE]
        BY <1>7, <2>3 DEF Handle
      <3> QED
        BY <1>4, <2>1, <3>1
    <2>4. CASE v \notin {"incomplete", "claimed"}
      <3>1. /\ TabGoes(t, IF v = "exchange" THEN v ELSE "failing")
            /\ server' = [server EXCEPT !.mu = t]
        BY <1>7, <2>4 DEF Handle
      <3> QED
        BY <1>5, <1>7, <2>1, <3>1
    <2> QED
      BY <2>2, <2>3, <2>4
  <1> QED
    BY <1>6, <1>7

LEMMA ExchangeEndsInv == ASSUME IInv, NEW t \in Tabs, ExchangeEnds(t) PROVE IInv'
  <1>1. ~Manual /\ ~Manual' /\ Deciding /\ Guarded /\ Sent /\ Types
    BY DEF ExchangeEnds, IInv, Alone, Manual
  <1>2. /\ server.mu = t /\ ~server.consumed /\ ~won /\ taken /\ flow.pc # "exchanging"
        /\ UNCHANGED <<flow, server, taken, chan, reader, lines>>
        /\ tab \in [Tabs -> Handlers]
    BY <1>1 DEF ExchangeEnds, Deciding, Decides, Guarded, Types
  <1>3. \A u \in Tabs \ {t} : ~Decides(u)
    BY <1>1, <1>2 DEF Deciding
  <1>4. code' \in [Codes -> {"fresh", "spent"}] /\ faults' \in 0..Faults
    BY <1>1, LoginConstantsOK DEF ExchangeEnds, Succeeds, ExchangeFails, Types
  <1>5. ~ToldFailure /\ flow.outcome # "input"
    BY <1>1, <1>2 DEF Sent
  <1>6. ASSUME NEW s \in {"succeeding", "failing"}, TabGoes(t, s), won' = (s = "succeeding")
        PROVE  IInv'
    <2>1. /\ tab' \in [Tabs -> Handlers] /\ tab'[t].pc = s
          /\ \A u \in Tabs \ {t} : tab'[u] = tab[u]
      BY <1>2, <1>6, TabGoesOK
    <2>2. Types' /\ Deciding' /\ Guarded'
      BY <1>1, <1>2, <1>3, <1>4, <1>6, <2>1 DEF Types, Deciding, Decides, Guarded
    <2>3. won' => Clean'
      BY <1>2, <1>3, <1>5, <1>6, <2>1 DEF Clean, ToldFailure, Failures, Decides
    <2>4. Sent'
      BY <1>1, <1>2, <1>3, <1>5, <1>6, <2>1, <2>3 DEF Sent, ToldFailure, Decides
    <2> QED
      BY <1>1, <2>2, <2>4 DEF IInv
  <1>7. CASE TabGoes(t, "succeeding") /\ won' = TRUE
    BY <1>6, <1>7
  <1>8. CASE TabGoes(t, "failing") /\ won' = won
    BY <1>1, <1>2, <1>6, <1>8 DEF Types
  <1> QED
    BY <1>7, <1>8 DEF ExchangeEnds, Succeeds, ExchangeFails

LEMMA ReportInv == ASSUME IInv, NEW t \in Tabs, Report(t) PROVE IInv'
  <1>1. ~Manual /\ ~Manual' /\ Deciding /\ Guarded /\ Sent /\ Types
    BY DEF Report, IInv, Alone, Manual
  <1>2. /\ UNCHANGED <<flow, taken, reader, code, lines, faults, won>>
        /\ server \in Servers /\ chan \in Channels /\ tab \in [Tabs -> Handlers]
    BY <1>1 DEF Report, Types
  <1>3. Decides(t) /\ server.mu = t /\ ~server.consumed
    BY <1>1 DEF Report, Decides, Deciding
  <1>4. \A u \in Tabs \ {t} : ~Decides(u)
    BY <1>1, <1>3 DEF Deciding
  <1>5. server' \in Servers /\ server'.consumed
    BY <1>2 DEF Report, Servers
  <1>6. /\ tab' \in [Tabs -> Handlers]
        /\ \A u \in Tabs : ~Decides(u)'
    <2>1. \E p \in {"notice", "gone", "success", "failure"} : Page(t, p)
      BY DEF Report
    <2> QED
      BY <1>2, <1>4, <2>1, PageOK DEF Decides
  <1>7. Deciding' /\ Guarded'
    BY <1>1, <1>2, <1>6 DEF Deciding, Guarded, Decides
  <1>8. CASE tab[t].pc = "succeeding" /\ chan' = [chan EXCEPT !.result = TRUE]
    <2>1. chan' \in Channels /\ chan'.result /\ chan'.error = chan.error
      BY <1>2, <1>8 DEF Channels
    <2>2. won
      BY <1>1, <1>8 DEF Sent
    <2>3. flow.outcome = "result" \/ Clean
      BY <1>1, <2>2 DEF Sent
    <2>4. flow'.outcome = "result" \/ Clean'
      BY <1>2, <1>6, <2>1, <2>3 DEF Clean, Decides
    <2>5. Sent'
      BY <1>1, <1>2, <1>5, <1>6, <2>1, <2>2, <2>4 DEF Sent, Decides
    <2> QED
      BY <1>1, <1>2, <1>5, <1>6, <1>7, <2>1, <2>5 DEF IInv, Types
  <1>9. CASE tab[t].pc = "failing" /\ chan' = [chan EXCEPT !.error = Error(tab[t].answer)]
    <2>1. /\ chan' \in Channels /\ chan'.result = chan.result
          /\ chan'.error \in {"cancelled", "denied", "failed"}
      <3>1. Error(tab[t].answer) \in {"cancelled", "denied", "failed"}
        BY DEF Error
      <3> QED
        BY <1>2, <1>9, <3>1 DEF Channels, Errors
    <2>2. won => flow.outcome = "result"
      BY <1>1, <1>9 DEF Sent, Clean
    <2>3. Sent'
      BY <1>1, <1>2, <1>5, <1>6, <2>1, <2>2 DEF Sent, Decides
    <2> QED
      BY <1>1, <1>2, <1>5, <1>6, <1>7, <2>1, <2>3 DEF IInv, Types
  <1> QED
    BY <1>8, <1>9 DEF Report

LEMMA ServeFailsInv == ASSUME IInv, ServeFails PROVE IInv'
  <1>1. server' \in Servers /\ server'.mu = server.mu /\ server'.consumed = server.consumed
    BY DEF ServeFails, IInv, Types, Servers
  <1>2. /\ chan' \in Channels /\ chan'.result = chan.result
        /\ chan'.error \in {chan.error, "serve"}
    <2>1. CASE chan' = [chan EXCEPT !.error = "serve"]
      BY <2>1 DEF IInv, Types, Channels, Errors
    <2>2. CASE chan' = chan
      BY <2>2 DEF IInv, Types
    <2> QED
      BY <2>1, <2>2 DEF ServeFails
  <1>3. faults' \in 0..Faults
    BY LoginConstantsOK DEF ServeFails, IInv, Types
  <1>4. Types'
    BY <1>1, <1>2, <1>3 DEF ServeFails, IInv, Types
  <1> QED
    BY <1>1, <1>2, <1>4, Elsewhere DEF ServeFails

LEMMA InterruptInv == ASSUME IInv, Interrupt PROVE IInv'
  <1>1. Types'
    BY DEF Interrupt, IInv, Types
  <1> QED
    BY <1>1, Elsewhere DEF Interrupt

LEMMA ReadLineInv == ASSUME IInv, NEW i \in LineInputs, ReadLine(i) PROVE IInv'
  <1>1. reader' \in Terminals /\ lines' \in 0..Lines
    BY LoginConstantsOK, LinesOK DEF ReadLine, IInv, Types, Terminals
  <1>2. Types'
    BY <1>1 DEF ReadLine, IInv, Types
  <1> QED
    BY <1>1, <1>2, Elsewhere DEF ReadLine

LEMMA ReaderStopsInv == ASSUME IInv, ReaderStops PROVE IInv'
  <1>1. reader' \in Terminals
    BY DEF ReaderStops, IInv, Types, Terminals
  <1>2. Types'
    BY <1>1 DEF ReaderStops, IInv, Types
  <1> QED
    BY <1>1, <1>2, Elsewhere DEF ReaderStops

LEMMA DeliverInv == ASSUME IInv, Deliver PROVE IInv'
  <1>1. /\ reader' \in Terminals
        /\ chan' \in Channels /\ chan'.result = chan.result /\ chan'.error = chan.error
    BY DEF Deliver, IInv, Types, Channels, Terminals
  <1>2. Types'
    BY <1>1 DEF Deliver, IInv, Types
  <1> QED
    BY <1>1, <1>2, Elsewhere DEF Deliver

LEMMA ReceiveResultInv == ASSUME IInv, ReceiveResult PROVE IInv'
  <1>1. chan.result /\ won
    BY DEF ReceiveResult, Select, IInv, Sent
  <1>2. Meanwhile /\ Returns("result")
    BY <1>1 DEF ReceiveResult, Select, Meanwhile, IInv, Types, Channels
  <1> QED
    BY <1>1, <1>2, LoginEnds DEF Errors

LEMMA ReceiveErrorInv == ASSUME IInv, ReceiveError PROVE IInv'
  <1>1. chan.error \in Errors /\ chan.error # "input"
    BY DEF ReceiveError, Select, IInv, Sent, Types, Channels
  <1>2. Meanwhile /\ Returns(chan.error)
    BY DEF ReceiveError, Select, Meanwhile, IInv, Types, Channels
  <1> QED
    BY <1>1, <1>2, LoginEnds DEF Errors

LEMMA ContextDoneInv == ASSUME IInv, ContextDone PROVE IInv'
  <1>1. Meanwhile /\ Returns("interrupted")
    BY DEF ContextDone, Select, Meanwhile, IInv, Types, Channels
  <1> QED
    BY <1>1, LoginEnds DEF Errors

LEMMA ReceiveInputInv == ASSUME IInv, ReceiveInput PROVE IInv'
  <1>1. ~Manual /\ flow.pc = "select" /\ Sent /\ flow \in Logins /\ chan \in Channels
        /\ UNCHANGED <<setting, tab, server, taken, reader, code, lines, faults, won>>
        /\ taken \in BOOLEAN /\ chan.input \in Inputs
    BY DEF ReceiveInput, Select, IInv, Types, Channels
  <1>2. CASE chan.result /\ Returns("result")
               /\ chan' = [chan EXCEPT !.input = Empty, !.result = FALSE]
    <2>1. Meanwhile /\ won
      BY <1>1, <1>2 DEF Meanwhile, Channels, Sent
    <2> QED
      BY <1>2, <2>1, LoginEnds DEF Errors
  <1>3. CASE chan.error # None /\ Returns(chan.error)
               /\ chan' = [chan EXCEPT !.input = Empty, !.error = None]
    <2>1. Meanwhile
      BY <1>1, <1>3 DEF Meanwhile, Channels
    <2>2. chan.error \in Errors /\ chan.error # "input"
      BY <1>1, <1>3 DEF Channels, Sent
    <2> QED
      BY <1>3, <2>1, <2>2, LoginEnds DEF Errors
  <1>4. CASE flow' \in {flow, [flow EXCEPT !.pc = "handling", !.msg = chan.input]}
               /\ chan' = [chan EXCEPT !.input = Empty]
    <2>1. Meanwhile
      BY <1>1, <1>4 DEF Meanwhile, Channels
    <2>2. /\ flow' \in Logins /\ flow'.outcome = flow.outcome
          /\ flow'.pc \in {"select", "handling"}
      BY <1>1, <1>4 DEF Logins
    <2> QED
      BY <2>1, <2>2, LoginGoesOn
  <1> QED
    BY <1>2, <1>3, <1>4 DEF ReceiveInput

LEMMA HandlePasteInv == ASSUME IInv, HandlePaste PROVE IInv'
  <1> DEFINE v == Verdict(flow.msg, PasteGuard)
  <1>1. ~Manual /\ ~Manual' /\ Deciding /\ Guarded /\ Sent /\ Types /\ flow.pc = "handling"
    BY DEF HandlePaste, IInv, Manual
  <1>2. /\ UNCHANGED <<setting, tab, server, chan, reader, code, lines, faults, won>>
        /\ flow \in Logins /\ flow.outcome = "none" /\ taken \in BOOLEAN /\ won \in BOOLEAN
    BY <1>1 DEF HandlePaste, Types, Sent
  <1>3. taken' \in BOOLEAN /\ (taken => taken')
    BY <1>2 DEF HandlePaste, Claims
  <1>4. Meanwhile
    BY <1>1, <1>2, <1>3 DEF Meanwhile, Types
  <1>5. CASE v = "exchange"
    <2>1. ~taken /\ taken'
      <3>1. flow.msg.kind # "exchange"
        BY <1>2, InputsOK, EmptyOK DEF Logins
      <3>2. flow.msg.kind = "complete" /\ ~taken
        BY <1>5, <3>1 DEF Verdict, PasteGuard
      <3> QED
        BY <3>2 DEF HandlePaste, Claims
    <2>2. flow' = [flow EXCEPT !.pc = "exchanging"]
      BY <1>5 DEF HandlePaste
    <2>3. flow' \in Logins /\ flow'.pc = "exchanging" /\ flow'.outcome = "none"
      BY <1>2, <2>2 DEF Logins
    <2>4. ~won /\ \A t \in Tabs : tab[t].pc # "exchange"
      BY <1>1, <2>1 DEF Guarded
    <2>5. Types' /\ Deciding' /\ Guarded'
      BY <1>1, <1>2, <1>3, <2>1, <2>3, <2>4 DEF Types, Deciding, Decides, Guarded
    <2>6. Sent'
      BY <1>1, <1>2, <2>3, <2>4 DEF Sent, ToldFailure
    <2> QED
      BY <1>1, <2>5, <2>6 DEF IInv
  <1>6. CASE v = "cancelled"
    <2>1. Returns("cancelled")
      BY <1>6 DEF HandlePaste
    <2> QED
      BY <1>4, <2>1, LoginEnds DEF Errors
  <1>7. CASE v \notin {"exchange", "cancelled"}
    <2>1. Rejects
      BY <1>7 DEF HandlePaste, Beaten, Rejects
    <2> QED
      BY <1>2, <1>4, <2>1, RejectsOK, LoginGoesOn
  <1> QED
    BY <1>5, <1>6, <1>7

LEMMA PasteExchangeEndsInv == ASSUME IInv, PasteExchangeEnds PROVE IInv'
  <1>1. ~Manual /\ ~Manual' /\ Deciding /\ Guarded /\ Sent /\ Types /\ flow.pc = "exchanging"
    BY DEF PasteExchangeEnds, IInv, Manual
  <1>2. /\ UNCHANGED <<tab, server, taken, chan, reader, lines>>
        /\ flow \in Logins /\ flow.outcome = "none"
        /\ taken /\ ~won /\ \A t \in Tabs : tab[t].pc \notin {"exchange", "succeeding"}
    BY <1>1 DEF PasteExchangeEnds, Types, Sent, Guarded
  <1>3. code' \in [Codes -> {"fresh", "spent"}] /\ faults' \in 0..Faults
    BY <1>1, LoginConstantsOK DEF PasteExchangeEnds, Succeeds, ExchangeFails, Types
  <1>4. CASE Returns("result") /\ won' = TRUE
    <2>1. flow' \in Logins /\ flow'.pc = "closing" /\ flow'.outcome = "result"
      BY <1>2, <1>4, ReturnsOK
    <2>2. Types' /\ Deciding' /\ Guarded'
      BY <1>1, <1>2, <1>3, <1>4, <2>1 DEF Types, Deciding, Decides, Guarded
    <2>3. Sent'
      BY <1>1, <1>2, <1>4, <2>1 DEF Sent, ToldFailure
    <2> QED
      BY <1>1, <2>2, <2>3 DEF IInv
  <1>5. CASE Rejects /\ won' = won
    <2>1. flow' \in Logins /\ flow'.pc = "select" /\ flow'.outcome = "none"
      BY <1>2, <1>5, RejectsOK
    <2>2. Types' /\ Deciding' /\ Guarded'
      BY <1>1, <1>2, <1>3, <1>5, <2>1 DEF Types, Deciding, Decides, Guarded
    <2>3. Sent'
      BY <1>1, <1>2, <1>5, <2>1 DEF Sent, ToldFailure
    <2> QED
      BY <1>1, <2>2, <2>3 DEF IInv
  <1> QED
    BY <1>4, <1>5 DEF PasteExchangeEnds, Succeeds, ExchangeFails

LEMMA JoinedInv == ASSUME IInv, Joined PROVE IInv'
  <1>1. /\ server' \in Servers /\ server'.mu = server.mu /\ server'.consumed = server.consumed
        /\ flow' \in Logins /\ flow.pc = "closing" /\ flow'.pc = "shutdown"
        /\ flow'.outcome = flow.outcome
    BY DEF Joined, IInv, Types, Logins, Servers
  <1>2. Types'
    BY <1>1 DEF Joined, IInv, Types
  <1> QED
    BY <1>1, <1>2, Elsewhere DEF Joined

LEMMA ShutdownInv == ASSUME IInv, Shutdown PROVE IInv'
  <1>1. /\ flow' \in Logins /\ flow.pc = "shutdown" /\ flow'.pc = "returned"
        /\ flow'.outcome = flow.outcome
    BY DEF Shutdown, IInv, Types, Logins
  <1>2. Types'
    BY <1>1 DEF Shutdown, IInv, Types
  <1> QED
    BY <1>1, <1>2, Elsewhere DEF Shutdown

LEMMA ManualLineInv == ASSUME IInv, NEW i \in Answers \cup Plain({"garbage", "closed"}),
                             ManualLine(i)
                      PROVE  IInv'
  <1>1. /\ Manual /\ Manual' /\ Alone /\ Types /\ flow \in Logins
        /\ flow.pc = "select" /\ flow.outcome = "none" /\ ~won
        /\ UNCHANGED <<tab, server, taken, chan, reader, code, faults, won>>
    BY DEF ManualLine, IInv, Manual, Alone, Types
  <1>2. lines' \in 0..Lines
    BY <1>1, LoginConstantsOK DEF ManualLine, Types
  <1>3. /\ flow' \in Logins
        /\ \/ flow'.pc \in {"select", "exchanging"} /\ flow'.outcome = flow.outcome
           \/ flow'.pc = "returned" /\ flow'.outcome # "result"
    <2>1. CASE i.kind = "closed"
      <3>1. flow.last # None => flow.last \in Errors
        BY <1>1 DEF Logins
      <3>2. \E how \in Errors : Ends(how)
        BY <2>1, <3>1 DEF ManualLine, Errors
      <3> QED
        BY <1>1, <3>2, EndsOK DEF Errors
    <2>2. CASE i.kind = "garbage"
      BY <1>1, <2>2, RefuseOK DEF ManualLine, Errors
    <2>3. CASE i.kind = "cancelled"
      BY <1>1, <2>3, EndsOK DEF ManualLine, Errors
    <2>4. CASE i.kind = "complete"
      <3>1. i \in Inputs
        BY LinesOK
      <3>2. flow' = [flow EXCEPT !.pc = "exchanging", !.msg = i]
        BY <2>4 DEF ManualLine
      <3> QED
        BY <1>1, <3>1, <3>2 DEF Logins
    <2>5. CASE i.kind \notin {"closed", "garbage", "cancelled", "complete"}
      <3>1. Refuse(Error(i))
        BY <2>5 DEF ManualLine
      <3>2. Error(i) \in Errors /\ Error(i) # "result"
        BY DEF Error, Errors
      <3> QED
        BY <1>1, <3>1, <3>2, RefuseOK
    <2> QED
      BY <2>1, <2>2, <2>3, <2>4, <2>5
  <1>4. Types'
    BY <1>1, <1>2, <1>3 DEF Types
  <1>5. Alone'
    BY <1>1, <1>3 DEF Alone
  <1> QED
    BY <1>1, <1>4, <1>5 DEF IInv

LEMMA ManualInterruptedInv == ASSUME IInv, ManualInterrupted PROVE IInv'
  <1>1. /\ Manual /\ Manual' /\ Alone /\ Types /\ ~won
        /\ Ends("interrupted")
    BY DEF ManualInterrupted, IInv, Manual, Alone
  <1>2. flow' \in Logins /\ flow'.pc = "returned" /\ flow'.outcome = "interrupted"
    BY <1>1, EndsOK DEF Types
  <1>3. Types' /\ Alone'
    BY <1>1, <1>2 DEF ManualInterrupted, Types, Alone
  <1> QED
    BY <1>1, <1>3 DEF IInv

LEMMA ManualExchangeEndsInv == ASSUME IInv, ManualExchangeEnds PROVE IInv'
  <1>1. /\ Manual /\ Manual' /\ Alone /\ Types /\ flow \in Logins
        /\ flow.pc = "exchanging" /\ flow.outcome = "none" /\ ~won
        /\ UNCHANGED <<tab, server, taken, chan, reader, lines>>
    BY DEF ManualExchangeEnds, IInv, Manual, Alone, Types
  <1>2. code' \in [Codes -> {"fresh", "spent"}] /\ faults' \in 0..Faults
    BY <1>1, LoginConstantsOK DEF ManualExchangeEnds, Succeeds, ExchangeFails, Types
  <1>3. CASE Ends("result") /\ won' = TRUE
    <2>1. flow' \in Logins /\ flow'.pc = "returned" /\ flow'.outcome = "result"
      BY <1>1, <1>3, EndsOK
    <2>2. Types' /\ Alone'
      BY <1>1, <1>2, <1>3, <2>1 DEF Types, Alone
    <2> QED
      BY <1>1, <2>2 DEF IInv
  <1>4. CASE Refuse("failed") /\ won' = won
    <2>1. /\ flow' \in Logins
          /\ \/ flow'.pc = "select" /\ flow'.outcome = "none"
             \/ flow'.pc = "returned" /\ flow'.outcome = "failed"
      BY <1>1, <1>4, RefuseOK DEF Errors
    <2>2. Types' /\ Alone'
      BY <1>1, <1>2, <1>4, <2>1 DEF Types, Alone
    <2> QED
      BY <1>1, <2>2 DEF IInv
  <1> QED
    BY <1>3, <1>4 DEF ManualExchangeEnds, Succeeds, ExchangeFails

-------------------------------------------------------------------------------
(* The theorems *)

LEMMA InitInv == Init => IInv
  <1> SUFFICES ASSUME Init
               PROVE  IInv
    OBVIOUS
  <1>1. flow \in Logins /\ flow.pc = "select" /\ flow.outcome = "none"
    BY LoginConstantsOK DEF Init, Logins
  <1>2. tab \in [Tabs -> Handlers] /\ \A t \in Tabs : tab[t].pc = "idle"
    BY DEF Init, Handlers
  <1>3. server \in Servers /\ chan \in Channels /\ reader \in Terminals
    BY DEF Init, Servers, Channels, Terminals
  <1>4. Types
    <2>1. lines \in 0..Lines /\ faults \in 0..Faults
      BY LoginConstantsOK DEF Init
    <2>2. code \in [Codes -> {"fresh", "spent"}] /\ taken \in BOOLEAN /\ won \in BOOLEAN
      BY DEF Init
    <2> QED
      BY <1>1, <1>2, <1>3, <2>1, <2>2 DEF Types
  <1>5. Alone
    BY <1>1, <1>2 DEF Init, Alone
  <1>6. Deciding /\ Guarded /\ Sent
    BY <1>1, <1>2, LoginConstantsOK
    DEF Init, Deciding, Decides, Guarded, Sent, ToldFailure, Failures, Errors
  <1> QED
    BY <1>4, <1>5, <1>6 DEF IInv

LEMMA StepInv == IInv /\ [Next]_vars => IInv'
  <1> SUFFICES ASSUME IInv, [Next]_vars
               PROVE  IInv'
    OBVIOUS
  <1>1. CASE UNCHANGED vars
    BY <1>1 DEF vars, IInv, Types, Manual, Alone, Deciding, Decides, Guarded, Sent, Clean,
                ToldFailure
  <1>2. ASSUME NEW t \in Tabs, Handle(t) \/ ExchangeEnds(t) \/ Report(t)
        PROVE  IInv'
    BY <1>2, HandleInv, ExchangeEndsInv, ReportInv
  <1>3. CASE Step
    BY <1>2, <1>3, ReaderStopsInv, DeliverInv, ReceiveResultInv, ReceiveErrorInv, ContextDoneInv,
       ReceiveInputInv, HandlePasteInv, PasteExchangeEndsInv, JoinedInv, ShutdownInv,
       ManualInterruptedInv, ManualExchangeEndsInv
    DEF Step
  <1> QED
    BY <1>1, <1>3, ArriveInv, ReadLineInv, ManualLineInv, ServeFailsInv, InterruptInv DEF Next

LEMMA Inductive == Spec => []IInv
  BY InitInv, StepInv, PTL DEF Spec

\* The types.
THEOREM TypeCorrect == Spec => []TypeOK
  <1>1. IInv => TypeOK
    BY DEF IInv, Types, TypeOK, Logins, Handlers, Servers, Channels, Terminals
  <1> QED
    BY <1>1, Inductive, PTL

\* exchangeGuard.claim: the handlers, however many, and the paste route start
\* one exchange in all, because the guard is never given back.
THEOREM OneExchangeHolds == Spec => []OneExchange
  <1>1. IInv => OneExchange
    <2> SUFFICES ASSUME IInv, ~Manual
                 PROVE  /\ \A t, u \in Exchanging : t = u
                        /\ Exchanging # {} => ~won /\ flow.pc # "exchanging"
                        /\ flow.pc = "exchanging" => ~won
      BY DEF OneExchange
    <2>1. Deciding /\ Guarded
      BY DEF IInv
    <2> QED
      BY <2>1 DEF Exchanging, Deciding, Decides, Guarded
  <1> QED
    BY <1>1, Inductive, PTL

\* awaitCallbackOrPaste and handlePaste: a token on its way is not covered by
\* the failure of the other route or of a later request.
THEOREM NoFalseFailureHolds == Spec => []NoFalseFailure
  <1>1. IInv => NoFalseFailure
    BY DEF IInv, NoFalseFailure, Alone, Sent, Clean
  <1> QED
    BY <1>1, Inductive, PTL

===============================================================================
