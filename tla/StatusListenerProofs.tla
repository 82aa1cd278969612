------------------------ MODULE StatusListenerProofs ------------------------
(***************************************************************************)
(* What StatusListener keeps to, for any number of messages, resources and *)
(* reports: the mails about a resource form a chain that ends in its       *)
(* status, and a source follows what changed last, as long as no handlers  *)
(* overlap and nothing fails. HandlerOK is what makes this inductive.      *)
(***************************************************************************)
EXTENDS StatusListener, TLAPS

\* Where a resource belongs.
LEMMA SourceType ==
    ASSUME ListenerAssumption, NEW x \in Resources
    PROVE  SourceFor(x) \in Sources
BY DEF ListenerAssumption, SourceFor, Resources

\* The status is one the mails are about.
LEMMA ToldType ==
    ASSUME ListenerAssumption, TypeOK, NEW x \in Resources
    PROVE  Told(x) \in Statuses
<1>1. mails[x] \in Seq(Change)
  BY DEF TypeOK
<1>2. CASE mails[x] = <<>>
  BY <1>2 DEF Told, ListenerAssumption
<1>3. CASE mails[x] # <<>>
  <2>1. Len(mails[x]) \in 1..Len(mails[x])
    BY <1>1, <1>3
  <2>2. mails[x][Len(mails[x])] \in Change
    BY <1>1, <2>1
  <2> QED BY <1>3, <2>2 DEF Told, Change
<1> QED BY <1>2, <1>3

\* A busy handler has a report, about a resource and with a status.
LEMMA ReportType ==
    ASSUME ListenerAssumption, TypeOK, NEW m \in Messages,
           report[m] # Nil
    PROVE  report[m] \in Reports /\ report[m].id \in Resources
BY DEF TypeOK, ListenerAssumption

\* A change that begins where the chain ends makes it longer.
LEMMA ChainGrows ==
    ASSUME NEW S, NEW c \in Seq(S), Chain(c), NEW e \in S,
           e.from # e.to,
           e.from = IF c = <<>> THEN Initial ELSE c[Len(c)].to
    PROVE  /\ Chain(Append(c, e)) /\ Append(c, e) # <<>>
           /\ Append(c, e)[Len(Append(c, e))] = e
<1> DEFINE d == Append(c, e)
<1>1. /\ Len(d) = Len(c) + 1 /\ Len(c) \in Nat /\ d # <<>>
      /\ d[Len(c) + 1] = e
      /\ \A i \in 1..Len(c) : d[i] = c[i]
  BY SMTT(30)
<1>2. c = <<>> <=> Len(c) = 0
  OBVIOUS
<1>3. SUFFICES ASSUME NEW i \in 1..Len(d)
              PROVE  /\ d[i].from = IF i = 1 THEN Initial ELSE d[i - 1].to
                     /\ d[i].from # d[i].to
  BY <1>1 DEF Chain
<1> HIDE DEF d
<1>4. CASE i = Len(c) + 1
  <2>1. d[i] = e
    BY <1>1, <1>4
  <2>2. CASE i = 1
    BY <1>2, <1>4, <2>1, <2>2
  <2>3. CASE i # 1
    <3>1. i - 1 = Len(c) /\ Len(c) \in 1..Len(c) /\ c # <<>>
      BY <1>1, <1>2, <1>4, <2>3
    <3>2. d[i - 1] = c[Len(c)]
      BY <1>1, <3>1
    <3> QED BY <2>1, <2>3, <3>1, <3>2
  <2> QED BY <2>2, <2>3
<1>5. CASE i \in 1..Len(c)
  <2>1. c[i].from # c[i].to /\ d[i] = c[i]
    BY <1>1, <1>5 DEF Chain
  <2>2. c[i].from = IF i = 1 THEN Initial ELSE c[i - 1].to
    BY <1>5 DEF Chain
  <2>3. i # 1 => d[i - 1] = c[i - 1]
    BY <1>1, <1>5
  <2> QED BY <2>1, <2>2, <2>3
<1> QED BY <1>1, <1>3, <1>4, <1>5

-----------------------------------------------------------------------------
\* At the start nothing was mailed and nobody handles anything.
LEMMA InitOK == ASSUME ListenerAssumption, Init PROVE ListenerInv
<1>1. TypeOK
  <2>1. NoEvent \in Event
    BY DEF NoEvent, Event
  <2>2. <<>> \in Seq(Event) /\ <<>> \in Seq(Change)
    OBVIOUS
  <2>3. mails \in [Resources -> Seq(Change)] /\ stream \in [Resources -> Seq(Event)]
    BY <2>2 DEF Init
  <2> QED BY <2>1, <2>3 DEF Init, TypeOK, ListenerAssumption, Busy, Ended
<1>2. \A m \in Messages : pc[m] \notin Busy
  BY DEF Init, Busy
<1>3. MailsChain
  <2>1. \A x \in Apps \cup Endpoints : mails[x] = <<>> /\ status[x] = Initial
    BY DEF Init, Resources
  <2> QED BY <2>1 DEF MailsChain, Told, Chain
<1>4. SourceFollows
  <2>1. \A s \in Sources : latest[s] = Initial /\ status[s] = Initial
    BY DEF Init, Resources
  <2> QED BY <2>1 DEF SourceFollows
<1>5. clean => live = Resources
  BY DEF Init
<1> QED BY <1>1, <1>2, <1>3, <1>4, <1>5 DEF ListenerInv

\* A step of a handler is its own: the others stay where they are, and no row
\* is removed.
LEMMA StepFacts ==
    ASSUME ListenerAssumption, TypeOK, NEW m \in Messages, Step(m)
    PROVE  /\ pc[m] \in Busy
           /\ live' = live /\ report' = report /\ serial' = serial /\ clean' = clean
           /\ \A n \in Messages \ {m} :
                /\ pc'[n] = pc[n] /\ prev'[n] = prev[n] /\ record'[n] = record[n]
                /\ payload'[n] = payload[n]
<1> USE DEF Go, data, sent, Busy, TypeOK
<1>1. CASE ReadPrevious(m)
  BY <1>1 DEF ReadPrevious
<1>2. CASE Update(m)
  BY <1>2 DEF Update
<1>3. CASE Reread(m)
  BY <1>3 DEF Reread
<1>4. CASE ReadApplication(m)
  BY <1>4 DEF ReadApplication
<1>5. CASE Propagate(m)
  BY <1>5 DEF Propagate
<1>6. CASE Mail(m)
  BY <1>6 DEF Mail
<1>7. CASE BuildUpdate(m)
  BY <1>7 DEF BuildUpdate
<1>8. CASE BuildRecords(m)
  BY <1>8 DEF BuildRecords
<1>9. CASE Publish(m)
  BY <1>9 DEF Publish
<1> QED BY <1>1, <1>2, <1>3, <1>4, <1>5, <1>6, <1>7, <1>8, <1>9 DEF Step

\* Types, and what the next statement needs.
LEMMA StepTypes ==
    ASSUME ListenerAssumption, TypeOK, NEW m \in Messages, Step(m), ReportOK(m)
    PROVE  TypeOK' /\ (pc'[m] \in Busy => ReportOK(m)')
<1> DEFINE x == report[m].id
<1>1. /\ report[m] \in Reports /\ x \in Resources
      /\ report[m].status \in Statuses /\ status[x] \in Statuses
      /\ SourceFor(x) \in Sources /\ Sources \subseteq Resources
      /\ Nil \notin Statuses \cup Resources
  BY ReportType, SourceType DEF ReportOK, TypeOK, ListenerAssumption, Resources
<1>2. /\ live \subseteq Resources
      /\ status \in [Resources -> Statuses]
      /\ pc \in [Messages -> Busy \cup Ended \cup {"idle"}]
      /\ report \in [Messages -> Reports \cup {Nil}]
      /\ prev \in [Messages -> Statuses \cup {Nil}]
      /\ record \in [Messages -> Statuses \cup {Nil}]
      /\ payload \in [Messages -> Event]
      /\ stream \in [Resources -> Seq(Event)]
      /\ mails \in [Resources -> Seq(Change)]
      /\ latest \in [Sources -> Statuses]
      /\ serial \in BOOLEAN
      /\ clean \in BOOLEAN
  BY DEF TypeOK
<1> USE DEF Go, data, sent, Busy, Ended
<1>3. CASE ReadPrevious(m)
  <2>1. /\ prev' \in [Messages -> Statuses \cup {Nil}]
        /\ pc'[m] = "update" => prev'[m] = status[x]
    BY ZenonT(30), <1>1, <1>2, <1>3 DEF ReadPrevious
  <2>2. pc' \in [Messages -> Busy \cup Ended \cup {"idle"}] /\ pc'[m] \in {"update", "done"}
    BY <1>2, <1>3 DEF ReadPrevious
  <2>3. UNCHANGED <<live, status, report, record, payload, mails, latest, stream, serial, clean>>
    BY <1>3 DEF ReadPrevious
  <2>4. TypeOK'
    BY <1>2, <2>1, <2>2, <2>3 DEF TypeOK
  <2> QED BY <1>1, <2>1, <2>2, <2>3, <2>4 DEF ReportOK
<1>4. CASE Update(m)
  <2>1. status' \in [Resources -> Statuses]
    BY <1>1, <1>2, <1>4 DEF Update
  <2>2. pc' \in [Messages -> Busy \cup Ended \cup {"idle"}] /\ pc'[m] \in {"reread", "done"}
    BY <1>2, <1>4 DEF Update
  <2>3. UNCHANGED <<live, report, prev, record, payload, mails, latest, stream, serial, clean>>
    BY <1>4 DEF Update
  <2>4. TypeOK'
    BY <1>2, <2>1, <2>2, <2>3 DEF TypeOK
  <2>5. pc[m] = "update"
    BY <1>4 DEF Update
  <2> QED BY <2>2, <2>3, <2>4, <2>5 DEF ReportOK
<1>5. CASE Reread(m)
  BY <1>1, <1>2, <1>5 DEF Reread, TypeOK, ReportOK
<1>6. CASE ReadApplication(m)
  <2> DEFINE e == [NoEvent EXCEPT !.status = status[x]]
  <2>1. e \in Event /\ e.status = status[x]
    BY <1>1 DEF NoEvent, Event
  <2>2. payload' = [payload EXCEPT ![m] = e]
    BY <1>6 DEF ReadApplication
  <2> HIDE DEF e
  <2>3. payload' \in [Messages -> Event] /\ payload'[m].status = status[x]
    BY <1>2, <2>1, <2>2
  <2> QED BY <1>1, <1>2, <1>6, <2>3 DEF ReadApplication, TypeOK, ReportOK
<1>7. CASE Propagate(m)
  <2>1. payload[m].status \in Statuses
    BY <1>2, <1>7 DEF Propagate, ReportOK, Event
  <2> QED BY <1>1, <1>2, <1>7, <2>1 DEF Propagate, TypeOK, ReportOK
<1>8. CASE Mail(m)
  <2> DEFINE e == [from |-> prev[m], to |-> record[m]]
  <2>1. e \in Change /\ record[m] \in Statuses
    BY <1>2, <1>8 DEF Mail, ReportOK, Change
  <2> HIDE DEF e
  <2>2. Append(mails[x], e) \in Seq(Change)
    BY <1>1, <1>2, <2>1
  <2>3. mails' = [mails EXCEPT ![x] = Append(mails[x], e)]
    BY <1>8 DEF Mail, e
  <2>4. mails' \in [Resources -> Seq(Change)]
    BY <1>1, <1>2, <2>2, <2>3
  <2>5. latest' \in [Sources -> Statuses]
    BY <1>1, <1>2, <1>8, <2>1 DEF Mail
  <2> QED BY <1>1, <1>2, <1>8, <2>4, <2>5 DEF Mail, TypeOK, ReportOK
<1>9. CASE BuildUpdate(m)
  <2>1. [kind |-> "update", about |-> IF x \in live THEN x ELSE Nil,
         status |-> IF x \in live THEN status[x] ELSE Nil] \in Event
    BY <1>1 DEF Event
  <2> QED BY <1>1, <1>2, <1>9, <2>1 DEF BuildUpdate, TypeOK, ReportOK
<1>10. CASE BuildRecords(m)
  <2>1. CASE payload' = payload
    BY <1>1, <1>2, <1>10, <2>1 DEF BuildRecords, TypeOK, ReportOK
  <2>2. CASE payload' # payload
    <3>1. PICK s \in Sources :
            payload' = [payload EXCEPT ![m] =
                          [kind |-> "records", about |-> s, status |-> status[s]]]
      BY ZenonT(30), <1>1, <1>10, <2>2 DEF BuildRecords
    <3>2. [kind |-> "records", about |-> s, status |-> status[s]] \in Event
      BY <1>1, <1>2 DEF Event
    <3>3. payload' \in [Messages -> Event]
      BY <1>2, <3>1, <3>2
    <3> QED BY <1>1, <1>2, <1>10, <3>3 DEF BuildRecords, TypeOK, ReportOK
  <2> QED BY <2>1, <2>2
<1>11. CASE Publish(m)
  <2>1. Append(stream[x], payload[m]) \in Seq(Event)
    BY <1>1, <1>2
  <2>2. stream' \in [Resources -> Seq(Event)]
    BY <1>1, <1>2, <1>11, <2>1 DEF Publish
  <2> QED BY <1>1, <1>2, <1>11, <2>2 DEF Publish, TypeOK, ReportOK
<1> QED BY <1>3, <1>4, <1>5, <1>6, <1>7, <1>8, <1>9, <1>10, <1>11 DEF Step

-----------------------------------------------------------------------------
\* When only m is busy, what is being changed is what m changes.
LEMMA Narrow ==
    ASSUME NEW m \in Messages, \A n \in Messages \ {m} : pc[n] \notin Busy
    PROVE  /\ \A x : (\A n \in Messages : ~Changing(n, x)) <=> ~Changing(m, x)
           /\ \A s : (\A n \in Messages, x \in Sources \cup Apps :
                        Changing(n, x) => SourceFor(x) # s)
                     <=> \A x \in Sources \cup Apps : Changing(m, x) => SourceFor(x) # s
BY DEF Changing, Busy

LEMMA NarrowNext ==
    ASSUME NEW m \in Messages, \A n \in Messages \ {m} : pc'[n] \notin Busy
    PROVE  /\ \A x : (\A n \in Messages : ~Changing(n, x)') <=> ~Changing(m, x)'
           /\ \A s : (\A n \in Messages, x \in Sources \cup Apps :
                        Changing(n, x)' => SourceFor(x) # s)
                     <=> \A x \in Sources \cup Apps : Changing(m, x)' => SourceFor(x) # s
BY DEF Changing, Busy

\* A step that changes no status and sends no mail, and forgets no change that
\* is still to be mailed.
LEMMA QuietStep ==
    ASSUME MailsChain, SourceFollows, serial, clean,
           NEW m \in Messages,
           \A n \in Messages \ {m} : pc[n] \notin Busy /\ pc'[n] = pc[n],
           report' = report, status' = status, mails' = mails, latest' = latest,
           pc[m] \in {"reread", "application", "propagate", "mail"} =>
              \/ pc'[m] \in {"reread", "application", "propagate", "mail"}
              \/ LET x == report[m].id
                 IN  /\ x \in Apps \cup Endpoints => status[x] = Told(x)
                     /\ x \in Sources \cup Apps /\ SourceFor(x) \notin UserOwned =>
                           status[SourceFor(x)] = latest[SourceFor(x)]
    PROVE  MailsChain' /\ SourceFollows'
<1>1. \A x : Told(x)' = Told(x) /\ (Changing(m, x)' => pc'[m] \in {"reread", "application", "propagate", "mail"} /\ report[m].id = x)
  BY DEF Told, Changing
<1>2. MailsChain'
  <2>1. ASSUME NEW x \in Apps \cup Endpoints PROVE Chain(mails'[x])
    BY DEF MailsChain
  <2>2. ASSUME NEW x \in Apps \cup Endpoints, ~Changing(m, x)'
        PROVE  status[x] = Told(x)
    BY <2>2, Narrow DEF MailsChain, Changing
  <2>3. ASSUME NEW x \in Apps \cup Endpoints, \A n \in Messages : ~Changing(n, x)'
        PROVE  status'[x] = Told(x)'
    BY <1>1, <2>2, <2>3
  <2> QED BY <2>1, <2>3 DEF MailsChain, Chain
<1>3. SourceFollows'
  <2>1. ASSUME NEW s \in Sources \ UserOwned,
               \A x \in Sources \cup Apps : Changing(m, x)' => SourceFor(x) # s
        PROVE  status[s] = latest[s]
    BY <2>1, Narrow DEF SourceFollows, Changing
  <2>2. ASSUME NEW s \in Sources \ UserOwned,
               \A n \in Messages, x \in Sources \cup Apps : Changing(n, x)' => SourceFor(x) # s
        PROVE  status'[s] = latest'[s]
    BY <2>1, <2>2
  <2> QED BY <2>2 DEF SourceFollows, SourceFor
<1> QED BY <1>2, <1>3

\* The handler that works alone: what it knows stays so from statement to
\* statement, and mails and sources agree with the rows around it.
LEMMA AloneStep ==
    ASSUME ListenerAssumption, ListenerInv, NEW m \in Messages, Step(m), serial, clean
    PROVE  /\ pc'[m] \in Busy => HandlerOK(m)'
           /\ MailsChain' /\ SourceFollows'
<1> DEFINE x == report[m].id
           s == SourceFor(x)
<1>1. /\ pc[m] \in Busy /\ report' = report /\ live' = live
      /\ \A n \in Messages \ {m} : pc[n] \notin Busy /\ pc'[n] = pc[n]
  BY StepFacts DEF ListenerInv
<1>2. /\ TypeOK /\ HandlerOK(m) /\ ReportOK(m) /\ live = Resources
      /\ MailsChain /\ SourceFollows
  BY <1>1 DEF ListenerInv
<1>3. /\ report[m] \in Reports /\ x \in Resources
      /\ report[m].status \in Statuses /\ s \in Sources
      /\ x \in Sources => s = x
  BY <1>2, ReportType, SourceType DEF ReportOK, SourceFor
<1>4. /\ status \in [Resources -> Statuses]
      /\ prev \in [Messages -> Statuses \cup {Nil}]
      /\ record \in [Messages -> Statuses \cup {Nil}]
      /\ payload \in [Messages -> Event]
      /\ pc \in [Messages -> Busy \cup Ended \cup {"idle"}]
      /\ latest \in [Sources -> Statuses]
      /\ mails \in [Resources -> Seq(Change)]
  BY <1>2 DEF TypeOK
<1>5. /\ Sources \cap Apps = {} /\ Sources \cap Endpoints = {} /\ Sources \cap Auths = {}
      /\ Apps \cap Auths = {} /\ Endpoints \cap Auths = {} /\ Apps \cap Endpoints = {}
      /\ Sources \cup Apps \cup Endpoints \subseteq Resources
  BY DEF ListenerAssumption, Resources
\* What is settled when no change of x is under way.
<1>6. ~Changing(m, x) =>
        /\ x \in Apps \cup Endpoints => status[x] = Told(x)
        /\ x \in Sources \cup Apps /\ s \notin UserOwned => status[s] = latest[s]
  <2>1. ASSUME ~Changing(m, x), x \in Apps \cup Endpoints PROVE status[x] = Told(x)
    BY <1>1, <1>2, <2>1, Narrow DEF MailsChain
  <2>2. ASSUME ~Changing(m, x), s \notin UserOwned PROVE status[s] = latest[s]
    BY <1>1, <1>2, <1>3, <2>2, Narrow DEF SourceFollows, Changing
  <2> QED BY <2>1, <2>2
<1>7. CASE ReadPrevious(m)
  <2>1. /\ status' = status /\ mails' = mails /\ latest' = latest
        /\ pc[m] = "previous"
        /\ \/ pc'[m] = "update" /\ prev'[m] = status[x] /\ Visible(x)
           \/ pc'[m] = "done"
    BY <1>4, <1>7 DEF ReadPrevious, data, sent, Go
  <2>2. pc'[m] \in Busy => HandlerOK(m)'
    BY <1>1, <2>1 DEF HandlerOK, Changing, Visible, Busy
  <2> QED BY <1>1, <1>2, <2>1, <2>2, QuietStep
<1>8. CASE Update(m)
  <2>1. /\ status' = [status EXCEPT ![x] = report[m].status]
        /\ mails' = mails /\ latest' = latest /\ prev' = prev
        /\ pc[m] = "update" /\ pc'[m] = "reread"
    BY <1>2, <1>3, <1>4, <1>8 DEF Update, sent, Go
  <2>2. /\ Visible(x) /\ prev[m] = status[x] /\ ~Changing(m, x)
    BY <1>2, <2>1 DEF HandlerOK, Changing
  <2>3. /\ x \in Apps \cup Endpoints => Told(x) = prev[m]
        /\ x \in Sources => latest[x] = prev[m]
        /\ x \in Apps /\ s \notin UserOwned => status[s] = latest[s]
    BY <1>3, <1>6, <2>2 DEF Visible
  <2>4. \A y : Told(y)' = Told(y)
    BY <2>1 DEF Told
  <2>5. HandlerOK(m)'
    <3>1. status'[x] = report[m].status
      BY <1>3, <1>4, <2>1
    <3>2. x \in Apps => status'[s] = status[s]
      BY <1>3, <1>4, <1>5, <2>1
    <3>3. Visible(x)'
      BY <1>1, <2>2 DEF Visible
    <3> QED BY <1>1, <2>1, <2>3, <2>4, <3>1, <3>2, <3>3 DEF HandlerOK
  <2>6. pc'[m] = "reread" /\ report'[m].id = x
    BY <1>1, <2>1
  <2>7. MailsChain'
    <3>1. ASSUME NEW y \in Apps \cup Endpoints, \A n \in Messages : ~Changing(n, y)'
          PROVE  status'[y] = Told(y)'
      <4>1. y # x /\ ~Changing(m, y)
        <5> HIDE DEF x
        <5> QED BY <2>1, <2>6, <3>1 DEF Changing
      <4>2. status[y] = Told(y)
        BY <1>1, <1>2, <4>1, Narrow DEF MailsChain
      <4> QED BY <1>4, <1>5, <2>1, <2>4, <4>1, <4>2
    <3>2. \A y \in Apps \cup Endpoints : Chain(mails'[y])
      BY <1>2, <2>1 DEF MailsChain
    <3> QED BY <3>1, <3>2 DEF MailsChain, Chain
  <2>8. SourceFollows'
    <3>1. ASSUME NEW t \in Sources \ UserOwned,
                 \A n \in Messages, y \in Sources \cup Apps : Changing(n, y)' => SourceFor(y) # t
          PROVE  status'[t] = latest'[t]
      <4>1. t # x
        <5> HIDE DEF x, s
        <5>1. x \in Sources => SourceFor(x) = x
          BY DEF SourceFor
        <5> QED BY <2>6, <3>1, <5>1 DEF Changing
      <4>2. status[t] = latest[t]
        <5>1. \A n \in Messages : \A y : ~Changing(n, y)
          BY <1>1, <2>1, Narrow DEF Changing
        <5> QED BY <1>2, <5>1 DEF SourceFollows
      <4> QED BY <1>4, <1>5, <2>1, <4>1, <4>2
    <3> QED BY <3>1 DEF SourceFollows, SourceFor
  <2> QED BY <2>5, <2>7, <2>8
<1>9. CASE Reread(m)
  <2>1. /\ status' = status /\ mails' = mails /\ latest' = latest /\ prev' = prev
        /\ pc[m] = "reread"
        /\ record'[m] = IF x \in Auths THEN report[m].status ELSE status[x]
        /\ pc'[m] = IF ~Visible(IF x \in Auths THEN SourceOf[x] ELSE x) THEN "done"
                    ELSE IF prev[m] = report[m].status THEN "build"
                    ELSE IF x \in Apps THEN "application" ELSE "mail"
    BY <1>4, <1>9 DEF Reread, data, sent, Go
  <2>2. Changing(m, x) /\ Visible(x)
    BY <1>2, <2>1 DEF HandlerOK, Changing
  <2>3. \A y : Told(y)' = Told(y)
    BY <2>1 DEF Told
  <2>4. /\ status[x] = report[m].status
        /\ x \in Apps \cup Endpoints => Told(x) = prev[m]
        /\ x \in Sources => latest[x] = prev[m]
        /\ x \in Apps /\ s \notin UserOwned => status[s] = latest[s]
    BY <1>2, <2>1, <2>2 DEF HandlerOK
  <2>5. pc'[m] \in Busy => HandlerOK(m)'
    <3>1. record'[m] = report[m].status
      BY <2>1, <2>4
    <3>2. pc'[m] \in {"done", "build", "application", "mail"} /\ (pc'[m] = "mail" => x \notin Apps)
      BY <2>1
    <3>3. pc'[m] \in {"application", "mail"} => report[m].status # prev[m]
      BY <2>1
    <3>4. Visible(x)'
      BY <1>1, <2>2 DEF Visible
    <3> QED BY <1>1, <2>1, <2>3, <2>4, <3>1, <3>2, <3>3, <3>4 DEF HandlerOK, Changing, Busy
  <2>6. pc'[m] \notin {"reread", "application", "propagate", "mail"} =>
          /\ x \in Apps \cup Endpoints => status[x] = Told(x)
          /\ x \in Sources \cup Apps /\ s \notin UserOwned => status[s] = latest[s]
    <3>1. x \notin Auths => pc'[m] # "done"
      BY <2>1, <2>2
    <3>2. pc'[m] = "build" => prev[m] = report[m].status
      BY <2>1
    <3>3. pc'[m] \in {"done", "build", "application", "mail"}
      BY <2>1
    <3> QED BY <1>3, <1>5, <2>4, <3>1, <3>2, <3>3
  <2> QED BY <1>1, <1>2, <2>1, <2>5, <2>6, QuietStep
<1>10. CASE ReadApplication(m)
  <2>1. /\ status' = status /\ mails' = mails /\ latest' = latest /\ prev' = prev
        /\ record' = record
        /\ pc[m] = "application"
        /\ payload'[m] = [NoEvent EXCEPT !.status = status[x]]
        /\ pc'[m] = IF prev[m] = status[x] THEN "mail" ELSE "propagate"
    BY <1>2, <1>3, <1>4, <1>10 DEF ReadApplication, data, sent, Go
  <2>2. payload'[m].status = status[x]
    BY <2>1 DEF NoEvent
  <2>3. Changing(m, x) /\ Visible(x)
    BY <1>2, <2>1 DEF HandlerOK, Changing
  <2>4. \A y : Told(y)' = Told(y)
    BY <2>1 DEF Told
  <2>5. /\ status[x] = report[m].status
        /\ x \in Apps \cup Endpoints => Told(x) = prev[m]
        /\ x \in Sources => latest[x] = prev[m]
        /\ x \in Apps /\ s \notin UserOwned => status[s] = latest[s]
        /\ record[m] = report[m].status /\ record[m] # prev[m]
    BY <1>2, <2>1, <2>3 DEF HandlerOK
  <2>6. pc'[m] = "propagate"
    BY <2>1, <2>5
  <2>7. Visible(x)'
    BY <1>1, <2>3 DEF Visible
  <2>8. HandlerOK(m)'
    BY <1>1, <2>1, <2>2, <2>4, <2>5, <2>6, <2>7 DEF HandlerOK, Changing
  <2> QED BY <1>1, <1>2, <2>1, <2>6, <2>8, QuietStep
<1>11. CASE Propagate(m)
  <2>1. /\ status' = IF s \notin UserOwned THEN [status EXCEPT ![s] = payload[m].status]
                                           ELSE status
        /\ mails' = mails /\ latest' = latest /\ prev' = prev /\ record' = record
        /\ pc[m] = "propagate" /\ pc'[m] = "mail"
        /\ x \in Apps /\ x \notin Sources /\ s \in live
    <3>1. pc[m] = "propagate" /\ x \in Apps /\ x \notin Sources
      BY <1>2, <1>5, <1>11 DEF Propagate, ReportOK
    <3>2. s = SourceOf[x] /\ s \in live
      BY <1>2, <1>3, <1>5, <3>1 DEF SourceFor
    <3> QED BY <1>4, <1>11, <3>1, <3>2 DEF Propagate, sent, Go, Visible
  <2>2. Changing(m, x) /\ Visible(x)
    BY <1>2, <2>1 DEF HandlerOK, Changing
  <2>3. \A y : Told(y)' = Told(y)
    BY <2>1 DEF Told
  <2>4. /\ status[x] = report[m].status
        /\ Told(x) = prev[m]
        /\ record[m] = report[m].status /\ record[m] # prev[m]
        /\ payload[m].status = record[m]
    BY <1>2, <2>1, <2>2 DEF HandlerOK
  <2>5. \A y \in Resources : y # s => status'[y] = status[y]
    BY <1>4, <2>1
  <2>6. HandlerOK(m)'
    <3>1. status'[x] = report[m].status
      BY <1>3, <2>1, <2>4, <2>5
    <3>2. s \notin UserOwned => status'[s] = record[m]
      BY <1>3, <1>4, <1>5, <2>1, <2>4
    <3>3. Visible(x)'
      BY <1>1, <2>2 DEF Visible
    <3> QED BY <1>1, <2>1, <2>3, <2>4, <3>1, <3>2, <3>3 DEF HandlerOK
  <2>7. pc'[m] = "mail" /\ report'[m].id = x
    BY <1>1, <2>1
  <2>8. MailsChain'
    <3>1. ASSUME NEW y \in Apps \cup Endpoints, \A n \in Messages : ~Changing(n, y)'
          PROVE  status'[y] = Told(y)'
      <4>1. y # x /\ ~Changing(m, y)
        <5>1. report[m].id = x
          OBVIOUS
        <5> HIDE DEF x
        <5> QED BY <2>1, <2>7, <3>1, <5>1 DEF Changing
      <4>2. status[y] = Told(y)
        BY <1>1, <1>2, <4>1, Narrow DEF MailsChain
      <4>3. y \in Resources /\ y # s
        BY <1>3, <1>5
      <4> QED BY <2>3, <2>5, <4>2, <4>3
    <3>2. \A y \in Apps \cup Endpoints : Chain(mails'[y])
      BY <1>2, <2>1 DEF MailsChain
    <3> QED BY <3>1, <3>2 DEF MailsChain, Chain
  <2>9. SourceFollows'
    <3>1. ASSUME NEW t \in Sources \ UserOwned,
                 \A n \in Messages, y \in Sources \cup Apps : Changing(n, y)' => SourceFor(y) # t
          PROVE  status'[t] = latest'[t]
      <4>1. t # s
        <5> HIDE DEF x
        <5>1. SourceFor(x) # t
          BY <2>1, <2>7, <3>1 DEF Changing
        <5> QED BY <5>1
      <4>2. status[t] = latest[t]
        <5>1. \A y \in Sources \cup Apps : Changing(m, y) => SourceFor(y) # t
          BY <4>1 DEF Changing
        <5> QED BY <1>1, <1>2, <5>1, Narrow DEF SourceFollows
      <4> QED BY <1>5, <2>1, <2>5, <4>1, <4>2
    <3> QED BY <3>1 DEF SourceFollows, SourceFor
  <2> QED BY <2>6, <2>8, <2>9
<1>12. CASE Mail(m)
  <2> DEFINE e == [from |-> prev[m], to |-> record[m]]
  <2>1. /\ status' = status
        /\ mails' = [mails EXCEPT ![x] = Append(mails[x], e)]
        /\ latest' = IF x \in Sources \cup Apps THEN [latest EXCEPT ![s] = record[m]] ELSE latest
        /\ pc[m] = "mail" /\ pc'[m] = "build"
    BY <1>4, <1>12 DEF Mail, Go
  <2>2. Changing(m, x) /\ Visible(x)
    BY <1>2, <2>1 DEF HandlerOK, Changing
  <2>3. /\ status[x] = report[m].status
        /\ x \in Apps \cup Endpoints => Told(x) = prev[m]
        /\ record[m] = report[m].status /\ record[m] # prev[m]
        /\ x \in Apps /\ s \notin UserOwned => status[s] = record[m]
    BY <1>2, <2>1, <2>2 DEF HandlerOK
  <2>4. HandlerOK(m)'
    BY <1>1, <2>1, <2>2 DEF HandlerOK, Changing, Visible
  <2>5. e \in Change /\ e.from = prev[m] /\ e.to = record[m]
    BY <1>2, <1>4, <2>1 DEF ReportOK, Change
  <2> HIDE DEF e
  <2>6. mails'[x] = Append(mails[x], e) /\ mails[x] \in Seq(Change)
    BY <1>3, <1>4, <2>1
  <2>7. \A y \in Resources : y # x => mails'[y] = mails[y]
    BY <1>4, <2>1
  <2>8. x \in Apps \cup Endpoints =>
          Chain(mails'[x]) /\ mails'[x] # <<>> /\ mails'[x][Len(mails'[x])] = e
    <3>1. SUFFICES ASSUME x \in Apps \cup Endpoints
                   PROVE  Chain(mails'[x]) /\ mails'[x] # <<>> /\ mails'[x][Len(mails'[x])] = e
      OBVIOUS
    <3>2. Chain(mails[x])
      BY <1>2, <3>1 DEF MailsChain
    <3>3. e.from = IF mails[x] = <<>> THEN Initial ELSE mails[x][Len(mails[x])].to
      BY <2>3, <2>5, <3>1 DEF Told
    <3> HIDE DEF x
    <3> QED BY <2>3, <2>5, <2>6, <3>2, <3>3, ChainGrows
  <2>9. MailsChain'
    <3>1. ASSUME NEW y \in Apps \cup Endpoints, y # x, \A n \in Messages : ~Changing(n, y)'
          PROVE  status'[y] = Told(y)'
      <4>1. ~Changing(m, y)
        BY <3>1 DEF Changing
      <4>2. status[y] = Told(y)
        BY <1>1, <1>2, <4>1, Narrow DEF MailsChain
      <4>3. mails'[y] = mails[y]
        BY <1>5, <2>7, <3>1
      <4> QED BY <2>1, <4>2, <4>3 DEF Told
    <3>2. ASSUME NEW y \in Apps \cup Endpoints, y = x
          PROVE  status'[y] = Told(y)'
      <4>1. mails'[y] # <<>> /\ mails'[y][Len(mails'[y])] = e
        BY <2>8, <3>2
      <4>2. status[y] = e.to
        BY <2>3, <2>5, <3>2
      <4> QED BY <2>1, <4>1, <4>2 DEF Told
    <3>3. ASSUME NEW y \in Apps \cup Endpoints PROVE Chain(mails'[y])
      <4>1. CASE y = x
        BY <2>8, <4>1
      <4>2. CASE y # x
        BY <1>2, <1>5, <2>7, <4>2 DEF MailsChain
      <4> QED BY <4>1, <4>2
    <3>4. ASSUME NEW y \in Apps \cup Endpoints, \A n \in Messages : ~Changing(n, y)'
          PROVE  status'[y] = Told(y)'
      <4>1. CASE y = x
        BY <3>2, <4>1
      <4>2. CASE y # x
        BY <3>1, <3>4, <4>2
      <4> QED BY <4>1, <4>2
    <3> QED BY <3>3, <3>4 DEF MailsChain, Chain
  <2>10. SourceFollows'
    <3>1. ASSUME NEW t \in Sources \ UserOwned
          PROVE  status[t] = latest'[t]
      <4>1. CASE t = s /\ x \in Sources \cup Apps
        BY <1>3, <1>4, <2>1, <2>3, <4>1
      <4>2. CASE ~(t = s /\ x \in Sources \cup Apps)
        <5>1. \A y \in Sources \cup Apps : Changing(m, y) => SourceFor(y) # t
          BY <4>2 DEF Changing
        <5>2. status[t] = latest[t]
          BY <1>1, <1>2, <5>1, Narrow DEF SourceFollows
        <5> QED BY <1>4, <2>1, <4>2, <5>2
      <4> QED BY <4>1, <4>2
    <3> QED BY <2>1, <3>1 DEF SourceFollows
  <2> QED BY <2>4, <2>9, <2>10
<1>13. CASE BuildUpdate(m) \/ BuildRecords(m) \/ Publish(m)
  <2>1. /\ status' = status /\ mails' = mails /\ latest' = latest
        /\ pc[m] \in {"build", "bulk", "publish", "publishBulk"}
        /\ pc'[m] \in {"publish", "publishBulk", "bulk", "done"}
    BY <1>4, <1>13 DEF BuildUpdate, BuildRecords, Publish, data, sent, Go
  <2>2. Visible(x)
    BY <1>2, <2>1 DEF HandlerOK
  <2>3. HandlerOK(m)'
    BY <1>1, <2>1, <2>2 DEF HandlerOK, Changing, Visible
  <2> QED BY <1>1, <1>2, <2>1, <2>3, QuietStep
<1> QED BY <1>7, <1>8, <1>9, <1>10, <1>11, <1>12, <1>13 DEF Step

-----------------------------------------------------------------------------
\* One step of one handler, whether it is alone or not.
LEMMA StepOK ==
    ASSUME ListenerAssumption, ListenerInv, NEW m \in Messages, Step(m)
    PROVE  ListenerInv'
<1>1. /\ TypeOK /\ pc[m] \in Busy
      /\ live' = live /\ report' = report /\ serial' = serial /\ clean' = clean
      /\ \A n \in Messages \ {m} :
           /\ pc'[n] = pc[n] /\ prev'[n] = prev[n] /\ record'[n] = record[n]
           /\ payload'[n] = payload[n]
  BY StepFacts DEF ListenerInv
<1>2. TypeOK' /\ (pc'[m] \in Busy => ReportOK(m)')
  BY <1>1, StepTypes DEF ListenerInv
<1>3. ASSUME NEW n \in Messages, pc'[n] \in Busy PROVE ReportOK(n)'
  <2>1. CASE n = m
    BY <1>2, <1>3, <2>1
  <2>2. CASE n # m
    BY <1>1, <1>3, <2>2 DEF ReportOK, ListenerInv
  <2> QED BY <2>1, <2>2
<1>4. clean' => live' = Resources
  BY <1>1 DEF ListenerInv
<1>5. serial' => \A n, o \in Messages : pc'[n] \in Busy /\ pc'[o] \in Busy => n = o
  BY <1>1 DEF ListenerInv
<1>6. ASSUME serial, clean
      PROVE  /\ \A n \in Messages : pc'[n] \in Busy => HandlerOK(n)'
             /\ MailsChain' /\ SourceFollows'
  <2>1. (pc'[m] \in Busy => HandlerOK(m)') /\ MailsChain' /\ SourceFollows'
    BY <1>6, AloneStep
  <2>2. \A n \in Messages : pc'[n] \in Busy => n = m
    BY <1>1, <1>6 DEF ListenerInv
  <2> QED BY <2>1, <2>2
<1>7. MailsChain' /\ SourceFollows'
  <2>1. CASE serial /\ clean
    BY <1>6, <2>1
  <2>2. CASE ~(serial /\ clean)
    BY <1>1, <2>2 DEF MailsChain, SourceFollows
  <2> QED BY <2>1, <2>2
<1> QED BY <1>1, <1>2, <1>3, <1>4, <1>5, <1>6, <1>7 DEF ListenerInv

\* A message that arrives: it starts alone, or the handlers overlap from now on.
LEMMA ReceiveOK ==
    ASSUME ListenerAssumption, ListenerInv, NEW m \in Messages, NEW r \in Reports, Receive(m, r)
    PROVE  ListenerInv'
<1>1. /\ TypeOK /\ pc[m] = "idle"
      /\ UNCHANGED <<live, status, prev, record, payload, mails, latest, stream, clean>>
      /\ report' = [report EXCEPT ![m] = r]
      /\ pc' = [pc EXCEPT ![m] = IF r.status \in Statuses THEN "previous" ELSE "done"]
      /\ serial' = (serial /\ \A n \in Messages : pc[n] \notin Busy)
  BY DEF ListenerInv, Receive, data, sent, Go
<1>2. TypeOK'
  BY <1>1 DEF TypeOK, Busy, Ended
<1>3. \A n \in Messages \ {m} : pc'[n] = pc[n] /\ report'[n] = report[n]
  BY <1>1 DEF TypeOK
<1>4. /\ report'[m] = r /\ r # Nil
      /\ pc'[m] = IF r.status \in Statuses THEN "previous" ELSE "done"
  BY <1>1 DEF TypeOK, ListenerAssumption
<1>5. ASSUME NEW n \in Messages, pc'[n] \in Busy PROVE ReportOK(n)'
  <2>1. CASE n = m
    BY <1>4, <1>5, <2>1 DEF ReportOK, Busy
  <2>2. CASE n # m
    BY <1>1, <1>3, <1>5, <2>2 DEF ReportOK, ListenerInv
  <2> QED BY <2>1, <2>2
<1>6. clean' => live' = Resources
  BY <1>1 DEF ListenerInv
<1>7. serial' => serial /\ \A n \in Messages : pc'[n] \in Busy => n = m
  BY <1>1, <1>3
<1>8. ASSUME serial', clean'
      PROVE  /\ \A n \in Messages : pc'[n] \in Busy => HandlerOK(n)'
             /\ MailsChain' /\ SourceFollows'
  <2>1. serial /\ clean /\ MailsChain /\ SourceFollows
        /\ \A n \in Messages : pc[n] \notin Busy
    BY <1>1, <1>8 DEF ListenerInv
  <2>2. HandlerOK(m)' \/ pc'[m] \notin Busy
    BY <1>4 DEF HandlerOK, Changing, Busy
  <2>3. \A n \in Messages : pc'[n] \notin {"reread", "application", "propagate", "mail"}
    BY <1>3, <1>4, <2>1 DEF Busy
  <2>4. \A n \in Messages : \A x : ~Changing(n, x)
    BY <2>1 DEF Changing, Busy
  <2>5. MailsChain'
    <3>1. ASSUME NEW x \in Apps \cup Endpoints
          PROVE  status'[x] = Told(x)' /\ Chain(mails'[x])
      BY <1>1, <2>1, <2>4 DEF MailsChain, Told
    <3> QED BY <3>1 DEF MailsChain, Chain
  <2>6. SourceFollows'
    <3>1. ASSUME NEW s \in Sources \ UserOwned PROVE status'[s] = latest'[s]
      BY <1>1, <2>1, <2>4 DEF SourceFollows
    <3> QED BY <3>1 DEF SourceFollows
  <2> QED BY <1>7, <1>8, <2>2, <2>5, <2>6
<1>9. MailsChain' /\ SourceFollows'
  <2>1. CASE serial' /\ clean'
    BY <1>8, <2>1
  <2>2. CASE ~(serial' /\ clean')
    BY <2>2 DEF MailsChain, SourceFollows
  <2> QED BY <2>1, <2>2
<1> QED BY <1>2, <1>5, <1>6, <1>7, <1>8, <1>9 DEF ListenerInv

\* After a fault, a crash or a removal only the types are kept.
LEMMA FaultOK ==
    ASSUME ListenerAssumption, ListenerInv,
           \/ \E m \in Messages : Fail(m)
           \/ Crash
           \/ \E x \in Resources : Remove(x)
    PROVE  ListenerInv'
<1>1. /\ TypeOK /\ clean' = FALSE /\ serial' = serial
      /\ UNCHANGED <<status, report, prev, record, payload, mails, latest, stream>>
      /\ live' \subseteq live
  BY DEF ListenerInv, Fail, Crash, Remove, data, sent
<1>2. /\ pc' \in [Messages -> Busy \cup Ended \cup {"idle"}]
      /\ \A n \in Messages : pc'[n] \in Busy =>
            pc[n] \in Busy /\ (pc'[n] = pc[n] \/ (pc'[n] = "build" /\ pc[n] = "mail"))
  <2>1. pc \in [Messages -> Busy \cup Ended \cup {"idle"}]
    BY <1>1 DEF TypeOK
  <2>2. CASE \E m \in Messages : Fail(m)
    <3>1. PICK m \in Messages : Fail(m)
      BY <2>2
    <3>2. /\ pc[m] \in Busy
          /\ pc' = [pc EXCEPT ![m] = IF pc[m] = "mail" THEN "build" ELSE "done"]
      BY <3>1 DEF Fail, Go
    <3>3. {"build", "done"} \subseteq Busy \cup Ended /\ "done" \notin Busy
      BY DEF Busy, Ended
    <3> QED BY <2>1, <3>2, <3>3
  <2>3. CASE Crash
    <3>1. pc' = [m \in Messages |-> IF pc[m] \in Busy THEN "lost" ELSE pc[m]]
      BY <2>3 DEF Crash
    <3>2. "lost" \in Ended /\ "lost" \notin Busy
      BY DEF Busy, Ended
    <3> QED BY <2>1, <3>1, <3>2
  <2>4. CASE \E x \in Resources : Remove(x)
    BY <2>1, <2>4 DEF Remove
  <2> QED BY <2>2, <2>3, <2>4
<1>3. TypeOK'
  BY <1>1, <1>2 DEF TypeOK
<1>4. \A n \in Messages : pc'[n] \in Busy => ReportOK(n)'
  BY <1>1, <1>2 DEF ReportOK, ListenerInv
<1>5. serial' => \A n, o \in Messages : pc'[n] \in Busy /\ pc'[o] \in Busy => n = o
  BY <1>1, <1>2 DEF ListenerInv
<1> QED BY <1>1, <1>3, <1>4, <1>5 DEF ListenerInv, MailsChain, SourceFollows

\* Nothing happens.
LEMMA StutterOK == ASSUME ListenerInv, UNCHANGED vars PROVE ListenerInv'
<1>1. /\ TypeOK' /\ \A m \in Messages : ReportOK(m)' <=> ReportOK(m)
      /\ \A m \in Messages : HandlerOK(m)' <=> HandlerOK(m)
  BY DEF vars, ListenerInv, TypeOK, ReportOK, HandlerOK, Changing, Told, Visible
<1>2. MailsChain' /\ SourceFollows'
  BY DEF vars, ListenerInv, MailsChain, SourceFollows, Changing, Told, Chain
<1> QED BY <1>1, <1>2 DEF vars, ListenerInv

-----------------------------------------------------------------------------
(* Whatever overtakes what: types; and while no handlers overlap and        *)
(* nothing fails, the mails of a resource lead from its first status to the *)
(* one it has, and a source has the status of what changed last.            *)
THEOREM ListenerSafe == ASSUME ListenerAssumption PROVE Spec => []ListenerInv
<1>1. Init => ListenerInv
  BY InitOK
<1>2. ListenerInv /\ [Next]_vars => ListenerInv'
  <2> SUFFICES ASSUME ListenerInv, [Next]_vars PROVE ListenerInv'
    OBVIOUS
  <2>1. CASE UNCHANGED vars
    BY <2>1, StutterOK
  <2>2. ASSUME NEW m \in Messages, Step(m) PROVE ListenerInv'
    BY <2>2, StepOK
  <2>3. ASSUME NEW m \in Messages, NEW r \in Reports, Receive(m, r) PROVE ListenerInv'
    BY <2>3, ReceiveOK
  <2> QED BY <2>1, <2>2, <2>3, FaultOK DEF Next
<1> QED BY <1>1, <1>2, PTL DEF Spec
=============================================================================
