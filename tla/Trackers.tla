------------------------------ MODULE Trackers ------------------------------
(***************************************************************************)
(* How one torrent talks to its trackers: the announce list with its tiers *)
(* (internal/tracker/policy.go), the tracker session that walks it         *)
(* (btTrackerSession, internal/engine/bt_discovery.go), the HTTP and the   *)
(* UDP client (internal/tracker/http.go, udp.go) and the calls             *)
(* runBTDownload makes: the periodic announces of a goroutine, then, when  *)
(* the discovery has been stopped and waited for, `completed' and          *)
(* `stopped'.  A reply is a record of what the checks of the parsers tell  *)
(* apart; byte layouts are not modelled.                                   *)
(***************************************************************************)
EXTENDS Integers, Sequences, FiniteSets, SequencesExt

CONSTANTS Announce,      \* the metainfo's single announce URL, or ""
          AnnounceTiers, \* the metainfo's announce-list, or << >>
          Exclude, Add,  \* --bt-exclude-tracker, --bt-tracker
          Scheme,        \* URL -> "http" | "udp" | "other"
          Intervals,     \* the interval values a reply may carry
          DefaultWait,   \* trackerDefaultInterval
          MaxRounds      \* bound on the periodic announces

VARIABLES list,      \* the AnnounceList
          job,       \* the announce in progress, or "none"
          phase,     \* where runBTDownload is
          stopping,  \* stopDiscovery has been called
          call,      \* the request to the current URL
          mail,      \* UDP datagrams on their way to the client
          heard,     \* the tracker has received the current announce
          told,      \* ghost: per tier, the events accepted, oldest first
          pace,      \* interval and minInterval
          rounds     \* periodic announces made

trVars == <<list, job, phase, stopping, call, mail, heard, told, pace, rounds>>

NoCall == [at |-> "idle", url |-> "", try |-> 0]

(***************************************************************************)
(* The announce list.                                                      *)
(***************************************************************************)
NormalizeAnnounceTiers ==
    LET tiers == IF AnnounceTiers # << >>
                 THEN SelectSeq(AnnounceTiers, LAMBDA t : t # << >>)
                 ELSE IF Announce # "" THEN << <<Announce>> >> ELSE << >>
        kept  == IF "*" \in Exclude THEN << >>
                 ELSE SelectSeq(
                        [i \in DOMAIN tiers |->
                            SelectSeq(tiers[i], LAMBDA u : u \notin Exclude)],
                        LAMBDA t : t # << >>)
    IN  kept \o [i \in DOMAIN Add |-> <<Add[i]>>]

resetIterator(l) ==
    [l EXCEPT !.tierIdx = 1, !.urlIdx = 1, !.current = (l.tiers # << >>)]

NewAnnounceList(tiers) ==
    resetIterator([tiers |-> [i \in DOMAIN tiers |->
                                 [event |-> "Started", urls |-> tiers[i]]],
                   tierIdx |-> 1, urlIdx |-> 1, current |-> FALSE])

nextEvent(event) ==
    CASE event = "Started"   -> "Downloading"
      [] event = "Completed" -> "Seeding"
      [] event = "Stopped"   -> "Halted"
      [] OTHER               -> event

nextEventIfAfterStarted(event) ==
    CASE event = "Stopped"   -> "Halted"
      [] event = "Completed" -> "Seeding"
      [] OTHER               -> event

\* The events of a tier for which the two predicates are true.
tierAcceptsStoppedEvent == {"Downloading", "Stopped", "Completed", "Seeding"}

tierAcceptsCompletedEvent == {"Downloading", "Completed"}

GetEventString(l) ==
    LET event == l.tiers[l.tierIdx].event
    IN  CASE event = "Started"   -> "started"
          [] event = "Stopped"   -> "stopped"
          [] event = "Completed" -> "completed"
          [] OTHER               -> ""

GetAnnounce(l) == l.tiers[l.tierIdx].urls[l.urlIdx]

SetEvent(l, event) ==
    IF l.current THEN [l EXCEPT !.tiers[l.tierIdx].event = event] ELSE l

\* The URL that answered moves to the front of its tier.
AnnounceSuccess(l) ==
    LET tier == l.tiers[l.tierIdx]
        url  == tier.urls[l.urlIdx]
    IN  resetIterator(
          [l EXCEPT !.tiers[l.tierIdx] =
             [event |-> nextEvent(tier.event),
              urls  |-> <<url>> \o RemoveAt(tier.urls, l.urlIdx)]])

AnnounceFailure(l) ==
    IF l.urlIdx < Len(l.tiers[l.tierIdx].urls)
    THEN [l EXCEPT !.urlIdx = @ + 1]
    ELSE [l EXCEPT !.tiers[l.tierIdx].event = nextEventIfAfterStarted(@),
                   !.tierIdx = @ + 1, !.urlIdx = 1,
                   !.current = l.tierIdx < Len(l.tiers)]

\* The first matching tier from the current one on, wrapping around.
moveToMatchingTier(l, match) ==
    LET n    == Len(l.tiers)
        at(k) == ((l.tierIdx - 1 + k) % n) + 1
        hits == {k \in 0 .. n - 1 : l.tiers[at(k)].event \in match}
    IN  IF hits = {} THEN [l EXCEPT !.current = FALSE]
        ELSE [l EXCEPT !.tierIdx = at(CHOOSE k \in hits :
                                        \A m \in hits : k <= m),
                       !.urlIdx = 1, !.current = TRUE]

\* Selecting the tier that is told of the completion or of the stop.
SelectTier(l, match, event) ==
    SetEvent(IF l.current /\ l.tiers[l.tierIdx].event \in match THEN l
             ELSE moveToMatchingTier(l, match), event)

NoTier(l, match) ==
    ~\E i \in DOMAIN l.tiers : l.tiers[i].event \in match

(***************************************************************************)
(* btTrackerSession.announce: the tier is prepared, then the list is       *)
(* walked until a tracker answers or every tier has failed.                *)
(***************************************************************************)
AfterJob(kind) ==
    CASE kind = "completed" -> "seeding"
      [] kind = "stopped"   -> "end"
      [] OTHER              -> phase

announce(kind) ==
    /\ job = "none"
    /\ LET l == IF list.current THEN list ELSE resetIterator(list)
       IN  \/ /\ kind = "default"
              /\ list' = l /\ job' = kind /\ UNCHANGED phase
           \/ /\ kind = "completed"
              /\ IF NoTier(l, tierAcceptsCompletedEvent)
                 THEN list' = l /\ job' = "none" /\ phase' = AfterJob(kind)
                 ELSE /\ list' = SelectTier(l, tierAcceptsCompletedEvent,
                                            "Completed")
                      /\ job' = kind /\ UNCHANGED phase
           \/ /\ kind = "stopped"
              /\ IF NoTier(l, tierAcceptsStoppedEvent)
                 THEN list' = l /\ job' = "none" /\ phase' = AfterJob(kind)
                 ELSE /\ list' = SelectTier(l, tierAcceptsStoppedEvent,
                                            "Stopped")
                      /\ job' = kind /\ UNCHANGED phase
    /\ UNCHANGED <<stopping, call, mail, heard, told, pace>>

\* announceTracker: the client of the URL's scheme sends the request.
Attempt ==
    /\ job # "none" /\ list.current /\ call.at = "idle"
    /\ LET url == GetAnnounce(list)
       IN  call' = [at  |-> CASE Scheme[url] = "http" -> "http"
                              [] Scheme[url] = "udp"  -> "connect"
                              [] OTHER                -> "failed",
                    url |-> url, try |-> 0]
    /\ heard' = FALSE /\ mail' = {}
    /\ UNCHANGED <<list, job, phase, stopping, told, pace, rounds>>

onSuccess(interval, minInterval) ==
    LET i == IF interval > 0 THEN interval ELSE pace.interval
        m == IF minInterval > 0
             THEN IF i > 0 /\ minInterval > i THEN i ELSE minInterval
             ELSE IF i > 0 THEN i ELSE pace.minInterval
        n == IF m <= 0 THEN DefaultWait ELSE m
    IN  [interval |-> IF i <= 0 THEN n ELSE i, minInterval |-> n]

Succeed(interval, minInterval) ==
    /\ pace' = onSuccess(interval, minInterval)
    /\ told' = [told EXCEPT ![list.tierIdx] =
                   Append(@, IF heard THEN GetEventString(list)
                             ELSE "not heard")]
    /\ list' = AnnounceSuccess(list)
    /\ call' = NoCall /\ mail' = {}
    /\ phase' = AfterJob(job) /\ job' = "none"
    /\ UNCHANGED <<stopping, heard, rounds>>

Fail ==
    /\ call.at = "failed"
    /\ list' = AnnounceFailure(list)
    /\ call' = NoCall /\ mail' = {}
    /\ UNCHANGED <<job, phase, stopping, heard, told, pace, rounds>>

GiveUp ==
    /\ job # "none" /\ ~list.current
    /\ list' = resetIterator(list)
    /\ phase' = AfterJob(job) /\ job' = "none"
    /\ UNCHANGED <<stopping, call, mail, heard, told, pace, rounds>>

(***************************************************************************)
(* The HTTP client: the request reaches the tracker or not; the reply is a *)
(* failure, or carries an interval and perhaps a smaller minimum.          *)
(***************************************************************************)
httpHeard ==
    /\ call.at = "http" /\ ~heard
    /\ heard' = TRUE
    /\ UNCHANGED <<list, job, phase, stopping, call, mail, told, pace, rounds>>

\* Only positive values are kept; a larger minimum is cut to the interval.
parseHTTPAnnounceResponse(i, m) ==
    LET iv == IF i > 0 THEN i ELSE 0
        mv == IF m > 0 /\ m <= iv THEN m ELSE iv
    IN  <<iv, mv>>

httpAnswer ==
    /\ call.at = "http"
    /\ \/ /\ heard
          /\ \E i \in Intervals, m \in Intervals :
                LET r == parseHTTPAnnounceResponse(i, m)
                IN  Succeed(r[1], r[2])
       \/ /\ call' = [call EXCEPT !.at = "failed"]
          /\ UNCHANGED <<list, job, phase, stopping, mail, heard, told, pace,
                         rounds>>

(***************************************************************************)
(* The UDP client: connect, then announce, each with a transaction         *)
(* identifier of its own, sent again once after a timeout.  `mail' only    *)
(* grows during a call: a reply may be lost (never read), late or read     *)
(* twice, and a repeated request may be answered twice.  Whatever arrives  *)
(* first ends the wait; a reply too short to parse is an `error' here.     *)
(***************************************************************************)
Txn(at) == at

udpReply(at) ==
    /\ call.at = at
    /\ \E action \in {at, "error"} :
          mail' = mail \union {[txn |-> Txn(at), action |-> action]}
    /\ heard' = (heard \/ at = "announce")
    /\ UNCHANGED <<list, job, phase, stopping, call, told, pace, rounds>>

AcceptsAnyTransaction(d) == d.action # "error"                     \* mutant

Accepts(d) == d.txn = Txn(call.at) /\ d.action = call.at

udpReceive ==
    /\ call.at \in {"connect", "announce"}
    /\ \E d \in mail :
          IF ~Accepts(d)
          THEN /\ call' = [call EXCEPT !.at = "failed"]
               /\ UNCHANGED <<list, job, phase, stopping, mail, heard, told,
                              pace, rounds>>
          ELSE IF call.at = "connect"
          THEN /\ call' = [call EXCEPT !.at = "announce", !.try = 0]
               /\ UNCHANGED <<list, job, phase, stopping, mail, heard, told,
                              pace, rounds>>
          ELSE \E i \in Intervals : Succeed(i, i)

udpTimeout ==
    /\ call.at \in {"connect", "announce"}
    /\ call' = IF call.try = 0 THEN [call EXCEPT !.try = 1]
               ELSE [call EXCEPT !.at = "failed"]
    /\ UNCHANGED <<list, job, phase, stopping, mail, heard, told, pace,
                   rounds>>

\* A send, a name resolution or a socket that fails.
netError ==
    /\ call.at \in {"http", "connect", "announce"}
    /\ call' = [call EXCEPT !.at = "failed"]
    /\ UNCHANGED <<list, job, phase, stopping, mail, heard, told, pace,
                   rounds>>

(***************************************************************************)
(* runDefault and the end of runBTDownload.                                *)
(***************************************************************************)
runDefault ==
    /\ phase = "discovery" /\ ~stopping /\ rounds < MaxRounds
    /\ announce("default")
    /\ rounds' = rounds + 1

\* discoveryWG.Wait: the goroutine has returned before the others announce.
Discovered(next) ==
    /\ phase = "discovery" /\ stopping /\ job = "none"
    /\ phase' = next
    /\ UNCHANGED <<list, job, stopping, call, mail, heard, told, pace, rounds>>

stopDiscovery ==
    /\ phase = "discovery" /\ ~stopping
    /\ stopping' = TRUE
    /\ UNCHANGED <<list, job, phase, call, mail, heard, told, pace, rounds>>

runBTDownload ==
    \/ stopDiscovery
    \/ \E next \in {"complete", "stop"} : Discovered(next)
    \/ phase = "complete" /\ announce("completed") /\ UNCHANGED rounds
    \/ phase = "seeding" /\ phase' = "stop"
          /\ UNCHANGED <<list, job, stopping, call, mail, heard, told, pace,
                         rounds>>
    \/ phase = "stop" /\ announce("stopped") /\ UNCHANGED rounds

TrInit ==
    /\ list = NewAnnounceList(NormalizeAnnounceTiers)
    /\ job = "none" /\ phase = "discovery" /\ stopping = FALSE
    /\ call = NoCall /\ mail = {} /\ heard = FALSE
    /\ told = [i \in DOMAIN NormalizeAnnounceTiers |-> << >>]
    /\ pace = [interval |-> DefaultWait, minInterval |-> DefaultWait]
    /\ rounds = 0

Client ==
    \/ Attempt \/ Fail \/ GiveUp \/ httpAnswer \/ udpReceive \/ udpTimeout

TrNext ==
    \/ runDefault \/ runBTDownload \/ Client
    \/ httpHeard \/ netError
    \/ udpReply("connect") \/ udpReply("announce")

\* Every wait of the clients has a deadline and the goroutines run.
Progress == runBTDownload \/ Client

TrSpec == TrInit /\ [][TrNext]_trVars /\ WF_trVars(Progress)

(***************************************************************************)
(* Properties.                                                             *)
(***************************************************************************)
Position(s) == CASE s = "started" -> 1 [] s = ""        -> 2
                 [] s = "completed" -> 3 [] s = "stopped" -> 4
                 [] s = "not heard" -> 0

(***************************************************************************)
(* What the trackers of one tier have accepted is a story in order:        *)
(* `started' first and once, regular announces, `completed' at most once,  *)
(* `stopped' last, whatever failed or was retried in between               *)
(* (AnnounceSuccess, AnnounceFailure, announce); an announce counts as     *)
(* accepted only when its tracker really received it (udpAnnounce); and    *)
(* the time to the next announce stays positive (onSuccess).               *)
(***************************************************************************)
TrackerStory ==
    /\ \A t \in DOMAIN told :
          LET s == told[t]
          IN  /\ s # << >> => s[1] = "started"
              /\ "not heard" \notin Range(s)
              /\ \A i \in 1 .. Len(s) - 1 :
                    \/ Position(s[i]) < Position(s[i + 1])
                    \/ s[i] = "" /\ s[i + 1] = ""
                    \/ s[i] = "completed" /\ s[i + 1] = ""
    /\ 0 < pace.minInterval /\ pace.minInterval <= pace.interval

AtRest == phase = "end"
=============================================================================
