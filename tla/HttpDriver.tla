----------------------------- MODULE HttpDriver -----------------------------
(***************************************************************************)
(* The HTTP driver (internal/protocol/http/downloader.go): probing a       *)
(* resource with a ranged GET, HEAD or plain GET, with fallbacks, retrying *)
(* after a 401, keeping the body of a plain probe for the download that    *)
(* follows, and checking that a response is what was asked for.  Calls of  *)
(* several connections of a download run concurrently on one driver.  One  *)
(* action is one exchange of net/http with the server, which is external.  *)
(***************************************************************************)
EXTENDS Integers, FiniteSets

CONSTANTS Calls,     \* goroutines of the engine that call the driver
          Size,      \* of the resource
          Drivers,   \* [encoding, useHead, user, challenge, conditional]
          Servers,   \* [range, auth, head, known, encodes, fresh]
          Ranges,    \* [offset, size] of the downloads
          MaxCalls

VARIABLES drv, srv,
          call,      \* of each caller: where it is, and what it asks for
          got,       \* the response it holds
          out,       \* what its last call returned
          pending,   \* pendingProbe: the response kept by the last plain probe
          scope,     \* basicAuthScopes has the scope of the URI
          challenged, early,   \* the server sent a 401; credentials went before it
          open,      \* response bodies that are not closed
          calls

httpVars == <<drv, srv, call, got, out, pending, scope, challenged, early,
              open, calls>>

NoRange == [offset |-> 0, size |-> 0]
Nothing == [status |-> 0, from |-> 0, to |-> 0, clen |-> 0, encoded |-> FALSE,
            method |-> "none"]
NoOut == [kind |-> "none", size |-> 0, ranges |-> FALSE, from |-> 0, to |-> 0,
          encoded |-> FALSE]

(***************************************************************************)
(* The server.                                                             *)
(***************************************************************************)
\* What a server with ranges answers to bytes=offset-: one that is broken
\* answers with another range.  Its Content-Range names the total; without
\* one probeGETRange would take the length of the one byte it asks for.
Partial(r) ==
    LET to == IF r.size > 0 /\ r.offset + r.size < Size
              THEN r.offset + r.size - 1 ELSE Size - 1
    IN  CASE srv.range = "exact" -> <<r.offset, to>>
          [] srv.range = "shifted" -> <<0, to>>
          [] srv.range = "longer" -> <<r.offset, Size - 1>>

Answer(method, r, authorized) ==
    LET none == [Nothing EXCEPT !.method = method]
    IN  IF srv.auth # "none" /\ ~authorized THEN [none EXCEPT !.status = 401]
        ELSE IF \/ method = "HEAD" /\ srv.head = "refused"
                \/ r # NoRange /\ srv.range = "refused"
        THEN [none EXCEPT !.status = 405]
        ELSE IF drv.conditional /\ srv.fresh THEN [none EXCEPT !.status = 304]
        ELSE IF r # NoRange /\ srv.range # "none" /\ ~srv.encodes
        THEN [none EXCEPT !.status = 206, !.from = Partial(r)[1],
                 !.to = Partial(r)[2], !.clen = Partial(r)[2] - Partial(r)[1] + 1]
        ELSE [none EXCEPT !.status = 200, !.to = Size - 1,
                 !.clen = IF srv.known THEN Size ELSE 0,
                 !.encoded = srv.encodes /\ drv.encoding]

(***************************************************************************)
(* Credentials: builtinHeaders, setActivatedBasicAuth.                     *)
(***************************************************************************)
SendsBasic == drv.user /\ (~drv.challenge \/ scope)
Accepted(credentials) == credentials # "none" /\ credentials = srv.auth

\* The retry that authRetry makes after a 401, "none" if it makes none.
authRetry ==
    IF ~drv.user THEN "none"
    ELSE IF srv.auth = "digest" THEN "digest"
    ELSE IF drv.challenge /\ ~SendsBasic THEN "basic"
    ELSE "none"

(***************************************************************************)
(* One exchange.  A connection may break ("eof") or fail ("fail").         *)
(***************************************************************************)
Credentials(c) ==
    IF call[c].auth # "none" THEN call[c].auth
    ELSE IF SendsBasic THEN "basic" ELSE "none"

Do(c, method, r, resp) ==
    /\ resp = Answer(method, r, Accepted(Credentials(c)))
    /\ challenged' = (challenged \/ resp.status = 401)
    /\ early' = (early \/ (/\ drv.challenge /\ ~challenged
                           /\ Credentials(c) # "none"))

\* A 401 that is retried: the response is closed and the request repeated.
Retries(c, resp) == resp.status = 401 /\ call[c].auth = "none" /\ authRetry # "none"

Repeat(c) ==
    /\ call' = [call EXCEPT ![c].auth = authRetry]
    /\ scope' = (scope \/ authRetry = "basic")
    /\ UNCHANGED <<drv, srv, got, out, pending, open, calls>>

Go(c, at) == call' = [call EXCEPT ![c].at = at, ![c].auth = "none"]
Return(c, o) == out' = [out EXCEPT ![c] = o] /\ Go(c, "idle")
Fails(c) == Return(c, [NoOut EXCEPT !.kind = "error"])

(***************************************************************************)
(* ProbeInfoWithOptions.                                                   *)
(***************************************************************************)
Held == IF pending # Nothing THEN 1 ELSE 0
inflates(resp) == drv.encoding /\ resp.encoded

ForgetPending == pending' = Nothing /\ UNCHANGED open         \* mutant

clearPendingProbeResponse == pending' = Nothing /\ open' = open - Held

Probe(c) ==
    /\ call[c].at = "idle" /\ calls < MaxCalls
    /\ clearPendingProbeResponse
    /\ Go(c, IF drv.useHead THEN "head"
             ELSE IF drv.encoding THEN "get" ELSE "range")
    /\ out' = [out EXCEPT ![c] = NoOut]
    /\ calls' = calls + 1
    /\ UNCHANGED <<drv, srv, got, scope, challenged, early>>

Found(resp, size, ranges) ==
    [NoOut EXCEPT !.kind = "info", !.size = size, !.ranges = ranges,
                  !.encoded = resp.encoded]

\* probeGETRange, the body being closed on every path; after HEAD it is the
\* last thing tried.
RangeResult(resp) ==
    IF resp.status = 304 THEN [NoOut EXCEPT !.kind = "notModified"]
    ELSE IF resp.status \notin {200, 206} THEN [NoOut EXCEPT !.kind = "error"]
    ELSE IF inflates(resp) THEN Found(resp, 0, FALSE)
    ELSE IF resp.status = 206 THEN Found(resp, Size, TRUE)
    ELSE IF resp.clen > 0 THEN Found(resp, resp.clen, FALSE)
    ELSE [NoOut EXCEPT !.kind = "error"]

ProbeRange(c) ==
    /\ call[c].at \in {"range", "rangeLast"}
    /\ \E resp \in {Answer("GET", [offset |-> 0, size |-> 1],
                           Accepted(Credentials(c)))} :
         /\ Do(c, "GET", [offset |-> 0, size |-> 1], resp)
         /\ \/ Retries(c, resp) /\ Repeat(c)
            \/ /\ ~Retries(c, resp)
               /\ IF /\ call[c].at = "range" /\ resp.status = 405
                  THEN Go(c, "head") /\ UNCHANGED out
                  ELSE Return(c, RangeResult(resp))
               /\ UNCHANGED <<drv, srv, got, pending, scope, open, calls>>

\* HEAD: its body is closed at once.
HeadResult(resp) ==
    IF resp.status = 304 THEN [NoOut EXCEPT !.kind = "notModified"]
    ELSE IF resp.status = 200 /\ inflates(resp) THEN Found(resp, 0, FALSE)
    ELSE IF resp.status = 200 /\ resp.clen > 0
    THEN Found(resp, resp.clen, srv.range \notin {"none", "refused"})
    ELSE IF resp.status \in {200, 405} THEN NoOut
    ELSE [NoOut EXCEPT !.kind = "error"]

AfterHead == IF drv.encoding THEN "get" ELSE "rangeLast"

ProbeHead(c) ==
    /\ call[c].at = "head"
    /\ \E resp \in {Answer("HEAD", NoRange, Accepted(Credentials(c)))} :
         /\ Do(c, "HEAD", NoRange, resp)
         /\ \/ Retries(c, resp) /\ Repeat(c)
            \/ /\ ~Retries(c, resp)
               /\ IF HeadResult(resp) = NoOut
                  THEN Go(c, AfterHead) /\ UNCHANGED out
                  ELSE Return(c, HeadResult(resp))
               /\ UNCHANGED <<drv, srv, got, pending, scope, open, calls>>

\* probeGETNoRange keeps the response, and closes the one kept before.
ProbePlain(c) ==
    /\ call[c].at = "get"
    /\ \E resp \in {Answer("GET", NoRange, Accepted(Credentials(c)))} :
         /\ Do(c, "GET", NoRange, resp)
         /\ \/ Retries(c, resp) /\ Repeat(c)
            \/ /\ ~Retries(c, resp)
               /\ IF resp.status = 200
                  THEN /\ pending' = resp /\ open' = open + 1 - Held
                       /\ Return(c, Found(resp, IF inflates(resp) THEN 0
                                                ELSE resp.clen, FALSE))
                  ELSE /\ Return(c, [NoOut EXCEPT !.kind =
                                IF resp.status = 304 THEN "notModified"
                                ELSE "error"])
                       /\ UNCHANGED <<pending, open>>
               /\ UNCHANGED <<drv, srv, got, scope, calls>>

\* The exchange breaks: a broken connection is worth a fallback.
ProbeBreaks(c) ==
    /\ call[c].at \in {"range", "rangeLast", "head", "get"}
    /\ \/ call[c].at = "range" /\ Go(c, "head") /\ UNCHANGED out
       \/ call[c].at = "head" /\ Go(c, AfterHead) /\ UNCHANGED out
       \/ Fails(c)
    /\ UNCHANGED <<drv, srv, got, pending, scope, challenged, early, open,
                   calls>>

(***************************************************************************)
(* DownloadResponseWithOptions.                                            *)
(***************************************************************************)
formatRange(r) == IF r.size > 0 \/ r.offset > 0 THEN r ELSE NoRange

takePendingProbeResponse(c, r) ==
    IF pending = Nothing
    THEN Go(c, "download") /\ UNCHANGED <<got, pending, open>>
    ELSE IF r = NoRange
    THEN /\ got' = [got EXCEPT ![c] = pending] /\ Go(c, "finish")
         /\ pending' = Nothing /\ UNCHANGED open
    ELSE Go(c, "download") /\ clearPendingProbeResponse /\ UNCHANGED got

\* The range asked for is kept in the caller's record by Ask.
Ask(c, r) ==
    /\ call[c].at = "idle" /\ call[c].r = r /\ calls < MaxCalls
    /\ takePendingProbeResponse(c, r)
    /\ out' = [out EXCEPT ![c] = NoOut]
    /\ calls' = calls + 1
    /\ UNCHANGED <<drv, srv, scope, challenged, early>>

Download(c) ==
    /\ call[c].at = "download"
    /\ \E resp \in {Answer("GET", formatRange(call[c].r),
                           Accepted(Credentials(c)))} :
         /\ Do(c, "GET", formatRange(call[c].r), resp)
         /\ \/ Retries(c, resp) /\ Repeat(c)
            \/ /\ ~Retries(c, resp)
               /\ got' = [got EXCEPT ![c] = resp] /\ Go(c, "finish")
               /\ open' = open + 1
               /\ UNCHANGED <<drv, srv, out, pending, scope, calls>>

\* An error of the retry leaves the 401, whose body is closed already.
DownloadBreaks(c) ==
    /\ call[c].at = "download"
    /\ Fails(c)
    /\ UNCHANGED <<drv, srv, got, pending, scope, challenged, early, open,
                   calls>>

AcceptsAnyRange(resp, r) == resp.status \in {200, 206}         \* mutant

validateDownloadResponse(resp, r) ==
    /\ resp.status \in {200, 206}
    /\ ~(inflates(resp) /\ (r # NoRange \/ resp.status = 206))
    /\ ~(resp.status = 206 /\ r = NoRange)
    /\ ~(resp.status = 200 /\ r.offset > 0)
    /\ resp.status = 206 => /\ resp.from = r.offset
                            /\ r.size > 0 => resp.to = r.offset + r.size - 1

\* finishDownloadResponse: the body goes to the caller or is closed.  The
\* decoder of an encoded body may refuse it.
Finish(c) ==
    /\ call[c].at = "finish"
    /\ \/ /\ validateDownloadResponse(got[c], call[c].r)
          /\ out' = [out EXCEPT ![c] = [NoOut EXCEPT !.kind = "body",
                         !.from = got[c].from, !.to = got[c].to,
                         !.encoded = inflates(got[c])]]
          /\ Go(c, "reading") /\ UNCHANGED <<got, open>>
       \/ /\ ~validateDownloadResponse(got[c], call[c].r) \/ inflates(got[c])
          /\ Return(c, [NoOut EXCEPT !.kind =
                IF got[c].status = 304 THEN "notModified" ELSE "error"])
          /\ got' = [got EXCEPT ![c] = Nothing] /\ open' = open - 1
    /\ UNCHANGED <<drv, srv, pending, scope, challenged, early, calls>>

\* The caller closes the body it was given.
CloseBody(c) ==
    /\ call[c].at = "reading"
    /\ Go(c, "idle") /\ got' = [got EXCEPT ![c] = Nothing]
    /\ open' = open - 1
    /\ out' = [out EXCEPT ![c] = NoOut]
    /\ UNCHANGED <<drv, srv, pending, scope, challenged, early, calls>>

\* Driver.Close, when the download is over.
CloseDriver ==
    /\ calls = MaxCalls /\ \A c \in Calls : call[c].at = "idle"
    /\ clearPendingProbeResponse
    /\ UNCHANGED <<drv, srv, call, got, out, scope, challenged, early, calls>>

HttpInit ==
    /\ drv \in Drivers /\ srv \in Servers
    /\ call \in [Calls -> [at : {"idle"}, auth : {"none"}, r : Ranges]]
    /\ got = [c \in Calls |-> Nothing]
    /\ out = [c \in Calls |-> NoOut]
    /\ pending = Nothing /\ scope = FALSE /\ challenged = FALSE
    /\ early = FALSE /\ open = 0 /\ calls = 0

HttpNext ==
    \/ \E c \in Calls :
          \/ Probe(c) \/ ProbeRange(c) \/ ProbeHead(c) \/ ProbePlain(c)
          \/ ProbeBreaks(c)
          \/ \E r \in Ranges : Ask(c, r)
          \/ Download(c) \/ DownloadBreaks(c) \/ Finish(c) \/ CloseBody(c)
    \/ CloseDriver

HttpSpec == HttpInit /\ [][HttpNext]_httpVars

(***************************************************************************)
(* Properties.                                                             *)
(***************************************************************************)
(***************************************************************************)
(* Whatever calls run together, retry and fall back: every response body   *)
(* that is not closed is the one kept for the next download or is in the   *)
(* hands of one call (storePendingProbeResponse, takePendingProbeResponse, *)
(* finishDownloadResponse); a body that is given out begins at the offset  *)
(* that was asked for, ends where the requested size ends if the server    *)
(* answered with a range, and is not a decoded whole if a range was asked  *)
(* for (validateDownloadResponse); a size found by a probe is the size of  *)
(* the resource or 0; and with http-auth-challenge no credentials go out   *)
(* before the server has asked for them.                                   *)
(***************************************************************************)
HttpSound ==
    /\ open = Held + Cardinality({c \in Calls : got[c] # Nothing})
    /\ \A c \in Calls : out[c].kind = "body" =>
          /\ out[c].from = call[c].r.offset
          /\ call[c].r.size > 0 /\ got[c].status = 206 =>
                out[c].to = call[c].r.offset + call[c].r.size - 1
          /\ out[c].encoded => call[c].r = NoRange
    /\ \A c \in Calls : out[c].kind = "info" => out[c].size \in {0, Size}
    /\ ~early
=============================================================================
