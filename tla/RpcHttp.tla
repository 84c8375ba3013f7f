------------------------------ MODULE RpcHttp ------------------------------
(***************************************************************************)
(* The HTTP side of the RPC server: what handleJSONRPC, handleJSONP,       *)
(* handleXMLRPC and handleRoot do with a request, the decoding of JSON-RPC *)
(* bodies and of XML-RPC calls, the token checks of the transport, of the  *)
(* adapter and of Dispatcher.Call, and the responses.                      *)
(*                                                                         *)
(* The parameters of an XML-RPC call are a slice of the parser that decoded*)
(* it.  DecodeCall puts the parser back before the call is made, so a      *)
(* request that is decoded meanwhile with the same parser writes into      *)
(* them, as long as they fit.                                              *)
(***************************************************************************)
EXTENDS Naturals, Sequences, FiniteSets, SequencesExt

CONSTANTS Clients,   \* requests that are served at the same time
          Parsers,   \* parserPool
          Requests,  \* what clients send: see Early, Decode and Outcome
          Setups     \* [secret, user, readOnly]: what is configured

VARIABLES setup,  \* one of Setups
          cl,     \* a record for each request, see NewRequest
          room    \* how many parameters fit in the array of a parser

rpcVars == <<setup, cl, room>>

(* did: the calls that were made; resps: the responses of the batch;       *)
(* mixed: another call's parameters were written over these.               *)
NewRequest ==
  [at |-> "idle", path |-> "none", els |-> <<>>, i |-> 1, vals |-> <<>>,
   parser |-> 0, resps |-> <<>>, did |-> <<>>, mixed |-> FALSE, status |-> "none"]

RpcInit ==
  /\ setup \in Setups
  /\ cl = [c \in Clients |-> NewRequest]
  /\ room = [p \in Parsers |-> 0]

Set(c, r) == cl' = [cl EXCEPT ![c] = r]

Answered(r, status) == [r EXCEPT !.at = "answered", !.status = status, !.parser = 0]

(***************************************************************************)
(* Tokens; "list" stands for the methods that need none.  The first        *)
(* parameter may be "token:" and the secret, the secret alone, "token:"    *)
(* and something else, or no token at all.                                 *)
(***************************************************************************)
First(vals) == IF vals = <<>> THEN "nothing" ELSE Head(vals)[2]

requiresSecretToken(method) == method # "list"

authenticate(vals) == ~setup.secret \/ First(vals) \in {"token", "secret"}

\* mutant of authCheck: what the transport let through is good enough
AuthCheckTrusts(method, token) == TRUE

authCheck(method, token) ==
  ~requiresSecretToken(method) \/ ~setup.secret \/ token = "secret"

(* extractRPCSecretToken of the adapter.                                   *)
Token(vals) ==
  CASE First(vals) = "token" -> "secret"
    [] First(vals) = "badtoken" -> "other"
    [] OTHER -> ""

Remaining(vals) ==
  IF First(vals) \in {"token", "badtoken"} THEN Tail(vals) ELSE vals

(* Dispatcher.Call: the outcome, and the call when one is made.            *)
Call(r, el, vals) ==
  IF ~authCheck(el.method, Token(vals)) THEN [r EXCEPT !.resps = Append(@, "unauthorized")]
  ELSE IF setup.readOnly /\ el.method = "change" THEN [r EXCEPT !.resps = Append(@, "readonly")]
  ELSE [r EXCEPT !.resps = Append(@, "result"),
                 !.did = Append(@, [el |-> el, args |-> Remaining(vals)])]

(***************************************************************************)
(* Decoding.                                                               *)
(***************************************************************************)
Tagged(c, vals) == [k \in DOMAIN vals |-> <<c, vals[k]>>]

(* decodeBatch skips what is not an object; a single one that is not an    *)
(* object is an invalid request.                                           *)
IsObject(el) == el.form # "nonobject"

Decode(body) == IF body.batch THEN SelectSeq(body.els, IsObject) ELSE body.els

(* The pooled parser: reset keeps the array its params were in.            *)
Overwrite(vals, new) ==
  [k \in DOMAIN vals |-> IF k <= Len(new) THEN new[k] ELSE vals[k]]

Sharing(c, p) == {d \in Clients \ {c} : cl[d].parser = p}

DecodeCall(c, p, r) ==
  LET vals == Tagged(c, r.els[1].vals)
      fits == Len(vals) <= room[p]
  IN  /\ cl' = [d \in Clients |->
                  IF d = c
                  THEN [r EXCEPT !.at = "auth", !.vals = vals, !.parser = p]
                  ELSE IF d \in Sharing(c, p)
                  THEN IF fits
                       THEN [cl[d] EXCEPT !.vals = Overwrite(@, vals), !.mixed = TRUE]
                       ELSE [cl[d] EXCEPT !.parser = 0]
                  ELSE cl[d]]
      /\ room' = [room EXCEPT ![p] = IF fits THEN @ ELSE Len(vals)]

(***************************************************************************)
(* The requests.                                                           *)
(***************************************************************************)
(* corsHandler, and the checks every path begins with.                     *)
authenticateHTTP(req) == ~setup.user \/ req.basic

Refused(req) ==
  CASE req.verb = "OPTIONS" -> "options"
    [] req.verb # "OPTIONS" /\ ~authenticateHTTP(req) -> "401"
    [] OTHER -> "no"

(* The part of a request that comes before its decoding: its status, or    *)
(* "no" when it goes on.  An oversized request is closed with no answer.   *)
handleRoot(req) == "404"

handleXML(req) ==
  IF req.verb # "POST" THEN "405"
  ELSE IF req.big THEN "aborted"
  ELSE IF ~req.readable \/ req.body.garbage THEN "error"
  ELSE "no"

handleJSON(req) ==
  IF req.verb = "GET" /\ req.upgrade THEN "websocket"
  ELSE IF req.verb \notin {"GET", "POST"} THEN "405"
  ELSE IF req.verb = "POST" /\ req.big THEN "aborted"
  ELSE IF req.verb = "POST" /\ ~req.readable THEN "error"
  ELSE IF req.body.garbage THEN "error"
  ELSE "no"

Early(req) ==
  IF Refused(req) # "no" THEN Refused(req)
  ELSE CASE req.path = "root" -> handleRoot(req)
         [] req.path = "xml" -> handleXML(req)
         [] req.path = "json" -> handleJSON(req)

Serve(c, req) ==
  /\ cl[c].at = "idle"
  /\ LET r == [cl[c] EXCEPT !.path = req.path, !.els = Decode(req.body)]
     IN  IF Early(req) # "no"
         THEN Set(c, Answered([r EXCEPT !.els = <<>>], Early(req))) /\ UNCHANGED room
         ELSE IF req.path = "xml"
         THEN \E p \in Parsers : DecodeCall(c, p, r)
         ELSE Set(c, [r EXCEPT !.at = "each"]) /\ UNCHANGED room
  /\ UNCHANGED setup

(* One request of a JSON body: handleSingleJSONRPC, handleBatchJSONRPC and *)
(* their JSONP counterparts.                                               *)
Outcome(c, r, el) ==
  LET vals == Tagged(c, el.vals)
  IN  CASE el.form \in {"invalid", "nonobject", "noid"} ->
             [r EXCEPT !.resps = Append(@, "invalid")]
        [] el.form = "badparams" -> [r EXCEPT !.resps = Append(@, "parse")]
        [] el.form = "ok" ->
             IF requiresSecretToken(el.method) /\ ~authenticate(vals)
             THEN [r EXCEPT !.resps = Append(@, "unauthorized")]
             ELSE Call(r, el, vals)

Element(c) ==
  LET r == cl[c]
  IN  /\ r.at = "each"
      /\ r.i <= Len(r.els)
      /\ Set(c, [Outcome(c, r, r.els[r.i]) EXCEPT !.i = @ + 1])
      /\ UNCHANGED <<setup, room>>

Respond(c) ==
  /\ cl[c].at = "each"
  /\ cl[c].i > Len(cl[c].els)
  /\ Set(c, Answered(cl[c], "response"))
  /\ UNCHANGED <<setup, room>>

(* The call of an XML body.  normalizeXMLRPCUploadParams has a copy of the *)
(* parameters of an upload.                                                *)
Normalize(c) ==
  /\ cl[c].at = "auth"
  /\ cl[c].els[1].method = "upload"
  /\ cl[c].parser # 0
  /\ Set(c, [cl[c] EXCEPT !.parser = 0])
  /\ UNCHANGED <<setup, room>>

Auth(c) ==
  LET r == cl[c]
      el == r.els[1]
  IN  /\ r.at = "auth"
      /\ el.method = "upload" => r.parser = 0
      /\ IF requiresSecretToken(el.method) /\ ~authenticate(r.vals)
         THEN Set(c, Answered([r EXCEPT !.resps = <<"unauthorized">>], "response"))
         ELSE Set(c, [r EXCEPT !.at = "call"])
      /\ UNCHANGED <<setup, room>>

CallXML(c) ==
  LET r == cl[c]
  IN  /\ r.at = "call"
      /\ Set(c, Answered(Call(r, r.els[1], r.vals), "response"))
      /\ UNCHANGED <<setup, room>>

RpcNext ==
  \E c \in Clients :
    \/ \E req \in Requests : Serve(c, req)
    \/ Element(c) \/ Respond(c) \/ Normalize(c) \/ Auth(c) \/ CallXML(c)

RpcSpec == RpcInit /\ [][RpcNext]_rpcVars

-----------------------------------------------------------------------------
\* Whose call may be made.
Permitted(el) ==
  /\ el.form = "ok"
  /\ \/ ~setup.secret
     \/ el.method = "list"
     \/ el.vals # <<>> /\ Head(el.vals) = "token"
  /\ ~(setup.readOnly /\ el.method = "change")

(* Every object of a batch has its response, in its place; a call is made  *)
(* only for a request that is well formed and carries the secret with its  *)
(* prefix, or whose method needs none, never in read-only mode when it     *)
(* changes something itself, and with the parameters of that very request, *)
(* unless another XML-RPC request was decoded before the call was made     *)
(* (handleBatchJSONRPC, authenticate, authCheck, DecodeCall).              *)
RpcSound ==
  \A c \in Clients :
    LET r == cl[c]
    IN  /\ (r.at = "answered" /\ r.status = "response") =>
             /\ Len(r.resps) = Len(r.els)
             /\ \A i \in DOMAIN r.els :
                  ~r.mixed => (r.resps[i] = "result" <=> Permitted(r.els[i]))
        /\ r.status \notin {"none", "response"} => r.did = <<>>
        /\ ~r.mixed => \A i \in DOMAIN r.did :
                         /\ Permitted(r.did[i].el)
                         /\ \A k \in DOMAIN r.did[i].args : r.did[i].args[k][1] = c
=============================================================================
