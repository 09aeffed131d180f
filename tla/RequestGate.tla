---------------------------- MODULE RequestGate ----------------------------
(***************************************************************************)
(* The way of a certificate inspection through the server: the rate        *)
(* limiter (RateLimiter), the Turnstile check (internal/api/turnstile.go), *)
(* InspectHandler and parseCertWithTimeout (internal/api/handlers/         *)
(* inspect.go), which parses in a goroutine of its own, waits for it no    *)
(* longer than ten seconds, and lets no more than a fixed number run.      *)
(* The requests of the other routes share the limiter (Traffic).           *)
(***************************************************************************)
EXTENDS RateLimiter

CONSTANTS
  Request,      \* the inspections that arrive
  Slots,        \* cap(certParseSlots)
  TurnstileOn   \* cfg.TurnstileSecret is set

ASSUME SlotsAssumption == Slots \in Nat \ {0}
ASSUME TurnstileAssumption == TurnstileOn \in BOOLEAN

VARIABLES
  phase,        \* where each request is
  parser,       \* the goroutine each request started
  channel,      \* how many results are in the buffer of its channel
  slots         \* len(certParseSlots)

inspectVars == <<phase, parser, channel, slots>>
gateVars == <<rateVars, inspectVars>>

Phase == {"new", "turnstile", "handler", "waiting", "answered"}
Parser == {"none", "parsing", "sending", "releasing", "exited"}

GateTypeOK ==
  /\ RateTypeOK
  /\ phase \in [Request -> Phase]
  /\ parser \in [Request -> Parser]
  /\ channel \in [Request -> 0..1]
  /\ slots \in 0..Slots

GateInit ==
  /\ RateInit
  /\ phase = [r \in Request |-> "new"]
  /\ parser = [r \in Request |-> "none"]
  /\ channel = [r \in Request |-> 0]
  /\ slots = 0

-----------------------------------------------------------------------------
(* The routes of NewRouter by first path element: the limiter in front of  *)
(* each and whether Turnstile follows.  pollLimiter is a second limiter,   *)
(* of 60 and 600; /health has none.                                        *)
Route == {"health", "stats", "thanks", "queue", "convert", "merge", "generate",
          "inspect", "archive", "contact", "download"}

LimiterOf(route) ==
  CASE route = "health" -> "none"
    [] route \in {"stats", "queue"} -> "pollLimiter"
    [] OTHER -> "rateLimiter"

BehindTurnstile(route) == route \notin {"health", "stats", "queue", "download"}

GoTo(r, next) == phase' = [phase EXCEPT ![r] = next]

Respond(r) == GoTo(r, "answered")

(* Middleware: trusted peers pass without being counted; the others are    *)
(* counted by getClientIP and answered 429 over a limit.                   *)
Limit(r, k, trusted) ==
  /\ phase[r] = "new" /\ LimiterOf("inspect") = "rateLimiter"
  /\ \/ trusted /\ UNCHANGED rateVars /\ GoTo(r, "handler")
     \/ ~trusted /\ AllowFalse(k) /\ Respond(r)
     \/ ~trusted /\ AllowTrue(k)
        /\ GoTo(r, IF TurnstileOn /\ BehindTurnstile("inspect") THEN "turnstile" ELSE "handler")
  /\ UNCHANGED <<parser, channel, slots>>

(* Success; or 403 without a token or on a refusal, 500 when the service   *)
(* does not answer within its timeout or the answer does not decode.       *)
Verify(r) ==
  /\ phase[r] = "turnstile"
  /\ Respond(r) \/ GoTo(r, "handler")
  /\ UNCHANGED <<rateVars, parser, channel, slots>>

(* A request for another route behind the same limiter.                    *)
Traffic(k) ==
  /\ \E route \in Route \ {"inspect"} : LimiterOf(route) = "rateLimiter"
  /\ AllowTrue(k) \/ AllowFalse(k)
  /\ UNCHANGED inspectVars

-----------------------------------------------------------------------------
(* Form, size and password checks, or a body that cannot be read.          *)
HandlerRefuse(r) ==
  /\ phase[r] = "handler"
  /\ Respond(r)
  /\ UNCHANGED <<rateVars, parser, channel, slots>>

MutantTakeSlot(r) ==
  /\ phase[r] = "handler"
  /\ slots < Slots
  /\ parser' = [parser EXCEPT ![r] = "parsing"]
  /\ GoTo(r, "waiting")
  /\ UNCHANGED <<rateVars, channel, slots>>

TakeSlot(r) ==
  /\ phase[r] = "handler"
  /\ slots < Slots
  /\ slots' = slots + 1
  /\ parser' = [parser EXCEPT ![r] = "parsing"]
  /\ GoTo(r, "waiting")
  /\ UNCHANGED <<rateVars, channel>>

(* The default branch of the select: "certificate parser busy".            *)
ParserBusy(r) ==
  /\ phase[r] = "handler"
  /\ slots = Slots
  /\ Respond(r)
  /\ UNCHANGED <<rateVars, parser, channel, slots>>

MutantDeadline(r) == FALSE

(* ctx.Done: ten seconds are over or the client has gone.                  *)
Deadline(r) ==
  /\ phase[r] = "waiting"
  /\ Respond(r)
  /\ UNCHANGED <<rateVars, parser, channel, slots>>

(* The other branch of the select, with the certificate or an error; both  *)
(* branches may be ready.                                                  *)
Receive(r) ==
  /\ phase[r] = "waiting" /\ channel[r] = 1
  /\ Respond(r)
  /\ channel' = [channel EXCEPT ![r] = 0]
  /\ UNCHANGED <<rateVars, parser, slots>>

-----------------------------------------------------------------------------
(* ParseCertificate returns: a result, an error, or a panic of a parser    *)
(* library that its recover turns into an error.                           *)
ParserReturns(r) ==
  /\ parser[r] = "parsing"
  /\ parser' = [parser EXCEPT ![r] = "sending"]
  /\ UNCHANGED <<rateVars, phase, channel, slots>>

MutantSend(r) ==
  /\ parser[r] = "sending" /\ phase[r] = "waiting" /\ channel[r] = 0
  /\ channel' = [channel EXCEPT ![r] = 1]
  /\ parser' = [parser EXCEPT ![r] = "releasing"]
  /\ UNCHANGED <<rateVars, phase, slots>>

(* ch has room for one result, so nobody has to receive it.                *)
Send(r) ==
  /\ parser[r] = "sending" /\ channel[r] = 0
  /\ channel' = [channel EXCEPT ![r] = 1]
  /\ parser' = [parser EXCEPT ![r] = "releasing"]
  /\ UNCHANGED <<rateVars, phase, slots>>

(* The deferred receive from certParseSlots.                               *)
ReleaseSlot(r) ==
  /\ parser[r] = "releasing"
  /\ slots' = slots - 1
  /\ parser' = [parser EXCEPT ![r] = "exited"]
  /\ UNCHANGED <<rateVars, phase, channel>>

-----------------------------------------------------------------------------
HandlerStep(r) ==
  \/ \E k \in Key, trusted \in BOOLEAN : Limit(r, k, trusted)
  \/ Verify(r) \/ HandlerRefuse(r) \/ TakeSlot(r) \/ ParserBusy(r)
  \/ Deadline(r) \/ Receive(r)

GateNext ==
  \/ \E r \in Request : HandlerStep(r) \/ ParserReturns(r) \/ Send(r) \/ ReleaseSlot(r)
  \/ \E k \in Key : Traffic(k)
  \/ Cleanup /\ UNCHANGED inspectVars
  \/ Tick /\ UNCHANGED inspectVars

(* A handler goes on (the service is called with a timeout, the deadline   *)
(* passes), and so does a goroutine whose parser has returned.  Nothing    *)
(* says that a parser returns, that clients ask or that time is observed.  *)
GateFairness ==
  \A r \in Request :
    /\ WF_gateVars(HandlerStep(r))
    /\ WF_gateVars(Send(r))
    /\ WF_gateVars(ReleaseSlot(r))

GateSpec == GateInit /\ [][GateNext]_gateVars /\ GateFairness

-----------------------------------------------------------------------------
Running(r) == parser[r] \in {"parsing", "sending", "releasing"}

(* A slot is held exactly as long as a parser goroutine lives, also after  *)
(* its request was answered at the deadline: never more than Slots run.    *)
SlotsAreParsers ==
  /\ slots = Cardinality({r \in Request : Running(r)})
  /\ Cardinality({r \in Request : Running(r)}) <= Slots

(* A parser that never returns does not hold up the request it belongs to, *)
(* nor any other.                                                          *)
EveryRequestAnswered ==
  \A r \in Request : phase[r] # "new" ~> phase[r] = "answered"

(* A parser that returns after its request was answered still gives its    *)
(* slot back: its result goes to the buffer of the channel.                *)
ReturnedParserFreesSlot ==
  \A r \in Request : parser[r] = "sending" ~> parser[r] = "exited"
=============================================================================
