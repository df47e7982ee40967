----------------------------- MODULE LlmProviders -----------------------------
(***************************************************************************)
(* The LLM providers and who calls them: the registry, which asks its      *)
(* providers one after the other, the last that answered first, and an     *)
(* agent, which asks the one provider it was built with.  A call is an     *)
(* asyncio task; it gives way to the others while a request is out.        *)
(*                                                                         *)
(* Two of the providers use the login of a command line tool, from its     *)
(* file or the keychain, which the tool rewrites when it pleases.  A       *)
(* credential is the end that can be read from it, 0 if there is none to   *)
(* read, and the time of the refresh noted beside it, 0 if none is.  An    *)
(* answer is its HTTP status and the shape of its body.  Time is counted   *)
(* in skews, a minute each.                                                *)
(***************************************************************************)
EXTENDS Integers, Sequences, FiniteSets, SequencesExt

CONSTANTS
  Calls,       \* the tasks that call
  Setups,      \* the providers there may be, by kind: "claude", "codex", "compat"
  Life,        \* how long a login lasts
  FallbackTtl, \* _FALLBACK_TTL_MS
  MaxTime      \* bound on the clock; the last login is before it

ASSUME LlmProvidersAssumption ==
  /\ Setups \subseteq Seq({"claude", "codex", "compat"}) \ {<<>>}
  /\ Life \in Nat /\ FallbackTtl \in Nat /\ MaxTime \in Nat \ {0}

VARIABLES
  kinds,    \* by provider, its kind
  now,
  file,     \* by provider, the credential file of its command line tool
  keychain, \* by provider, its keychain entry
  warm,     \* _last_successful_idx
  calls     \* by task, its call

providerVars == <<kinds, now, file, keychain, warm, calls>>

Providers == DOMAIN kinds
CliProviders == {p \in Providers : kinds[p] # "compat"}
Registry == 0  \* a call's via: the registry, or the agent's provider

Absent == [there |-> FALSE, end |-> 0, refreshed |-> 0]
Credential == [there : BOOLEAN, end : 0..(MaxTime + Life), refreshed : 0..MaxTime]

Results == {"none", "answered", "error", "exhausted", "raised"}

Call ==
  [state : {"idle", "waiting", "done"}, via : Providers \union {Registry},
   order : Seq(Providers), pos : 0..Len(kinds),
   tried : SUBSET Providers, again : BOOLEAN, result : Results]

ProvidersTypeOK ==
  /\ now \in 1..MaxTime /\ warm \in Providers
  /\ file \in [CliProviders -> Credential] /\ keychain \in [CliProviders -> Credential]
  /\ calls \in [Calls -> Call]

NoCall ==
  [state |-> "idle", via |-> Registry, order |-> <<>>, pos |-> 0,
   tried |-> {}, again |-> FALSE, result |-> "none"]

ProvidersInit ==
  /\ kinds \in Setups /\ now = 1 /\ warm = 1
  /\ file = [p \in CliProviders |-> Absent]
  /\ keychain = [p \in CliProviders |-> Absent]
  /\ calls = [c \in Calls |-> NoCall]

-----------------------------------------------------------------------------
(* Credentials.                                                            *)

(* A payload parses when it holds a token and, for Claude, its end.  One   *)
(* that does not parse is as good as none.                                 *)
Parses(p, cred) == cred.there /\ (kinds[p] = "claude" => cred.end > 0)

(* Claude's payload tells its end.  That of codex is in its token, when    *)
(* the token is one that can be decoded.                                   *)
ReadableEnds(p, end) == IF kinds[p] = "claude" THEN {end} ELSE {0, end}

(* The keychain entries that may not be given out when they are wanted.    *)
Dark == SUBSET {p \in CliProviders : ~Parses(p, file[p]) /\ Parses(p, keychain[p])}

(* The file's if it parses, else the keychain's.                           *)
LoadCred(p, dark) ==
  IF Parses(p, file[p]) THEN file[p]
  ELSE IF p \notin dark /\ Parses(p, keychain[p]) THEN keychain[p] ELSE Absent

(* A codex token that does not tell its end is given FallbackTtl from the  *)
(* refresh, or from now.                                                   *)
ExpiresAt(p, cred) ==
  IF cred.end > 0 THEN cred.end
  ELSE FallbackTtl + (IF cred.refreshed > 0 THEN cred.refreshed ELSE now)

Skew == 1
IsFresh(p, cred) == cred.there /\ ExpiresAt(p, cred) > now + Skew

(* An endpoint of the compatible kind has its key for good.                *)
Sendable(p, dark) == p \in CliProviders => IsFresh(p, LoadCred(p, dark))

-----------------------------------------------------------------------------
(* Answers.                                                                *)
Bodies == {"not_json", "no_call", "other_tool", "not_arguments", "invalid",
           "negative_usage", "valid"}

Answers == ({200} \X Bodies) \union ({302, 400, 401, 429, 503} \X {"not_json"})

(* "fine", or the ProviderError: auth, rate_limit, network, provider,      *)
(* parse or schema.                                                        *)
RaiseForStatus(status) ==
  CASE status \in {401, 403} -> "auth"
    [] status = 429 -> "rate_limit"
    [] status >= 500 -> "network"
    [] status \in 400..499 \ {401, 403, 429} -> "provider"
    [] OTHER -> "fine"

ParseMessages(body) ==
  CASE body = "not_json" -> "parse"
    [] body \in {"no_call", "other_tool", "not_arguments", "invalid"} -> "schema"
    [] OTHER -> "fine"

ParseResponses(body) ==
  CASE body \in {"not_json", "not_arguments"} -> "parse"
    [] body \in {"no_call", "other_tool", "invalid"} -> "schema"
    [] OTHER -> "fine"

(* The name of the function is not looked at.                              *)
ParseToolCall(body) ==
  CASE body \in {"not_json", "not_arguments"} -> "parse"
    [] body \in {"no_call", "invalid"} -> "schema"
    [] OTHER -> "fine"

Outcome(p, status, body) ==
  IF RaiseForStatus(status) # "fine" THEN RaiseForStatus(status)
  ELSE CASE kinds[p] = "claude" -> ParseMessages(body)
         [] kinds[p] = "codex" -> ParseResponses(body)
         [] kinds[p] = "compat" -> ParseToolCall(body)

(* How complete() may end: with a ProviderError, which a timeout and a     *)
(* failed connection are too, with an answer, or, when a count of the      *)
(* usage block is negative, with an error that is no ProviderError.        *)
Ends(p) ==
  {"failed"} \union
  {IF Outcome(p, a[1], a[2]) # "fine" THEN "failed"
   ELSE IF a[2] = "negative_usage" THEN "raised" ELSE "answered" : a \in Answers}

-----------------------------------------------------------------------------
(* Calls.                                                                  *)

(* The warm one, and the others in their order.                            *)
OrderedIndices ==
  [n \in Providers |-> IF n = 1 THEN warm ELSE IF n <= warm THEN n - 1 ELSE n]

EndCall(c, call, result) ==
  calls' = [calls EXCEPT ![c] = [call EXCEPT !.state = "done", !.via = Registry,
                                             !.order = <<>>, !.pos = 0,
                                             !.result = result]]

(* The call goes on with the providers from position `from' of its order:  *)
(* those whose credential is missing or stale raise AuthError on the spot, *)
(* and the request goes to the first other one.                            *)
GoOn(c, call, from, dark) ==
  LET order == call.order
      able == {n \in from..Len(order) : Sendable(order[n], dark)}
      stop == IF able = {} THEN Len(order) ELSE CHOOSE n \in able : \A m \in able : n <= m
      asked == {order[n] : n \in from..stop}
      next == [call EXCEPT !.pos = stop, !.tried = @ \union asked,
                           !.again = @ \/ asked \intersect call.tried # {}]
  IN  IF able = {} THEN EndCall(c, next, IF call.via = Registry THEN "exhausted" ELSE "error")
      ELSE calls' = [calls EXCEPT ![c] = [next EXCEPT !.state = "waiting"]]

Complete(c) ==
  /\ calls[c].state # "waiting"
  /\ \E via \in Providers \union {Registry}, dark \in Dark :
       GoOn(c, [NoCall EXCEPT !.via = via,
                  !.order = IF via = Registry THEN OrderedIndices ELSE <<via>>], 1, dark)
  /\ UNCHANGED <<kinds, now, file, keychain, warm>>

(* The order of a call is settled when it begins.                          *)
OrderOfBug(c) ==                 \* mutant: asked for again after each failure
  IF calls[c].via = Registry THEN OrderedIndices ELSE calls[c].order
OrderOf(c) == calls[c].order

NextPositionBug(c) ==            \* mutant: after the last provider the first
  IF calls[c].pos = Len(calls[c].order) THEN 1 ELSE calls[c].pos + 1
NextPosition(c) == calls[c].pos + 1

ProviderOf(c) == calls[c].order[calls[c].pos]

(* A ProviderError: the registry goes on, an agent reports it.             *)
Fallback(c) ==
  /\ UNCHANGED warm
  /\ \E dark \in Dark :
       GoOn(c, [calls[c] EXCEPT !.order = OrderOf(c)], NextPosition(c), dark)

Answer(c) ==
  /\ calls[c].state = "waiting"
  /\ \E end \in Ends(ProviderOf(c)) :
       \/ end = "failed" /\ Fallback(c)
       \/ /\ end # "failed" /\ EndCall(c, calls[c], end)
          /\ warm' = IF end = "answered" /\ calls[c].via = Registry
                     THEN ProviderOf(c) ELSE warm
  /\ UNCHANGED <<kinds, now, file, keychain>>

(* The task is cancelled.                                                  *)
CancelCall(c) ==
  /\ calls[c].state = "waiting" /\ EndCall(c, calls[c], "raised")
  /\ UNCHANGED <<kinds, now, file, keychain, warm>>

-----------------------------------------------------------------------------
(* The command line tools, which also log out, and the clock.              *)
Logins(p) ==
  {Absent} \union
  [there : {TRUE}, end : ReadableEnds(p, now + Life),
   refreshed : IF kinds[p] = "claude" THEN {0} ELSE {0, now}]

LogIn(p) ==
  /\ now < MaxTime
  /\ \E cred \in Logins(p) :
       \/ file' = [file EXCEPT ![p] = cred] /\ UNCHANGED keychain
       \/ keychain' = [keychain EXCEPT ![p] = cred] /\ UNCHANGED file
  /\ UNCHANGED <<kinds, now, warm, calls>>

Tick ==
  /\ now < MaxTime /\ now' = now + 1
  /\ UNCHANGED <<kinds, file, keychain, warm, calls>>

ProvidersNext ==
  \/ \E c \in Calls : Complete(c) \/ Answer(c) \/ CancelCall(c)
  \/ \E p \in CliProviders : LogIn(p)
  \/ Tick

(* A request is answered or times out.                                     *)
ProvidersSpec ==
  /\ ProvidersInit /\ [][ProvidersNext]_providerVars
  /\ \A c \in Calls : WF_providerVars(Answer(c))

-----------------------------------------------------------------------------
(* However the calls of one registry overlap and whoever answers last, a   *)
(* call asks no provider twice, and gives up only after all of them.       *)
EachTriedOnce ==
  \A c \in Calls : /\ ~calls[c].again
                   /\ calls[c].result = "exhausted" => calls[c].tried = Providers

(* Every call comes to its end, whatever its providers answer.             *)
Settles == \A c \in Calls : (calls[c].state = "waiting") ~> (calls[c].state = "done")
=============================================================================
