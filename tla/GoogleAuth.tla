------------------------------ MODULE GoogleAuth ------------------------------
(***************************************************************************)
(* The OAuth tokens of internal/integrations/google (auth.go, gmail.go)    *)
(* and the secrets file they are partly kept in (internal/secrets).        *)
(*                                                                         *)
(* One grant of the user is kept in three places: the key                  *)
(* google_oauth_token of the secrets file, google_token.json and           *)
(* gmail/token.json.  BearerToken reads the first two, NewService the      *)
(* third; both refresh an expired token and write it back, and             *)
(* `gobot reauth` writes all three.  There is no lock: between a read and  *)
(* the write that follows it another goroutine or process may write.       *)
(*                                                                         *)
(* A token is its grant (the number of the reauth that obtained it, 0 for  *)
(* the one the system starts with), whether its access token has expired   *)
(* and whether it has a refresh token.                                     *)
(***************************************************************************)
EXTENDS Integers, FiniteSets

CONSTANTS
  Mailers,     \* goroutines that call NewService
  Bearers,     \* goroutines that call BearerToken
  None,        \* no token
  MaxGrants,   \* bound on grants obtained by reauth
  MaxExpiries  \* bound on expiries of access tokens

ASSUME ClientsAssumption == Mailers \intersect Bearers = {}
ASSUME AuthBoundsAssumption == MaxGrants \in Nat /\ MaxExpiries \in Nat

VARIABLES
  secret,    \* the secrets file: key -> value
  tokenFile, \* google_token.json ("google") and gmail/token.json ("gmail")
  apc,       \* client -> where it is
  hand,      \* client -> the token it has in memory
  smap,      \* client -> the secrets it has loaded and is about to save
  dead,      \* clients whose context is done
  revoked,   \* grants that Google no longer honours
  granted,   \* number of grants Google has issued to reauth
  expiries

authVars == <<secret, tokenFile, apc, hand, smap, dead, revoked, granted, expiries>>

Clients == Mailers \union Bearers \union {"reauth", "cli"}
Token(g) == [grant |-> g, expired |-> FALSE, refresh |-> TRUE]
Tokens == [grant : 0 .. MaxGrants, expired : BOOLEAN, refresh : BOOLEAN]
Secrets == [google_oauth_token : Tokens \union {None}, other : 0 .. 1]

AuthInit ==
  /\ \E t \in {Token(0), [Token(0) EXCEPT !.expired = TRUE],
               [grant |-> 0, expired |-> TRUE, refresh |-> FALSE]} :
       /\ tokenFile = [s \in {"google", "gmail"} |-> t]
       /\ \E d \in {None, t} : secret = [google_oauth_token |-> d, other |-> 0]
  /\ apc = [c \in Clients |-> "idle"]
  /\ hand = [c \in Clients |-> None]
  /\ smap = [c \in Clients |-> None]
  /\ dead = {}
  /\ revoked = {}
  /\ granted = 0
  /\ expiries = 0

At(c, where) == apc[c] = where
GotoA(c, where) == apc' = [apc EXCEPT ![c] = where]
GoogleSide == UNCHANGED <<dead, revoked, granted, expiries>>
StoresKept == UNCHANGED <<secret, tokenFile>>
-----------------------------------------------------------------------------
(***************************************************************************)
(* SecretsStore.  Set and Delete load the whole file, change one key and   *)
(* save the whole file; protecting the value, reading or writing may fail, *)
(* and then the file is as it was.                                         *)
(***************************************************************************)
setLoad(c, from, to, failed) ==
  /\ At(c, from)
  /\ \/ smap' = [smap EXCEPT ![c] = secret] /\ GotoA(c, to)
     \/ GotoA(c, failed) /\ UNCHANGED smap
  /\ UNCHANGED hand
  /\ GoogleSide /\ StoresKept

setSave(c, from, m, to) ==
  /\ At(c, from)
  /\ GotoA(c, to)
  /\ \/ secret' = m
     \/ UNCHANGED secret
  /\ smap' = [smap EXCEPT ![c] = None]
  /\ UNCHANGED <<tokenFile, hand>>
  /\ GoogleSide

WithToken(c) == [smap[c] EXCEPT !.google_oauth_token = hand[c]]

\* `gobot secrets set` or `delete` of another key, or the round-trip test of the doctor.
cliSecrets ==
  \/ setLoad("cli", "idle", "set", "done")
  \/ \E v \in 0 .. 1 : setSave("cli", "set", [smap["cli"] EXCEPT !.other = v], "done")
-----------------------------------------------------------------------------
(***************************************************************************)
(* refreshToken: one request to the token endpoint.  A revoked grant is    *)
(* answered with invalid_grant; a request whose context is done fails, and *)
(* any request may.                                                        *)
(***************************************************************************)
RefreshOutcomes(c) ==
  (IF c \in dead THEN {} ELSE IF hand[c].grant \in revoked THEN {"invalid_grant"} ELSE {"ok"})
  \union {"error"}

refreshToken(c, from, saved, refused, failed) ==
  /\ At(c, from)
  /\ \E o \in RefreshOutcomes(c) :
       CASE o = "ok" -> hand' = [hand EXCEPT ![c].expired = FALSE] /\ GotoA(c, saved)
         [] o = "invalid_grant" -> UNCHANGED hand /\ GotoA(c, refused)
         [] OTHER -> UNCHANGED hand /\ GotoA(c, failed)
  /\ UNCHANGED smap
  /\ GoogleSide /\ StoresKept

\* Reading a token: what the reader does next depends on what it finds.
readToken(c, from, t, next) ==
  /\ At(c, from)
  /\ hand' = [hand EXCEPT ![c] = t]
  /\ GotoA(c, next)
  /\ UNCHANGED smap
  /\ GoogleSide /\ StoresKept

\* Writing a refreshed token back is best effort.
writeBack(c, from, s) ==
  /\ At(c, from)
  /\ GotoA(c, "ok")
  /\ \/ tokenFile' = [tokenFile EXCEPT ![s] = hand[c]]
     \/ UNCHANGED tokenFile
  /\ UNCHANGED <<secret, hand, smap>>
  /\ GoogleSide
-----------------------------------------------------------------------------
(***************************************************************************)
(* NewService(ctx, secretsRoot/gmail): token.json only.                    *)
(***************************************************************************)
AfterTokenJSON(t) ==
  IF t = None THEN "err"
  ELSE IF ~t.expired THEN "ok"
  ELSE IF t.refresh THEN "refresh" ELSE "needsReauth"

NewService(c) ==
  \/ readToken(c, "load", tokenFile["gmail"], AfterTokenJSON(tokenFile["gmail"]))
  \/ refreshToken(c, "refresh", "save", "needsReauth", "err")
  \/ writeBack(c, "save", "gmail")

(***************************************************************************)
(* BearerToken: the secrets file first; whatever is wrong with that token, *)
(* google_token.json is the fallback.                                      *)
(***************************************************************************)
AfterSecret(t) ==
  IF t = None THEN "file"
  ELSE IF ~t.expired THEN "ok"
  ELSE IF t.refresh THEN "drefresh" ELSE "file"

AfterTokenFile(t) ==
  IF t = None THEN "err"
  ELSE IF ~t.expired THEN "ok"
  ELSE IF t.refresh THEN "frefresh" ELSE "err"

tryLoadTokenFromDPAPI(c) ==
  \/ readToken(c, "dpapi", secret.google_oauth_token, AfterSecret(secret.google_oauth_token))
  \/ readToken(c, "dpapi", None, AfterSecret(None))          \* Get fails
  \/ refreshToken(c, "drefresh", "dload", "file", "file")
  \/ setLoad(c, "dload", "dsave", "ok")
  \/ setSave(c, "dsave", WithToken(c), "ok")

BearerToken(c) ==
  \/ tryLoadTokenFromDPAPI(c)
  \/ readToken(c, "file", tokenFile["google"], AfterTokenFile(tokenFile["google"]))
  \/ refreshToken(c, "frefresh", "fsave", "err", "err")
  \/ writeBack(c, "fsave", "google")

-----------------------------------------------------------------------------
(***************************************************************************)
(* AuthorizeInteractive (`gobot reauth`): the browser returns a code or    *)
(* not, the exchange yields a token of a new grant or not, and             *)
(* persistToken writes it to the three places, the secrets file as best it *)
(* can; a failed write of either token file ends it with an error.         *)
(***************************************************************************)
authorize ==
  /\ At("reauth", "idle")
  /\ granted < MaxGrants
  /\ \/ GotoA("reauth", "idle") /\ UNCHANGED <<granted, hand>>
     \/ /\ granted' = granted + 1
        /\ hand' = [hand EXCEPT !["reauth"] = Token(granted + 1)]
        /\ GotoA("reauth", "pload")
  /\ UNCHANGED <<smap, dead, revoked, expiries>>
  /\ StoresKept

writeTokenFile(from, s, to) ==
  /\ At("reauth", from)
  /\ \/ tokenFile' = [tokenFile EXCEPT ![s] = hand["reauth"]] /\ GotoA("reauth", to)
     \/ GotoA("reauth", "idle") /\ UNCHANGED tokenFile
  /\ UNCHANGED <<secret, hand, smap>>
  /\ GoogleSide

persistToken ==
  \/ setLoad("reauth", "pload", "psave", "pgoogle")
  \/ setSave("reauth", "psave", WithToken("reauth"), "pgoogle")
  \/ writeTokenFile("pgoogle", "google", "pgmail")
  \/ writeTokenFile("pgmail", "gmail", "idle")

AuthorizeInteractive == authorize \/ persistToken
-----------------------------------------------------------------------------
(***************************************************************************)
(* Send with a token: a post that fails in a way that may pass is made     *)
(* again, three posts in all.  Gmail may have taken a post that reported   *)
(* an error, and has no key to tell its repetition by.  Of a Send matters  *)
(* what the caller sees (ok) and how many mails Gmail took (copies).       *)
(***************************************************************************)
MaxAttempts == 3

NotSent == [ok |-> FALSE, copies |-> 0]
SendOutcomes == [ok : {TRUE}, copies : 1 .. MaxAttempts] \union [ok : {FALSE}, copies : 0 .. MaxAttempts]
-----------------------------------------------------------------------------
(***************************************************************************)
(* Time and Google: the access tokens of a grant expire; an older grant is *)
(* revoked once there is a newer one.                                      *)
(***************************************************************************)
Expired(t, g) == IF t # None /\ t.grant = g THEN [t EXCEPT !.expired = TRUE] ELSE t

TokensExpire ==
  /\ expiries < MaxExpiries
  /\ expiries' = expiries + 1
  /\ \E g \in 0 .. granted :
       /\ tokenFile' = [s \in DOMAIN tokenFile |-> Expired(tokenFile[s], g)]
       /\ secret' = [secret EXCEPT !.google_oauth_token = Expired(@, g)]
  /\ UNCHANGED <<apc, hand, smap, dead, revoked, granted>>

Revoke ==
  /\ \E g \in 0 .. granted - 1 : g \notin revoked /\ revoked' = revoked \union {g}
  /\ UNCHANGED <<secret, tokenFile, apc, hand, smap, dead, granted, expiries>>

AuthNext ==
  \/ \E c \in Mailers : NewService(c)
  \/ \E c \in Bearers : BearerToken(c)
  \/ AuthorizeInteractive \/ cliSecrets
  \/ TokensExpire \/ Revoke
-----------------------------------------------------------------------------
AuthTypeOK ==
  /\ secret \in Secrets
  /\ tokenFile \in [{"google", "gmail"} -> Tokens]
  /\ hand \in [Clients -> Tokens \union {None}]
  /\ smap \in [Clients -> Secrets \union {None}]
  /\ dead \subseteq Clients
  /\ granted <= MaxGrants
  /\ revoked \subseteq 0 .. MaxGrants
=============================================================================
