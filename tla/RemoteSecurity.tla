---------------------------- MODULE RemoteSecurity ----------------------------
(***************************************************************************)
(* codeOrchestra.colt.core.rpc.security: a tool that wants to use the API   *)
(* asks for a short code, which COLT shows to its user; the tool exchanges  *)
(* the code the user types for a token, which is kept in the preferences    *)
(* and accepted from then on, across restarts.                              *)
(*                                                                         *)
(* The methods of ColtRemoteSecurityManager are synchronized: each is one   *)
(* action.  Preferences that cannot be synchronized stay in memory, from    *)
(* where the library writes them later unless the program ends first.       *)
(***************************************************************************)
EXTENDS Naturals, Sequences, TLC

CONSTANTS Codes,               \* the short codes that are drawn
          Tokens,              \* the tokens, each generated at most once
          Null,                \* null
          MAX_TOKENS_COUNT,
          MAX_FAILED_ATTEMPTS

ASSUME NullAssumption == Null \notin Tokens \cup Seq(Tokens) \cup Codes
ASSUME MaxAssumption ==
  MAX_TOKENS_COUNT \in Nat \ {0} /\ MAX_FAILED_ATTEMPTS \in Nat

VARIABLES
  shortCodeToToken, \* the token each code stands for, or Null
  failedAttempts,
  forcePause,
  tokensCache,      \* what was last read from the preferences, or Null
  preferences,      \* the tokens in the preferences, as the program sees them
  persisted,        \* the tokens in the preferences, as a restart finds them
  fxQueue,          \* updates of the notification the JavaFX thread has yet to do
  shown,            \* the code the notification shows, or Null
  generated,        \* history: the tokens generated so far
  stored,           \* history: the tokens put into the preferences, in order
  granted,          \* history: the tokens returned to tools, in order
  wrong             \* history: wrong guesses seen by each outstanding code

codeVars  == <<shortCodeToToken, failedAttempts, forcePause, wrong>>
tokenVars == <<tokensCache, preferences, persisted, stored>>
viewVars  == <<fxQueue, shown>>
vars == <<codeVars, tokenVars, viewVars, generated, granted>>

TypeOK ==
  /\ shortCodeToToken \in [Codes -> Tokens \cup {Null}]
  /\ failedAttempts \in 0..MAX_FAILED_ATTEMPTS
  /\ forcePause \in BOOLEAN
  /\ tokensCache \in Seq(Tokens) \cup {Null}
  /\ preferences \in Seq(Tokens)
  /\ persisted \in Seq(Tokens)
  /\ fxQueue \in Seq(Codes \cup {Null})
  /\ shown \in Codes \cup {Null}
  /\ generated \subseteq Tokens
  /\ stored \in Seq(Tokens)
  /\ granted \in Seq(Tokens)
  /\ wrong \in [Codes -> Nat]

NoCodes == [c \in Codes |-> Null]

Init ==
  /\ shortCodeToToken = NoCodes
  /\ failedAttempts = 0
  /\ forcePause = FALSE
  /\ tokensCache = Null
  /\ preferences = << >>
  /\ persisted = << >>
  /\ fxQueue = << >>
  /\ shown = Null
  /\ generated = {}
  /\ stored = << >>
  /\ granted = << >>
  /\ wrong = [c \in Codes |-> 0]

Elements(s) == {s[i] : i \in 1..Len(s)}

(* getAuthTokens: the cache, which is filled from the preferences. *)
AuthTokens == IF tokensCache = Null THEN preferences ELSE tokensCache

(* addAuthToken: append the token, and forget the oldest beyond the bound. *)
WithToken(tokens, t) ==
  LET all == IF t \in Elements(tokens) THEN tokens ELSE Append(tokens, t)
  IN  IF Len(all) > MAX_TOKENS_COUNT THEN Tail(all) ELSE all

(***************************************************************************)
(* The calls of the tools.                                                 *)
(***************************************************************************)

(* createNewTokenAndGetShortCode: codes are random, so one that is already   *)
(* outstanding may be drawn again.                                          *)
RequestShortCode(c, t) ==
  /\ t \notin generated
  /\ generated' = generated \cup {t}
  /\ forcePause' = FALSE
  /\ shortCodeToToken' = [shortCodeToToken EXCEPT ![c] = t]
  /\ fxQueue' = Append(fxQueue, c)
  /\ wrong' = [wrong EXCEPT ![c] = 0]
  /\ UNCHANGED <<failedAttempts, tokenVars, shown, granted>>

(* A wrong guess that leaves the codes outstanding. *)
CountFailure ==
  /\ failedAttempts' = failedAttempts + 1
  /\ wrong' = [c \in Codes |->
                 IF shortCodeToToken[c] = Null THEN 0 ELSE wrong[c] + 1]
  /\ UNCHANGED <<shortCodeToToken, forcePause>>

(* Variant: the count starts again but the codes are kept. *)
WrongCodeKept ==
  /\ IF failedAttempts + 1 > MAX_FAILED_ATTEMPTS
     THEN /\ failedAttempts' = 0
          /\ forcePause' = TRUE
          /\ UNCHANGED <<shortCodeToToken, wrong>>
     ELSE CountFailure
  /\ UNCHANGED <<tokenVars, viewVars, generated, granted>>

(* Variant: the next request need not pause. *)
WrongCodeNoPause ==
  /\ IF failedAttempts + 1 > MAX_FAILED_ATTEMPTS
     THEN /\ failedAttempts' = 0
          /\ shortCodeToToken' = NoCodes
          /\ wrong' = [c \in Codes |-> 0]
          /\ UNCHANGED forcePause
     ELSE CountFailure
  /\ UNCHANGED <<tokenVars, viewVars, generated, granted>>

(* obtainAuthToken with a code that is not outstanding (there always is one: *)
(* codes have four digits): too many of these drop all codes and make the    *)
(* next request pause.                                                      *)
WrongCode ==
  /\ IF failedAttempts + 1 > MAX_FAILED_ATTEMPTS
     THEN /\ failedAttempts' = 0
          /\ shortCodeToToken' = NoCodes
          /\ wrong' = [c \in Codes |-> 0]
          /\ forcePause' = TRUE
     ELSE CountFailure
  /\ UNCHANGED <<tokenVars, viewVars, generated, granted>>

(* storeAuthTokens, with the cache invalidated in finally; what it puts is   *)
(* persisted if preferences.sync() succeeds.                                *)
Store(t, synced) ==
  /\ preferences' = WithToken(AuthTokens, t)
  /\ persisted' = IF synced THEN WithToken(AuthTokens, t) ELSE persisted
  /\ stored' = Append(stored, t)
  /\ tokensCache' = Null

(* Forgetting a code when it is exchanged, whatever becomes of its token. *)
RemoveCode(c) ==
  /\ shortCodeToToken' = [shortCodeToToken EXCEPT ![c] = Null]
  /\ wrong' = [wrong EXCEPT ![c] = 0]
  /\ UNCHANGED <<failedAttempts, forcePause>>

(* obtainAuthToken with an outstanding code. *)
ObtainAuthToken(c) ==
  /\ shortCodeToToken[c] # Null
  /\ RemoveCode(c)
  /\ Store(shortCodeToToken[c], TRUE)
  /\ granted' = Append(granted, shortCodeToToken[c])
  /\ fxQueue' = Append(fxQueue, Null)
  /\ UNCHANGED <<shown, generated>>

(* The same when preferences.sync() fails: the code is gone, the tool gets   *)
(* an exception for its token and the notification is not told.             *)
ObtainFails(c) ==
  /\ shortCodeToToken[c] # Null
  /\ RemoveCode(c)
  /\ Store(shortCodeToToken[c], FALSE)
  /\ UNCHANGED <<viewVars, generated, granted>>

(* isValidToken: fills the cache. *)
CheckToken ==
  /\ tokensCache' = AuthTokens
  /\ UNCHANGED <<codeVars, preferences, persisted, stored, viewVars,
                 generated, granted>>

(***************************************************************************)
(* The JavaFX thread, and the world.                                       *)
(***************************************************************************)

(* ShortCodeNotification: show a code, or hide whatever is shown. *)
UpdateNotification ==
  /\ fxQueue # << >>
  /\ shown' = Head(fxQueue)
  /\ fxQueue' = Tail(fxQueue)
  /\ UNCHANGED <<codeVars, tokenVars, generated, granted>>

(* The preferences library writes what a failed sync() left in memory. *)
LateSync ==
  /\ persisted # preferences
  /\ persisted' = preferences
  /\ UNCHANGED <<codeVars, tokensCache, preferences, stored, viewVars,
                 generated, granted>>

(* COLT is restarted. *)
Restart ==
  /\ shortCodeToToken' = NoCodes
  /\ failedAttempts' = 0
  /\ forcePause' = FALSE
  /\ wrong' = [c \in Codes |-> 0]
  /\ tokensCache' = Null
  /\ preferences' = persisted
  /\ fxQueue' = << >>
  /\ shown' = Null
  /\ UNCHANGED <<persisted, generated, stored, granted>>

Next ==
  \/ \E c \in Codes : \/ \E t \in Tokens : RequestShortCode(c, t)
                      \/ ObtainAuthToken(c)
                      \/ ObtainFails(c)
  \/ WrongCode
  \/ CheckToken
  \/ UpdateNotification
  \/ LateSync
  \/ Restart

Spec == Init /\ [][Next]_vars

(***************************************************************************)
(* Correctness.                                                            *)
(***************************************************************************)

(* However requests, exchanges and guesses are mixed, and though neither a   *)
(* success nor a new code resets failedAttempts: while a code is             *)
(* outstanding, at most MAX_FAILED_ATTEMPTS wrong codes have been tried      *)
(* since it was issued.                                                     *)
GuessesBounded ==
  \A c \in Codes :
    shortCodeToToken[c] # Null => wrong[c] <= MAX_FAILED_ATTEMPTS

(* isValidToken never answers from a cache that differs from the            *)
(* preferences, not even after a failed sync().                             *)
CacheIsCurrent == tokensCache = Null \/ tokensCache = preferences

(* A token that a tool was given is accepted, through restarts and failures  *)
(* to store other tokens, until addAuthToken has added MAX_TOKENS_COUNT      *)
(* later ones; and no more than MAX_TOKENS_COUNT are accepted.              *)
GrantedIsAccepted ==
  /\ Len(AuthTokens) <= MAX_TOKENS_COUNT
  /\ \A i \in 1..Len(stored) :
       stored[i] \in Elements(granted) =>
         \/ stored[i] \in Elements(AuthTokens)
         \/ Len(stored) - i >= MAX_TOKENS_COUNT

(* A code is good for one token: obtainAuthToken returns none twice, not     *)
(* even when the random code of one request was drawn again by another.     *)
GrantedOnce ==
  \A i, j \in 1..Len(granted) : granted[i] = granted[j] => i = j

(* Once the JavaFX thread has caught up, the code that ShortCodeNotification *)
(* shows can be exchanged, unless too many failures have dropped it (the     *)
(* next request will pause) or its exchange failed to store the token.      *)
ShownCodeWorks ==
  fxQueue = << >> /\ shown # Null =>
    \/ shortCodeToToken[shown] # Null
    \/ forcePause
    \/ stored # << >> /\ stored[Len(stored)] \notin Elements(granted)

(* Guesses are bounded, tokens are granted once, and the cache is not stale. *)
TokensAreSound == TypeOK /\ GuessesBounded /\ CacheIsCurrent /\ GrantedOnce

(* What a tool was given and what the user is shown are of use. *)
GrantsAreUseful == GrantedIsAccepted /\ ShownCodeWorks

(* For TLC: codes and tokens are only compared with each other. *)
Symmetry == Permutations(Codes) \cup Permutations(Tokens)

===============================================================================
