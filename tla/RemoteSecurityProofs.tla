------------------------- MODULE RemoteSecurityProofs -------------------------
(***************************************************************************)
(* Proofs about RemoteSecurity for any codes, tokens and bounds.            *)
(***************************************************************************)
EXTENDS RemoteSecurity, SequenceTheorems, TLAPS

(* The inductive invariant.  No outstanding code has seen more wrong guesses *)
(* than failedAttempts has counted; an outstanding token has been generated, *)
(* stands for one code and was not granted before.                          *)
GuessesCounted ==
  \A c \in Codes : shortCodeToToken[c] # Null => wrong[c] <= failedAttempts

OutstandingAreFresh ==
  /\ \A c \in Codes : shortCodeToToken[c] # Null =>
       /\ shortCodeToToken[c] \in generated
       /\ \A i \in 1..Len(granted) : granted[i] # shortCodeToToken[c]
  /\ \A c, d \in Codes : shortCodeToToken[c] # Null
                           /\ shortCodeToToken[c] = shortCodeToToken[d] => c = d

GrantedAreGenerated == \A i \in 1..Len(granted) : granted[i] \in generated

IInv == /\ TypeOK
        /\ GuessesCounted
        /\ CacheIsCurrent
        /\ OutstandingAreFresh
        /\ GrantedAreGenerated
        /\ GrantedOnce

(* Null is none of the values it stands in for. *)
LEMMA NullIsNoValue == Null \notin Tokens /\ Null \notin Seq(Tokens) /\ Null \notin Codes
  BY NullAssumption

(* Adding a token to a list of tokens gives a list of tokens. *)
LEMMA WithTokenType ==
  ASSUME NEW s \in Seq(Tokens), NEW t \in Tokens
  PROVE  WithToken(s, t) \in Seq(Tokens)
  <1> DEFINE all == IF t \in Elements(s) THEN s ELSE Append(s, t)
  <1>1. all \in Seq(Tokens)
    BY AppendProperties
  <1>2. CASE Len(all) > MAX_TOKENS_COUNT
    <2>1. all # << >>
      BY <1>1, <1>2, MaxAssumption, EmptySeq
    <2>2. Tail(all) \in Seq(Tokens)
      BY <1>1, <2>1, HeadTailProperties
    <2> QED
      BY <1>2, <2>2 DEF WithToken
  <1>3. CASE ~(Len(all) > MAX_TOKENS_COUNT)
    BY <1>1, <1>3 DEF WithToken
  <1> QED
    BY <1>2, <1>3

(* What getAuthTokens returns is a list of tokens, and the preferences'. *)
LEMMA AuthTokensType ==
  ASSUME TypeOK
  PROVE  AuthTokens \in Seq(Tokens)
  BY DEF TypeOK, AuthTokens

LEMMA InitInv == Init => IInv
  <1> SUFFICES ASSUME Init PROVE IInv
    OBVIOUS
  <1>1. TypeOK
    <2>1. << >> \in Seq(Tokens) /\ << >> \in Seq(Codes \cup {Null})
      OBVIOUS
    <2>2. 0 \in 0..MAX_FAILED_ATTEMPTS
      BY MaxAssumption
    <2>3. NoCodes \in [Codes -> Tokens \cup {Null}]
      BY DEF NoCodes
    <2> QED
      BY <2>1, <2>2, <2>3 DEF Init, TypeOK
  <1>2. GuessesCounted /\ OutstandingAreFresh
    BY DEF Init, NoCodes, GuessesCounted, OutstandingAreFresh
  <1>3. CacheIsCurrent /\ GrantedAreGenerated /\ GrantedOnce
    BY DEF Init, CacheIsCurrent, GrantedAreGenerated, GrantedOnce
  <1> QED
    BY <1>1, <1>2, <1>3 DEF IInv

(* Storing a token keeps the types of the lists and empties the cache. *)
LEMMA StoreKeeps ==
  ASSUME TypeOK, NEW t \in Tokens, NEW b \in BOOLEAN, Store(t, b)
  PROVE  /\ preferences' \in Seq(Tokens)
         /\ persisted' \in Seq(Tokens)
         /\ stored' \in Seq(Tokens)
         /\ tokensCache' = Null
  <1>1. WithToken(AuthTokens, t) \in Seq(Tokens)
    BY AuthTokensType, WithTokenType
  <1>2. Append(stored, t) \in Seq(Tokens)
    BY AppendProperties DEF TypeOK
  <1> QED
    BY <1>1, <1>2 DEF Store, TypeOK

(* A request keeps the invariant: its token is new. *)
LEMMA RequestKeeps ==
  ASSUME IInv, NEW c \in Codes, NEW t \in Tokens, RequestShortCode(c, t)
  PROVE  IInv'
  <1> USE DEF IInv, RequestShortCode, tokenVars
  <1>1. TypeOK'
    <2>1. Append(fxQueue, c) \in Seq(Codes \cup {Null})
      BY AppendProperties DEF TypeOK
    <2> QED
      BY <2>1 DEF TypeOK
  <1>2. GuessesCounted'
    BY DEF GuessesCounted, TypeOK
  <1>3. CacheIsCurrent'
    BY DEF CacheIsCurrent
  <1>4. OutstandingAreFresh'
    BY DEF OutstandingAreFresh, GrantedAreGenerated, TypeOK
  <1>5. GrantedAreGenerated' /\ GrantedOnce'
    BY DEF GrantedAreGenerated, GrantedOnce
  <1> QED
    BY <1>1, <1>2, <1>3, <1>4, <1>5

(* A wrong guess is counted for every outstanding code, or drops them all. *)
LEMMA WrongCodeKeeps ==
  ASSUME IInv, WrongCode
  PROVE  IInv'
  <1> USE DEF IInv, WrongCode, tokenVars, viewVars
  <1>1. CASE failedAttempts + 1 > MAX_FAILED_ATTEMPTS
    <2>1. TypeOK'
      BY <1>1, MaxAssumption DEF TypeOK, NoCodes
    <2>2. GuessesCounted' /\ OutstandingAreFresh'
      BY <1>1 DEF GuessesCounted, OutstandingAreFresh, NoCodes
    <2>3. CacheIsCurrent' /\ GrantedAreGenerated' /\ GrantedOnce'
      BY <1>1 DEF CacheIsCurrent, GrantedAreGenerated, GrantedOnce
    <2> QED
      BY <2>1, <2>2, <2>3
  <1>2. CASE ~(failedAttempts + 1 > MAX_FAILED_ATTEMPTS)
    <2>1. TypeOK'
      <3>1. failedAttempts' \in 0..MAX_FAILED_ATTEMPTS
        BY <1>2, MaxAssumption DEF TypeOK, CountFailure
      <3>2. wrong' \in [Codes -> Nat]
        <4>1. ASSUME NEW c \in Codes
              PROVE  (IF shortCodeToToken[c] = Null THEN 0 ELSE wrong[c] + 1) \in Nat
          BY DEF TypeOK
        <4>2. wrong' = [c \in Codes |->
                          IF shortCodeToToken[c] = Null THEN 0 ELSE wrong[c] + 1]
          BY <1>2 DEF CountFailure
        <4> QED
          BY <4>1, <4>2, Zenon
      <3> QED
        BY <1>2, <3>1, <3>2 DEF TypeOK, CountFailure
    <2>2. GuessesCounted'
      BY <1>2 DEF GuessesCounted, CountFailure, TypeOK
    <2>3. OutstandingAreFresh'
      BY <1>2 DEF OutstandingAreFresh, CountFailure
    <2>4. CacheIsCurrent' /\ GrantedAreGenerated' /\ GrantedOnce'
      BY <1>2 DEF CacheIsCurrent, GrantedAreGenerated, GrantedOnce
    <2> QED
      BY <2>1, <2>2, <2>3, <2>4
  <1> QED
    BY <1>1, <1>2

(* Forgetting one code keeps what is said of the outstanding codes. *)
LEMMA RemoveCodeKeeps ==
  ASSUME IInv, NEW c \in Codes, RemoveCode(c)
  PROVE  /\ shortCodeToToken' \in [Codes -> Tokens \cup {Null}]
         /\ failedAttempts' \in 0..MAX_FAILED_ATTEMPTS
         /\ forcePause' \in BOOLEAN
         /\ wrong' \in [Codes -> Nat]
         /\ GuessesCounted'
  BY DEF IInv, TypeOK, GuessesCounted, RemoveCode

LEMMA ObtainAuthTokenKeeps ==
  ASSUME IInv, NEW c \in Codes, ObtainAuthToken(c)
  PROVE  IInv'
  <1> DEFINE t == shortCodeToToken[c]
  <1> USE DEF IInv, ObtainAuthToken
  <1>1. /\ t \in Tokens
        /\ RemoveCode(c)
        /\ Store(t, TRUE)
    BY DEF TypeOK
  <1>2. TypeOK'
    <2>1. Append(granted, t) \in Seq(Tokens)
      BY <1>1, AppendProperties DEF TypeOK
    <2>2. Append(fxQueue, Null) \in Seq(Codes \cup {Null})
      BY AppendProperties DEF TypeOK
    <2> QED
      BY <1>1, <2>1, <2>2, RemoveCodeKeeps, StoreKeeps DEF TypeOK
  <1>3. GuessesCounted' /\ CacheIsCurrent'
    BY <1>1, RemoveCodeKeeps, StoreKeeps DEF CacheIsCurrent
  <1>4. /\ Len(granted') = Len(granted) + 1
        /\ granted'[Len(granted) + 1] = t
        /\ \A i \in 1..Len(granted) : granted'[i] = granted[i]
        /\ Len(granted) \in Nat
    BY <1>1, AppendProperties DEF TypeOK
  <1>5. /\ t \in generated
        /\ \A i \in 1..Len(granted) : granted[i] # t
        /\ \A d \in Codes : shortCodeToToken[d] = t => d = c
    BY DEF OutstandingAreFresh
  <1>6. /\ shortCodeToToken'[c] = Null
        /\ \A d \in Codes \ {c} : shortCodeToToken'[d] = shortCodeToToken[d]
    BY <1>1 DEF RemoveCode, TypeOK
  <1>7. OutstandingAreFresh'
    <2>1. ASSUME NEW d \in Codes, shortCodeToToken'[d] # Null
          PROVE  /\ shortCodeToToken'[d] \in generated'
                 /\ \A i \in 1..Len(granted') : granted'[i] # shortCodeToToken'[d]
      BY <1>4, <1>5, <1>6, <2>1 DEF OutstandingAreFresh
    <2>2. ASSUME NEW d \in Codes, NEW e \in Codes, shortCodeToToken'[d] # Null,
                 shortCodeToToken'[d] = shortCodeToToken'[e]
          PROVE  d = e
      BY <1>6, <2>2 DEF OutstandingAreFresh
    <2> QED
      BY <2>1, <2>2 DEF OutstandingAreFresh
  <1>8. GrantedAreGenerated'
    BY <1>4, <1>5 DEF GrantedAreGenerated
  <1>9. GrantedOnce'
    BY <1>4, <1>5 DEF GrantedOnce
  <1> QED
    BY <1>2, <1>3, <1>7, <1>8, <1>9

LEMMA ObtainFailsKeeps ==
  ASSUME IInv, NEW c \in Codes, ObtainFails(c)
  PROVE  IInv'
  <1> DEFINE t == shortCodeToToken[c]
  <1> USE DEF IInv, ObtainFails, viewVars
  <1>1. /\ t \in Tokens
        /\ RemoveCode(c)
        /\ Store(t, FALSE)
    BY DEF TypeOK
  <1>2. TypeOK'
    BY <1>1, RemoveCodeKeeps, StoreKeeps DEF TypeOK
  <1>3. GuessesCounted' /\ CacheIsCurrent'
    BY <1>1, RemoveCodeKeeps, StoreKeeps DEF CacheIsCurrent
  <1>4. /\ shortCodeToToken'[c] = Null
        /\ \A d \in Codes \ {c} : shortCodeToToken'[d] = shortCodeToToken[d]
    BY <1>1 DEF RemoveCode, TypeOK
  <1>5. OutstandingAreFresh'
    BY <1>4 DEF OutstandingAreFresh
  <1>6. GrantedAreGenerated' /\ GrantedOnce'
    BY DEF GrantedAreGenerated, GrantedOnce
  <1> QED
    BY <1>2, <1>3, <1>5, <1>6

(* Every step keeps the invariant. *)
LEMMA NextKeeps == IInv /\ [Next]_vars => IInv'
  <1> SUFFICES ASSUME IInv, [Next]_vars PROVE IInv'
    OBVIOUS
  <1> DEFINE Same == UNCHANGED <<shortCodeToToken, failedAttempts, forcePause,
                                 wrong, generated, granted>>
  <1>1. ASSUME NEW c \in Codes, NEW t \in Tokens, RequestShortCode(c, t)
        PROVE  IInv'
    BY <1>1, RequestKeeps
  <1>2. ASSUME NEW c \in Codes, ObtainAuthToken(c) PROVE IInv'
    BY <1>2, ObtainAuthTokenKeeps
  <1>3. ASSUME NEW c \in Codes, ObtainFails(c) PROVE IInv'
    BY <1>3, ObtainFailsKeeps
  <1>4. CASE WrongCode
    BY <1>4, WrongCodeKeeps
  <1>5. ASSUME Same, TypeOK', CacheIsCurrent' PROVE IInv'
    BY <1>5 DEF IInv, GuessesCounted, OutstandingAreFresh,
                GrantedAreGenerated, GrantedOnce
  <1>6. CASE CheckToken
    <2>1. tokensCache' = preferences /\ preferences' = preferences
      BY <1>6 DEF CheckToken, AuthTokens, IInv, CacheIsCurrent
    <2>2. TypeOK' /\ CacheIsCurrent'
      BY <1>6, <2>1 DEF CheckToken, IInv, TypeOK, CacheIsCurrent, codeVars, viewVars
    <2> QED
      BY <1>5, <1>6, <2>2 DEF CheckToken, codeVars
  <1>7. CASE UpdateNotification
    <2>1. Head(fxQueue) \in Codes \cup {Null} /\ Tail(fxQueue) \in Seq(Codes \cup {Null})
      BY <1>7, HeadTailProperties DEF UpdateNotification, IInv, TypeOK
    <2>2. TypeOK' /\ CacheIsCurrent'
      BY <1>7, <2>1 DEF UpdateNotification, IInv, TypeOK, CacheIsCurrent,
                        codeVars, tokenVars
    <2> QED
      BY <1>5, <1>7, <2>2 DEF UpdateNotification, codeVars
  <1>8. CASE LateSync
    <2>1. TypeOK' /\ CacheIsCurrent'
      BY <1>8 DEF LateSync, IInv, TypeOK, CacheIsCurrent, codeVars, viewVars
    <2> QED
      BY <1>5, <1>8, <2>1 DEF LateSync, codeVars
  <1>9. CASE Restart
    <2>1. TypeOK'
      <3>1. << >> \in Seq(Codes \cup {Null}) /\ 0 \in 0..MAX_FAILED_ATTEMPTS
        BY MaxAssumption
      <3>2. NoCodes \in [Codes -> Tokens \cup {Null}]
        BY DEF NoCodes
      <3> QED
        BY <1>9, <3>1, <3>2 DEF Restart, IInv, TypeOK
    <2>2. GuessesCounted' /\ OutstandingAreFresh'
      BY <1>9 DEF Restart, GuessesCounted, OutstandingAreFresh, NoCodes
    <2>3. CacheIsCurrent' /\ GrantedAreGenerated' /\ GrantedOnce'
      BY <1>9 DEF Restart, IInv, CacheIsCurrent, GrantedAreGenerated, GrantedOnce
    <2> QED
      BY <2>1, <2>2, <2>3 DEF IInv
  <1>10. CASE UNCHANGED vars
    <2>1. TypeOK' /\ CacheIsCurrent'
      BY <1>10 DEF IInv, TypeOK, CacheIsCurrent, vars, codeVars, tokenVars, viewVars
    <2> QED
      BY <1>5, <1>10, <2>1 DEF vars, codeVars
  <1> QED
    BY <1>1, <1>2, <1>3, <1>4, <1>6, <1>7, <1>8, <1>9, <1>10 DEF Next

(* IInv holds in every state. *)
THEOREM Invariant == Spec => []IInv
  BY InitInv, NextKeeps, PTL DEF Spec

(* The state of the security manager has its type. *)
THEOREM SecurityTypeCorrect == Spec => []TypeOK
  BY Invariant, PTL DEF IInv

(* For any number of codes and any bound: an outstanding code has seen at    *)
(* most MAX_FAILED_ATTEMPTS wrong guesses of obtainAuthToken.               *)
THEOREM GuessesAreBounded == Spec => []GuessesBounded
  <1>1. IInv => GuessesBounded
    BY MaxAssumption DEF IInv, TypeOK, GuessesCounted, GuessesBounded
  <1> QED
    BY <1>1, Invariant, PTL

(* isValidToken never answers from a stale cache. *)
THEOREM CacheIsNeverStale == Spec => []CacheIsCurrent
  BY Invariant, PTL DEF IInv

(* obtainAuthToken returns no token twice. *)
THEOREM TokensGrantedOnce == Spec => []GrantedOnce
  BY Invariant, PTL DEF IInv

(* Any number of codes, tokens and failures: the four together. *)
THEOREM SecurityCorrect == Spec => []TokensAreSound
  BY SecurityTypeCorrect, GuessesAreBounded, CacheIsNeverStale, TokensGrantedOnce, PTL
  DEF TokensAreSound

(***************************************************************************)
(* What a tool was given stays of use: the second inductive invariant.      *)
(***************************************************************************)

(* The token of a code has not been put into the preferences before, and no  *)
(* token is put there twice.                                                *)
StoredOnce ==
  /\ \A i \in 1..Len(stored) : stored[i] \in generated
  /\ \A i, j \in 1..Len(stored) : stored[i] = stored[j] => i = j
  /\ \A c \in Codes : \A i \in 1..Len(stored) : stored[i] # shortCodeToToken[c]

(* A list of accepted tokens, in the order in which all were stored: the     *)
(* k-th from its end is at least as far from the end of all.                *)
InOrder(tokens, all) ==
  \A k \in 1..Len(tokens) : \E i \in 1..Len(all) :
    all[i] = tokens[k] /\ Len(all) - i >= Len(tokens) - k

(* It holds what tools were given, but for tokens that as many as it may     *)
(* hold came after.                                                         *)
HoldsGiven(tokens, all, given) ==
  \A i \in 1..Len(all) : all[i] \in given =>
    \/ \E k \in 1..Len(tokens) : tokens[k] = all[i]
    \/ Len(all) - i >= MAX_TOKENS_COUNT

Accepting(tokens, all, given) ==
  /\ Len(tokens) <= MAX_TOKENS_COUNT
  /\ InOrder(tokens, all)
  /\ HoldsGiven(tokens, all, given)

(* The code that ShortCodeNotification shows when fxQueue is worked off. *)
LastShown == IF fxQueue = << >> THEN shown ELSE fxQueue[Len(fxQueue)]

LastShownWorks ==
  LastShown # Null =>
    \/ shortCodeToToken[LastShown] # Null
    \/ forcePause
    \/ stored # << >> /\ stored[Len(stored)] \notin Elements(granted)

UseInv ==
  /\ IInv
  /\ StoredOnce
  /\ Accepting(preferences, stored, Elements(granted))
  /\ Accepting(persisted, stored, Elements(granted))
  /\ LastShownWorks

LEMMA InitUse == Init => UseInv
  <1> SUFFICES ASSUME Init PROVE UseInv
    OBVIOUS
  <1>1. /\ Accepting(preferences, stored, Elements(granted))
        /\ Accepting(persisted, stored, Elements(granted))
    BY MaxAssumption DEF Init, Accepting, InOrder, HoldsGiven
  <1>2. StoredOnce /\ LastShownWorks
    BY DEF Init, StoredOnce, LastShownWorks, LastShown
  <1> QED
    BY <1>1, <1>2, InitInv DEF UseInv

(* Putting a token that is new there, at the end of what was stored, into a  *)
(* list of accepted tokens: the token the list forgets, if it is full, is    *)
(* one that as many as the list holds came after.                           *)
LEMMA WithTokenAccepts ==
  ASSUME NEW s \in Seq(Tokens), NEW all \in Seq(Tokens), NEW t \in Tokens,
         NEW given, NEW later, later \subseteq given \cup {t},
         \A i \in 1..Len(all) : all[i] # t,
         \A i, j \in 1..Len(all) : all[i] = all[j] => i = j,
         Accepting(s, all, given)
  PROVE  Accepting(WithToken(s, t), Append(all, t), later)
  <1> DEFINE n == Len(all)
             m == Len(s)
             longer == Append(all, t)
             more == Append(s, t)
             new == WithToken(s, t)
  <1> HIDE DEF new
  <1>1. /\ n \in Nat /\ m \in Nat /\ Len(longer) = n + 1 /\ longer[n + 1] = t
        /\ \A i \in 1..n : longer[i] = all[i]
    BY AppendProperties
  <1>2. t \notin Elements(s)
    <2>1. \A k \in 1..m : \E i \in 1..n : all[i] = s[k]
      BY DEF Accepting, InOrder
    <2> QED
      BY <2>1 DEF Elements
  <1>3. /\ more \in Seq(Tokens) /\ Len(more) = m + 1 /\ more[m + 1] = t
        /\ \A k \in 1..m : more[k] = s[k]
    BY AppendProperties
  <1>4. ASSUME NEW k \in 1..(m + 1)
        PROVE  \E i \in 1..(n + 1) : longer[i] = more[k] /\ (n + 1) - i >= (m + 1) - k
    <2>1. CASE k = m + 1
      BY <1>1, <1>3, <2>1
    <2>2. CASE k \in 1..m
      <3>1. PICK i \in 1..n : all[i] = s[k] /\ n - i >= m - k
        BY <2>2 DEF Accepting, InOrder
      <3> QED
        BY <1>1, <1>3, <2>2, <3>1
    <2> QED
      BY <1>1, <2>1, <2>2
  <1>5. ASSUME NEW i \in 1..n, all[i] \in later
        PROVE  (\E k \in 1..m : s[k] = all[i]) \/ n - i >= MAX_TOKENS_COUNT
    <2>1. all[i] \in given
      BY <1>5
    <2> QED
      BY <2>1 DEF Accepting, HoldsGiven
  <1>6. m <= MAX_TOKENS_COUNT
    BY DEF Accepting
  <1>7. CASE m + 1 > MAX_TOKENS_COUNT
    <2>1. m = MAX_TOKENS_COUNT /\ new = Tail(more)
      BY <1>1, <1>2, <1>3, <1>6, <1>7, MaxAssumption DEF WithToken, new
    <2>2. Len(new) = m /\ \A k \in 1..m : new[k] = more[k + 1]
      BY <1>1, <1>3, <2>1, HeadTailProperties, EmptySeq
    <2>3. m \in 1..m /\ new[m] = t
      BY <1>1, <1>3, <2>1, <2>2, MaxAssumption
    <2>4. ASSUME NEW k \in 1..m
          PROVE  \E i \in 1..(n + 1) : longer[i] = new[k] /\ (n + 1) - i >= m - k
      <3>1. k + 1 \in 1..(m + 1) /\ (m + 1) - (k + 1) = m - k
        BY <1>1
      <3> QED
        BY <1>4, <2>2, <3>1
    <2>5. ASSUME NEW i \in 1..n, all[i] \in later
          PROVE  (\E k \in 1..m : new[k] = longer[i]) \/ (n + 1) - i >= MAX_TOKENS_COUNT
      <3>1. CASE n - i >= MAX_TOKENS_COUNT
        BY <1>1, <3>1, MaxAssumption
      <3>2. ASSUME NEW k \in 1..m, s[k] = all[i], k = 1
            PROVE  (n + 1) - i >= MAX_TOKENS_COUNT
        <4>1. PICK j \in 1..n : all[j] = s[1] /\ n - j >= m - 1
          BY <1>1, <3>2 DEF Accepting, InOrder
        <4>2. j = i
          BY <3>2, <4>1
        <4> QED
          BY <1>1, <2>1, <4>1, <4>2
      <3>3. ASSUME NEW k \in 1..m, s[k] = all[i], k # 1
            PROVE  \E l \in 1..m : new[l] = longer[i]
        <4>1. k - 1 \in 1..m /\ (k - 1) + 1 = k
          BY <1>1, <3>3
        <4>2. new[k - 1] = more[(k - 1) + 1]
          BY <2>2, <4>1
        <4>3. new[k - 1] = all[i] /\ longer[i] = all[i]
          BY <1>1, <1>3, <3>3, <4>1, <4>2
        <4> QED
          BY <4>1, <4>3
      <3> QED
        BY <1>5, <2>5, <3>1, <3>2, <3>3
    <2>6. InOrder(new, longer)
      BY <1>1, <2>2, <2>4 DEF InOrder
    <2>7. HoldsGiven(new, longer, later)
      <3>1. ASSUME NEW i \in 1..(n + 1), longer[i] \in later
            PROVE  (\E k \in 1..m : new[k] = longer[i]) \/ (n + 1) - i >= MAX_TOKENS_COUNT
        <4>1. CASE i = n + 1
          BY <1>1, <2>3, <4>1
        <4>2. CASE i \in 1..n
          BY <1>1, <2>5, <3>1, <4>2
        <4> QED
          BY <1>1, <4>1, <4>2
      <3> QED
        BY <1>1, <2>2, <3>1 DEF HoldsGiven
    <2> QED
      BY <2>1, <2>2, <2>6, <2>7, <1>6 DEF Accepting, new
  <1>8. CASE ~(m + 1 > MAX_TOKENS_COUNT)
    <2>1. new = more
      BY <1>1, <1>2, <1>3, <1>8, MaxAssumption DEF WithToken, new
    <2>2. ASSUME NEW i \in 1..n, all[i] \in later
          PROVE  (\E k \in 1..(m + 1) : new[k] = longer[i]) \/ (n + 1) - i >= MAX_TOKENS_COUNT
      <3>1. CASE n - i >= MAX_TOKENS_COUNT
        BY <1>1, <3>1, MaxAssumption
      <3>2. ASSUME NEW k \in 1..m, s[k] = all[i]
            PROVE  k \in 1..(m + 1) /\ new[k] = longer[i]
        BY <1>1, <1>3, <2>1, <3>2
      <3> QED
        BY <1>5, <2>2, <3>1, <3>2
    <2>3. Len(new) = m + 1 /\ m + 1 <= MAX_TOKENS_COUNT
      BY <1>1, <1>3, <1>8, <2>1, MaxAssumption
    <2>4. InOrder(new, longer)
      BY <1>1, <1>4, <2>1, <2>3 DEF InOrder
    <2>5. HoldsGiven(new, longer, later)
      <3>1. ASSUME NEW i \in 1..(n + 1), longer[i] \in later
            PROVE  (\E k \in 1..(m + 1) : new[k] = longer[i]) \/ (n + 1) - i >= MAX_TOKENS_COUNT
        <4>1. CASE i = n + 1
          <5>1. m + 1 \in 1..(m + 1) /\ new[m + 1] = longer[i]
            BY <1>1, <1>3, <2>1, <4>1
          <5> QED
            BY <5>1
        <4>2. CASE i \in 1..n
          BY <1>1, <2>2, <3>1, <4>2
        <4> QED
          BY <1>1, <4>1, <4>2
      <3> QED
        BY <1>1, <2>3, <3>1 DEF HoldsGiven
    <2> QED
      BY <2>3, <2>4, <2>5 DEF Accepting, new
  <1> QED
    BY <1>1, <1>7, <1>8, MaxAssumption

(* Storing a token elsewhere, which no tool was given, leaves a list be. *)
LEMMA OthersAccept ==
  ASSUME NEW s \in Seq(Tokens), NEW all \in Seq(Tokens), NEW t \in Tokens,
         NEW given, t \notin given, Accepting(s, all, given)
  PROVE  Accepting(s, Append(all, t), given)
  <1> DEFINE n == Len(all)
             m == Len(s)
             longer == Append(all, t)
  <1>1. /\ n \in Nat /\ m \in Nat /\ Len(longer) = n + 1 /\ longer[n + 1] = t
        /\ \A i \in 1..n : longer[i] = all[i]
    BY AppendProperties
  <1>2. ASSUME NEW k \in 1..m
        PROVE  \E i \in 1..(n + 1) : longer[i] = s[k] /\ (n + 1) - i >= m - k
    <2>1. PICK i \in 1..n : all[i] = s[k] /\ n - i >= m - k
      BY DEF Accepting, InOrder
    <2> QED
      BY <1>1, <2>1
  <1>3. ASSUME NEW i \in 1..(n + 1), longer[i] \in given
        PROVE  (\E k \in 1..m : s[k] = longer[i]) \/ (n + 1) - i >= MAX_TOKENS_COUNT
    <2>1. i \in 1..n /\ longer[i] = all[i]
      BY <1>1, <1>3
    <2>2. (\E k \in 1..m : s[k] = all[i]) \/ n - i >= MAX_TOKENS_COUNT
      BY <1>3, <2>1 DEF Accepting, HoldsGiven
    <2> QED
      BY <1>1, <2>1, <2>2, MaxAssumption
  <1>4. InOrder(s, longer) /\ HoldsGiven(s, longer, given)
    BY <1>1, <1>2, <1>3 DEF InOrder, HoldsGiven
  <1> QED
    BY <1>4 DEF Accepting

(* A token that was not stored before keeps the stored ones apart. *)
LEMMA StoringKeepsApart ==
  ASSUME UseInv, NEW c \in Codes, shortCodeToToken[c] # Null, RemoveCode(c),
         stored' = Append(stored, shortCodeToToken[c]), generated' = generated
  PROVE  StoredOnce'
  <1> DEFINE t == shortCodeToToken[c]
             n == Len(stored)
  <1> USE DEF UseInv, IInv
  <1>1. /\ t \in Tokens /\ t \in generated
        /\ \A d \in Codes \ {c} : shortCodeToToken[d] # t
    BY DEF TypeOK, OutstandingAreFresh
  <1>2. /\ shortCodeToToken'[c] = Null
        /\ \A d \in Codes \ {c} : shortCodeToToken'[d] = shortCodeToToken[d]
    BY DEF RemoveCode, TypeOK
  <1>3. /\ n \in Nat /\ Len(stored') = n + 1 /\ stored'[n + 1] = t
        /\ \A i \in 1..n : stored'[i] = stored[i] /\ stored'[i] # t
        /\ \A i \in 1..(n + 1) : i \in 1..n \/ i = n + 1
    BY <1>1, AppendProperties DEF TypeOK, StoredOnce
  <1>4. \A i \in 1..(n + 1) : stored'[i] \in generated
    BY <1>1, <1>3 DEF StoredOnce
  <1>5. \A i, j \in 1..(n + 1) : stored'[i] = stored'[j] => i = j
    BY <1>3 DEF StoredOnce
  <1>6. ASSUME NEW d \in Codes, NEW i \in 1..(n + 1)
        PROVE  stored'[i] # shortCodeToToken'[d]
    <2>1. stored'[i] \in Tokens
      BY <1>1, <1>3 DEF TypeOK
    <2>2. CASE d = c
      BY <1>2, <2>1, <2>2, NullIsNoValue
    <2>3. CASE d # c
      BY <1>1, <1>2, <1>3, <2>3 DEF StoredOnce
    <2> QED
      BY <2>2, <2>3
  <1> QED
    BY <1>3, <1>4, <1>5, <1>6 DEF StoredOnce

(* AuthTokens are the preferences. *)
LEMMA AuthTokensArePreferences ==
  ASSUME IInv
  PROVE  AuthTokens = preferences
  BY DEF IInv, CacheIsCurrent, AuthTokens

(* A request: its token was not stored, and its code is shown last. *)
LEMMA RequestIsOfUse ==
  ASSUME UseInv, NEW c \in Codes, NEW t \in Tokens, RequestShortCode(c, t)
  PROVE  UseInv'
  <1> USE DEF UseInv, RequestShortCode, tokenVars
  <1>1. IInv'
    BY RequestKeeps
  <1>2. StoredOnce'
    BY DEF StoredOnce, IInv, TypeOK
  <1>3. LastShownWorks'
    <2>1. fxQueue' # << >> /\ fxQueue'[Len(fxQueue')] = c
      BY AppendProperties DEF IInv, TypeOK
    <2>2. shortCodeToToken'[c] # Null
      BY NullIsNoValue DEF IInv, TypeOK
    <2> QED
      BY <2>1, <2>2 DEF LastShownWorks, LastShown
  <1>4. /\ Accepting(preferences, stored, Elements(granted))'
        /\ Accepting(persisted, stored, Elements(granted))'
    OBVIOUS
  <1> QED
    BY <1>1, <1>2, <1>3, <1>4

(* A wrong code: when it drops the codes it makes the next request pause. *)
LEMMA WrongCodeIsOfUse ==
  ASSUME UseInv, WrongCode
  PROVE  UseInv'
  <1> USE DEF UseInv, WrongCode, tokenVars, viewVars
  <1>1. IInv'
    BY WrongCodeKeeps
  <1>2. CASE failedAttempts + 1 > MAX_FAILED_ATTEMPTS
    <2>1. StoredOnce'
      BY <1>2, NullIsNoValue DEF StoredOnce, NoCodes, IInv, TypeOK
    <2>2. LastShownWorks'
      BY <1>2 DEF LastShownWorks
    <2> QED
      BY <1>1, <2>1, <2>2
  <1>3. CASE ~(failedAttempts + 1 > MAX_FAILED_ATTEMPTS)
    <2>1. StoredOnce' /\ LastShownWorks'
      BY <1>3 DEF StoredOnce, LastShownWorks, LastShown, CountFailure
    <2> QED
      BY <1>1, <2>1
  <1> QED
    BY <1>2, <1>3

(* What both exchanges of a code do. *)
LEMMA ExchangeFacts ==
  ASSUME UseInv, NEW c \in Codes, shortCodeToToken[c] # Null
  PROVE  /\ shortCodeToToken[c] \in Tokens
         /\ \A i \in 1..Len(stored) : stored[i] # shortCodeToToken[c]
         /\ shortCodeToToken[c] \notin Elements(granted)
  BY DEF UseInv, IInv, TypeOK, StoredOnce, OutstandingAreFresh, Elements

LEMMA ObtainAuthTokenIsOfUse ==
  ASSUME UseInv, NEW c \in Codes, ObtainAuthToken(c)
  PROVE  UseInv'
  <1> DEFINE t == shortCodeToToken[c]
  <1> USE DEF UseInv, ObtainAuthToken
  <1>1. IInv'
    BY ObtainAuthTokenKeeps
  <1>2. /\ t \in Tokens
        /\ \A i \in 1..Len(stored) : stored[i] # t
        /\ RemoveCode(c)
        /\ stored' = Append(stored, t)
        /\ preferences' = WithToken(preferences, t)
        /\ persisted' = WithToken(preferences, t)
    BY ExchangeFacts, AuthTokensArePreferences DEF Store
  <1>3. StoredOnce'
    BY <1>2, StoringKeepsApart
  <1>4. Elements(granted') \subseteq Elements(granted) \cup {t}
    BY <1>2, AppendProperties DEF Elements, IInv, TypeOK
  <1>5. Accepting(WithToken(preferences, t), stored', Elements(granted'))
    BY <1>2, <1>4, WithTokenAccepts DEF IInv, TypeOK, StoredOnce
  <1>6. LastShownWorks'
    <2>1. fxQueue \in Seq(Codes \cup {Null}) /\ fxQueue' = Append(fxQueue, Null)
      BY DEF IInv, TypeOK
    <2>2. fxQueue' # << >> /\ fxQueue'[Len(fxQueue')] = Null
      BY <2>1, AppendProperties
    <2> QED
      BY <2>2 DEF LastShownWorks, LastShown
  <1>7. Elements(granted)' = Elements(granted')
    BY DEF Elements
  <1> QED
    BY <1>1, <1>2, <1>3, <1>5, <1>6, <1>7

LEMMA ObtainFailsIsOfUse ==
  ASSUME UseInv, NEW c \in Codes, ObtainFails(c)
  PROVE  UseInv'
  <1> DEFINE t == shortCodeToToken[c]
  <1> USE DEF UseInv, ObtainFails, viewVars
  <1>1. IInv'
    BY ObtainFailsKeeps
  <1>2. /\ t \in Tokens
        /\ \A i \in 1..Len(stored) : stored[i] # t
        /\ t \notin Elements(granted)
        /\ RemoveCode(c)
        /\ stored' = Append(stored, t)
        /\ preferences' = WithToken(preferences, t)
        /\ persisted' = persisted
    BY ExchangeFacts, AuthTokensArePreferences DEF Store
  <1>3. StoredOnce'
    BY <1>2, StoringKeepsApart
  <1>4. Accepting(WithToken(preferences, t), stored', Elements(granted))
    BY <1>2, WithTokenAccepts DEF IInv, TypeOK, StoredOnce
  <1>5. Accepting(persisted, stored', Elements(granted))
    BY <1>2, OthersAccept DEF IInv, TypeOK
  <1>6. LastShownWorks'
    <2>1. stored' # << >> /\ stored'[Len(stored')] = t
      BY <1>2, AppendProperties DEF IInv, TypeOK
    <2>2. stored'[Len(stored')] \notin Elements(granted')
      BY <1>2, <2>1
    <2> QED
      BY <2>1, <2>2 DEF LastShownWorks, Elements
  <1>7. Elements(granted)' = Elements(granted)
    BY DEF Elements
  <1> QED
    BY <1>1, <1>2, <1>3, <1>4, <1>5, <1>6, <1>7

(* The notification catches up by one update: what it shows last is the same. *)
LEMMA UpdateIsOfUse ==
  ASSUME UseInv, UpdateNotification
  PROVE  LastShown' = LastShown
  <1> USE DEF UpdateNotification
  <1>1. /\ fxQueue \in Seq(Codes \cup {Null}) /\ fxQueue # << >>
        /\ Len(fxQueue) \in Nat /\ Len(fxQueue) # 0
    BY EmptySeq DEF UseInv, IInv, TypeOK
  <1>2. /\ Tail(fxQueue) \in Seq(Codes \cup {Null})
        /\ Len(Tail(fxQueue)) = Len(fxQueue) - 1
        /\ \A i \in 1..(Len(fxQueue) - 1) : Tail(fxQueue)[i] = fxQueue[i + 1]
        /\ Head(fxQueue) = fxQueue[1]
    BY <1>1, HeadTailProperties
  <1>3. CASE Len(fxQueue) = 1
    BY <1>1, <1>2, <1>3, EmptySeq DEF LastShown
  <1>4. CASE Len(fxQueue) # 1
    <2>1. Len(Tail(fxQueue)) # 0
      BY <1>1, <1>2, <1>4
    <2>2. Tail(fxQueue)[Len(fxQueue) - 1] = fxQueue[Len(fxQueue)]
      BY <1>1, <1>2, <1>4
    <2>3. Tail(fxQueue) # << >>
      BY <2>1, EmptySeq
    <2> QED
      BY <1>1, <1>2, <2>2, <2>3 DEF LastShown
  <1> QED
    BY <1>3, <1>4

LEMMA NextIsOfUse == UseInv /\ [Next]_vars => UseInv'
  <1> SUFFICES ASSUME UseInv, [Next]_vars PROVE UseInv'
    OBVIOUS
  <1> USE DEF UseInv
  <1>1. IInv'
    BY NextKeeps
  <1> DEFINE Same == UNCHANGED <<shortCodeToToken, forcePause, generated, stored,
                                 granted>>
  <1>2. ASSUME NEW c \in Codes, NEW t \in Tokens, RequestShortCode(c, t)
        PROVE  UseInv'
    BY <1>2, RequestIsOfUse
  <1>3. ASSUME NEW c \in Codes, ObtainAuthToken(c) PROVE UseInv'
    BY <1>3, ObtainAuthTokenIsOfUse
  <1>4. ASSUME NEW c \in Codes, ObtainFails(c) PROVE UseInv'
    BY <1>4, ObtainFailsIsOfUse
  <1>5. CASE WrongCode
    BY <1>5, WrongCodeIsOfUse
  <1>6. ASSUME Same, LastShown' = LastShown, preferences' \in {preferences, persisted},
               persisted' \in {preferences, persisted}
        PROVE  UseInv'
    <2>1. StoredOnce' /\ LastShownWorks'
      BY <1>6 DEF StoredOnce, LastShownWorks, Elements
    <2>2. /\ Accepting(preferences, stored, Elements(granted))'
          /\ Accepting(persisted, stored, Elements(granted))'
      BY <1>6
    <2> QED
      BY <1>1, <2>1, <2>2
  <1>7. CASE CheckToken
    BY <1>6, <1>7 DEF CheckToken, codeVars, viewVars, LastShown
  <1>8. CASE UpdateNotification
    BY <1>6, <1>8, UpdateIsOfUse DEF UpdateNotification, codeVars, tokenVars
  <1>9. CASE LateSync
    BY <1>6, <1>9 DEF LateSync, codeVars, viewVars, LastShown
  <1>10. CASE Restart
    <2>1. StoredOnce'
      BY <1>10, NullIsNoValue DEF Restart, StoredOnce, NoCodes, IInv, TypeOK
    <2>2. LastShownWorks'
      BY <1>10 DEF Restart, LastShownWorks, LastShown
    <2>3. /\ Accepting(preferences, stored, Elements(granted))'
          /\ Accepting(persisted, stored, Elements(granted))'
      BY <1>10 DEF Restart
    <2> QED
      BY <1>1, <2>1, <2>2, <2>3
  <1>11. CASE UNCHANGED vars
    BY <1>6, <1>11 DEF vars, codeVars, tokenVars, viewVars, LastShown
  <1> QED
    BY <1>2, <1>3, <1>4, <1>5, <1>7, <1>8, <1>9, <1>10, <1>11 DEF Next

THEOREM UseInvariant == Spec => []UseInv
  BY InitUse, NextIsOfUse, PTL DEF Spec

(* For any number of tokens and any bound, through restarts and failed       *)
(* stores: a token that obtainAuthToken returned is accepted until           *)
(* MAX_TOKENS_COUNT later ones were added.                                  *)
THEOREM GrantedTokensAccepted == Spec => []GrantedIsAccepted
  <1>1. UseInv => GrantedIsAccepted
    BY AuthTokensArePreferences
    DEF UseInv, GrantedIsAccepted, Accepting, HoldsGiven, Elements
  <1> QED
    BY <1>1, UseInvariant, PTL

(* The code that ShortCodeNotification comes to show can be exchanged, unless *)
(* wrong guesses dropped it or its exchange could not store the token.      *)
THEOREM ShownCodesWork == Spec => []ShownCodeWorks
  <1>1. UseInv => ShownCodeWorks
    BY DEF UseInv, LastShownWorks, LastShown, ShownCodeWorks
  <1> QED
    BY <1>1, UseInvariant, PTL

(* Both: what a tool was given and what the user is shown are of use. *)
THEOREM GrantsOfUse == Spec => []GrantsAreUseful
  BY GrantedTokensAccepted, ShownCodesWork, PTL DEF GrantsAreUseful

===============================================================================
