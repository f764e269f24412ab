----------------------------- MODULE SignIn_proofs -----------------------------
(***************************************************************************)
(* Theorems about SignIn for any number of starts, crashes and tokens.     *)
(***************************************************************************)
EXTENDS SignIn, TLAPS

Records == [home : DCs \cup {0}, keys : SUBSET DCs, token : Nat]

Typed ==
  /\ disk \in Records /\ memory \in Records
  /\ conn \in DCs \cup {0}
  /\ given \in Nat /\ given >= CtorToken /\ app.token \in {NoToken, CtorToken}
  /\ kept \in BOOLEAN

(* Only the account's data centre signs in, and a login past its first      *)
(* request is there. Until then the copy in memory has the home of the disk. *)
Placed ==
  /\ bound \subseteq {Account}
  /\ conn # 0 => conn \in memory.keys
  /\ pc # "idle" => conn # 0
  /\ pc \in {"seed", "check"} => conn = disk.home /\ memory = disk
  /\ pc \in {"bind", "token", "drop", "code", "resend", "password", "finish"} => conn = Account

(* A login is about to be over only when the key is bound, or after three   *)
(* codes; whoever was told so has the account's data centre as home, on     *)
(* disk and in the copy that will be saved over it.                         *)
Signed ==
  /\ pc \in {"bind", "token", "drop"} => Account \in bound
  /\ pc = "finish" => tries = 3 \/ Account \in bound
  /\ pc = "in" /\ claim \notin {"early", "expired"} => conn = Account
  /\ kept => /\ disk.home = Account /\ Account \in disk.keys /\ Account \in bound
             /\ conn # 0 => memory.home = Account /\ Account \in memory.keys

(* What may be offered: a good token, or one that is accounted for.         *)
Offerable == good \cup {NoToken, CtorToken} \cup stranded

(* What a login would offer is offerable, except while a used token is      *)
(* being dropped. The disk may lag behind the copy: then its token is       *)
(* accounted for when the copy is lost, and not before.                     *)
Fresh ==
  /\ conn = 0 => disk.token \in Offerable
  /\ conn # 0 => memory.token \in Offerable \cup (IF pc \in {"token", "drop"} THEN {offered} ELSE {})
  /\ pc \in {"seed", "check", "login", "send", "bot"} => disk.token = memory.token
  /\ pc = "send" => offered = memory.token
  /\ replayed \subseteq {CtorToken} \cup stranded

SInv == Typed /\ Placed /\ Signed /\ Fresh

LEMMA Centres == Account \in DCs /\ Default \in DCs /\ Account # 0 /\ Default # 0
  BY SignInAssumption DEF DCs

LEMMA InitSound == Init => SInv
  <1> SUFFICES ASSUME Init PROVE SInv
    OBVIOUS
  <1>1. app.token \in {NoToken, CtorToken}
    BY DEF Init
  <1>0. Empty \in Records
    BY DEF Empty, Records, NoToken
  <1>2. Typed
    <2>1. disk \in Records /\ memory \in Records
      BY <1>0 DEF Init
    <2>2. given \in Nat /\ given >= CtorToken /\ conn \in DCs \cup {0}
      BY DEF Init, CtorToken
    <2>3. kept \in BOOLEAN
      BY DEF Init
    <2> QED
      BY <1>1, <2>1, <2>2, <2>3 DEF Typed
  <1>3. Placed /\ Signed
    BY DEF Init, Placed, Signed
  <1>4. Fresh
    BY DEF Init, Fresh, Empty, Offerable
  <1> QED
    BY <1>2, <1>3, <1>4 DEF SInv

(* What Connect leaves, in the parts the invariant speaks of.               *)
LEMMA ConnectGives ==
  ASSUME Typed, NEW dc \in DCs, Connect(dc)
  PROVE  /\ disk' \in Records /\ memory' = disk' /\ conn' = dc
         /\ disk'.keys = disk.keys \cup {dc} /\ disk'.token = disk.token
         /\ disk'.home = IF disk.home = 0 THEN dc ELSE disk.home
  <1> DEFINE keys == disk.keys \cup {dc}
             home == IF disk.home = 0 THEN dc ELSE disk.home
  <1>1. disk' = [disk EXCEPT !.keys = keys, !.home = home] /\ memory' = disk' /\ conn' = dc
    BY DEF Connect, Saved
  <1>2. keys \in SUBSET DCs /\ home \in DCs \cup {0}
    BY DEF Typed, Records
  <1> HIDE DEF keys, home
  <1>3. disk' \in Records /\ disk'.keys = keys /\ disk'.home = home /\ disk'.token = disk.token
    BY <1>1, <1>2 DEF Typed, Records
  <1> QED
    BY <1>1, <1>3 DEF keys, home

(* What a step notes in the copy before it saves it.                        *)
LEMMA NotedGives ==
  ASSUME Typed, Placed
  PROVE  /\ Noted \in Records /\ Noted.keys = memory.keys
         /\ Noted.home = IF pc = "finish" THEN conn ELSE memory.home
         /\ pc = "drop" => Noted.token = NoToken
         /\ pc # "drop" => Noted.token \in {memory.token, CtorToken, NoToken}
         /\ pc \notin {"drop", "seed"} => Noted.token = memory.token
  <1> DEFINE token == IF pc = "drop" THEN NoToken
                      ELSE IF pc = "seed" /\ memory.token = NoToken THEN app.token ELSE memory.token
             home == IF pc = "finish" THEN conn ELSE memory.home
  <1>1. Noted = [memory EXCEPT !.token = token, !.home = home]
    BY DEF Noted
  <1>2. token \in Nat /\ home \in DCs \cup {0}
    BY DEF Typed, Records, NoToken, CtorToken
  <1> HIDE DEF token, home
  <1>3. Noted \in Records /\ Noted.keys = memory.keys /\ Noted.home = home /\ Noted.token = token
    BY <1>1, <1>2 DEF Typed, Records
  <1> QED
    BY <1>3 DEF token, home, Typed

LEMMA StartSound == SInv /\ Start => SInv'
  <1> SUFFICES ASSUME SInv, Start PROVE SInv'
    OBVIOUS
  <1>1. CASE conn # 0
    <2>1. /\ pc = "idle" /\ pc' = "in" /\ claim' = "early" /\ (kept' = kept)
          /\ UNCHANGED <<app, disk, memory, bound, good, conn, given, offered, tries, replayed, stranded>>
      BY <1>1 DEF Start, Return, copies, server, login, SInv, Typed
    <2> QED
      BY <1>1, <2>1 DEF SInv, Typed, Placed, Signed, Fresh, Offerable
  <1>2. CASE conn = 0
    <2> DEFINE dc == IF disk.home # 0 THEN disk.home ELSE Default
    <2>1. dc \in DCs /\ Connect(dc)
      BY <1>2, Centres DEF Start, SInv, Typed, Records
    <2>2. /\ disk' \in Records /\ memory' = disk' /\ conn' = dc
          /\ disk'.keys = disk.keys \cup {dc} /\ disk'.token = disk.token
          /\ disk'.home = IF disk.home = 0 THEN dc ELSE disk.home
      BY <2>1, ConnectGives DEF SInv
    <2>3. /\ pc = "idle" /\ pc' = "seed"
          /\ UNCHANGED <<app, bound, good, given, claim, kept, offered, tries, replayed, stranded>>
      BY <1>2 DEF Start, Goto, server, login, returns
    <2>4. disk'.home = dc /\ dc # 0
      BY <2>1, <2>2, Centres DEF DCs
    <2>5. Typed'
      BY <2>1, <2>2, <2>3 DEF SInv, Typed
    <2>6. Placed'
      BY <2>2, <2>3, <2>4 DEF SInv, Placed
    <2>7. Signed'
      BY <2>2, <2>3, <2>4, Centres DEF SInv, Signed
    <2>8. Fresh'
      BY <1>2, <2>2, <2>3 DEF SInv, Fresh, Offerable
    <2> QED
      BY <2>5, <2>6, <2>7, <2>8 DEF SInv
  <1> QED
    BY <1>1, <1>2

LEMMA LoginSound == SInv /\ Login => SInv'
  <1> SUFFICES ASSUME SInv, Login PROVE SInv'
    OBVIOUS
  <1> USE DEF SInv, Placed, Signed, Fresh, Offerable
  <1>0. /\ Noted \in Records /\ Noted.keys = memory.keys
        /\ Noted.home = IF pc = "finish" THEN conn ELSE memory.home
        /\ pc = "drop" => Noted.token = NoToken
        /\ pc # "drop" => Noted.token \in {memory.token, CtorToken, NoToken}
        /\ pc \notin {"drop", "seed"} => Noted.token = memory.token
    BY NotedGives
  <1>1. CASE Seed
    BY <1>0, <1>1 DEF Typed, Seed, Saved, Goto, server, login, bounds, returns
  <1>2. CASE Check
    <2>1. UNCHANGED <<disk, memory, bound, good, conn, offered, code, tries, replayed, stranded,
                      app, starts, crashes, given>>
      BY <1>2 DEF Check, session, login, bounds
    <2>2. CASE conn \in bound /\ Return("reuse")
      <3>1. conn = Account /\ disk.home = Account /\ Account \in bound /\ memory = disk
        BY <1>2, <2>2 DEF Check
      <3>2. pc' = "in" /\ claim' = "reuse" /\ kept'
        BY <2>2 DEF Return
      <3>3. Typed' /\ Placed'
        BY <1>2, <2>1, <2>2, <3>1, <3>2 DEF Typed, Check, Return
      <3>4. Signed'
        BY <1>2, <2>1, <3>1, <3>2 DEF Check
      <3>5. Fresh'
        BY <1>2, <2>1, <3>2 DEF Check
      <3> QED
        BY <3>3, <3>4, <3>5
    <2>3. CASE Goto("login") /\ UNCHANGED returns
      BY <1>2, <2>1, <2>3 DEF Typed, Check, Goto, returns
    <2> QED
      BY <1>2, <2>2, <2>3 DEF Check
  <1>3. CASE Begin
    BY <1>3 DEF Typed, Begin, Goto, session, tokens, bounds, returns
  <1>4. CASE Migrate
    <2>1. Account \in DCs /\ Connect(Account)
      BY <1>4, Centres DEF Migrate
    <2>2. /\ disk' \in Records /\ memory' = disk' /\ conn' = Account
          /\ disk'.keys = disk.keys \cup {Account} /\ disk'.token = disk.token
          /\ disk'.home = IF disk.home = 0 THEN Account ELSE disk.home
      BY <2>1, ConnectGives
    <2>3. /\ pc \in {"send", "bot"} /\ pc' = pc
          /\ UNCHANGED <<app, bound, good, given, claim, kept, offered, tries, replayed, stranded>>
      BY <1>4 DEF Migrate, server, login, bounds, returns
    <2>4. Typed' /\ Placed'
      BY <2>1, <2>2, <2>3, Centres DEF Typed
    <2>5. kept => disk'.home = Account
      BY <2>2, Centres
    <2>6. Signed'
      BY <2>2, <2>3, <2>5
    <2>7. Fresh'
      BY <2>2, <2>3, Centres
    <2> QED
      BY <2>4, <2>6, <2>7
  <1>5. CASE BotSignsIn
    BY <1>5 DEF Typed, BotSignsIn, Bind, Goto, copies, login, bounds, returns
  <1>6. CASE CodeSent
    BY <1>6 DEF Typed, CodeSent, Goto, copies, bounds, returns
  <1>7. CASE Answered
    BY <1>7 DEF Typed, Answered, Goto, session, login, bounds, returns
  <1>8. CASE DropToken
    BY <1>0, <1>8 DEF Typed, DropToken, Saved, Goto, server, login, bounds, returns
  <1>9. CASE RightCode
    BY <1>9 DEF Typed, RightCode, Entered, Bind, Goto, copies, login, bounds, returns
  <1>10. CASE WrongCode
    BY <1>10 DEF Typed, WrongCode, Entered, Tried, LoginOver, Goto, session, tokens, bounds, returns
  <1>11. CASE ExpiredCode
    BY <1>11 DEF Typed, ExpiredCode, Entered, Tried, Goto, session, tokens, bounds, returns
  <1>12. CASE OutOfTries
    BY <1>12 DEF Typed, OutOfTries, Goto, session, login, bounds, returns
  <1>13. CASE PasswordChecked
    BY <1>13 DEF Typed, PasswordChecked, Bind, Goto, copies, login, bounds, returns
  <1>14. CASE Finish
    BY <1>0, <1>14, Centres DEF Typed, Finish, Saved, Return, LoginOver, tokens, server, bounds
  <1>15. CASE Fails
    <2>1. /\ memory' = Noted \/ (pc # "drop" /\ memory' = memory)
          /\ pc' = "idle" /\ UNCHANGED <<conn, disk, bound, good, app, given, claim, kept, replayed>>
          /\ stranded' = stranded \cup (IF pc = "token" THEN {offered} ELSE {})
      BY <1>15 DEF Fails, Goto, LoginOver, server, bounds, returns
    <2>2. memory' \in Records /\ memory'.keys = memory.keys
      BY <1>0, <2>1 DEF Typed
    <2>3. Typed' /\ Placed'
      BY <2>1, <2>2 DEF Typed
    <2>4. Signed'
      BY <1>0, <2>1, <2>2
    <2>5. Fresh'
      BY <1>0, <1>15, <2>1 DEF Fails
    <2> QED
      BY <2>3, <2>4, <2>5
  <1> QED
    BY <1>1, <1>2, <1>3, <1>4, <1>5, <1>6, <1>7, <1>8, <1>9, <1>10, <1>11, <1>12, <1>13, <1>14, <1>15
    DEF Login

LEMMA AfterwardsSound ==
  SInv /\ (CodeExpires \/ SignOut \/ Terminated \/ Autosave \/ Stop \/ Crash) => SInv'
  <1> SUFFICES ASSUME SInv, CodeExpires \/ SignOut \/ Terminated \/ Autosave \/ Stop \/ Crash
               PROVE SInv'
    OBVIOUS
  <1> USE DEF SInv, Placed, Signed, Fresh, Offerable
  <1>1. CASE CodeExpires
    BY <1>1 DEF Typed, CodeExpires, session, tokens, bounds, returns
  <1>2. CASE SignOut
    <2>1. /\ pc' = "in" /\ pc = "in" /\ conn' = conn /\ claim' = claim /\ kept' = FALSE
          /\ bound' \subseteq bound /\ UNCHANGED <<offered, replayed, stranded, tries, app>>
      BY <1>2 DEF SignOut, login
    <2>2. CASE UNCHANGED <<given, good>> /\ UNCHANGED copies
      BY <2>1, <2>2 DEF Typed, copies
    <2>3. CASE /\ given' = given + 1 /\ good' = good \cup {given + 1}
               /\ memory' = [memory EXCEPT !.token = given + 1] /\ disk' \in {disk, memory'}
      <3>1. given + 1 \in Nat /\ given + 1 >= CtorToken
        BY DEF Typed, CtorToken
      <3>2. /\ memory'.home = memory.home /\ memory'.keys = memory.keys
            /\ memory'.token = given + 1 /\ memory' \in Records
        BY <2>3, <3>1 DEF Typed, Records
      <3>3. /\ disk'.home \in {disk.home, memory.home} /\ disk' \in Records
            /\ disk'.token \in {disk.token, given + 1}
        BY <2>3, <3>2 DEF Typed
      <3>4. Typed'
        BY <2>1, <2>3, <3>1, <3>2, <3>3 DEF Typed
      <3>5. Placed' /\ Signed'
        BY <2>1, <3>2
      <3>6. Fresh'
        BY <2>1, <2>3, <3>2
      <3> QED
        BY <3>4, <3>5, <3>6
    <2> QED
      BY <1>2, <2>2, <2>3 DEF SignOut
  <1>3. CASE Terminated
    BY <1>3 DEF Typed, Terminated, copies, login, bounds
  <1>4. CASE Autosave
    BY <1>4 DEF Typed, Autosave, server, login, bounds, returns
  <1>5. ASSUME NEW saved \in BOOLEAN, Disconnect(saved), saved => conn # 0,
               UNCHANGED <<app, bound, good, given, kept, replayed>>
        PROVE  SInv'
    <2>1. /\ conn' = 0 /\ memory' = Empty /\ pc' = "idle"
          /\ disk' = IF saved THEN memory ELSE disk
          /\ stranded' = stranded
               \cup (IF saved THEN {} ELSE {disk.token} \ (good \cup {memory.token}))
               \cup (IF pc \in {"token", "drop"} THEN {offered} ELSE {})
      BY <1>5 DEF Disconnect, Goto
    <2>2. Typed'
      BY <1>5, <2>1 DEF Typed, Empty, Records, NoToken
    <2>3. Placed'
      BY <1>5, <2>1
    <2>4. Signed'
      BY <1>5, <2>1
    <2>5. Fresh'
      BY <1>5, <2>1 DEF Empty
    <2> QED
      BY <2>2, <2>3, <2>4, <2>5
  <1>6. CASE Stop
    BY <1>5, <1>6 DEF Stop, server, bounds
  <1>7. CASE Crash
    BY <1>5, <1>7 DEF Crash, server
  <1> QED
    BY <1>1, <1>2, <1>3, <1>4, <1>6, <1>7

LEMMA StepSound == SInv /\ [Next]_vars => SInv'
  <1> SUFFICES ASSUME SInv, [Next]_vars PROVE SInv'
    OBVIOUS
  <1>1. CASE UNCHANGED vars
    BY <1>1 DEF vars, SInv, Typed, Placed, Signed, Fresh, Offerable
  <1> QED
    BY <1>1, StartSound, LoginSound, AfterwardsSound DEF Next

LEMMA SoundSuffices == SInv => SignedInSurvives /\ ReturnedSignedIn /\ TokenOnce
  BY DEF SInv, Typed, Placed, Signed, Fresh, SignedInSurvives, ReturnedSignedIn, TokenOnce

(* Once start() returned signed in, the session's home key stays signed in  *)
(* through any number of stops, crashes and failed starts.                  *)
THEOREM SignInSurvives == Spec => []SignedInSurvives
  <1> QED
    BY InitSound, StepSound, SoundSuffices, PTL DEF Spec

(* A start() that returns, other than early or after three expired codes,   *)
(* returns on a connection that is signed in.                               *)
THEOREM StartReturnsSignedIn == Spec => []ReturnedSignedIn
  <1> QED
    BY InitSound, StepSound, SoundSuffices, PTL DEF Spec

(* A token the server took is offered again only when the answer was lost,  *)
(* when no save without it got through before the connection went, or when  *)
(* it is the constructor's.                                                 *)
THEOREM TokensOfferedOnce == Spec => []TokenOnce
  <1> QED
    BY InitSound, StepSound, SoundSuffices, PTL DEF Spec
=============================================================================
