-------------------------------- MODULE SignIn --------------------------------
(***************************************************************************)
(* How start() signs a user or a bot in (client.py: start; auth.py), what  *)
(* it leaves in the session, and what a later start() makes of it: after   *)
(* stop(), after a start() that raised, after a crash anywhere.            *)
(***************************************************************************)
EXTENDS Naturals, FiniteSets

CONSTANTS
  Default,      \* the data centre of an empty session
  Account,      \* the account's
  MaxStarts,    \* bound: calls of start()
  MaxCrashes,   \* bound: crashes
  MaxTokens     \* bound: tokens the server gives out

DCs == {Default, Account}
NoToken == 0
CtorToken == 1

ASSUME SignInAssumption ==
  MaxStarts \in Nat /\ MaxCrashes \in Nat /\ MaxTokens \in Nat /\ 0 \notin DCs

VARIABLES
  app,        \* what the program is: bot or user, 2FA, a token for the constructor
  disk,       \* the session: home DC (0: none), DCs with a key, future auth token
  memory,     \* the copy self._conn keeps of it, and saves whole
  bound,      \* DCs where this session's key is signed in (the server's)
  good,       \* tokens the server would accept
  conn,       \* the DC of self._conn, 0 for None
  pc,
  offered,    \* the token sendCode carries
  code,       \* the login code: "none", "live" or "expired"
  tries,      \* codes entered
  starts, crashes, given,
  claim,      \* history: how the last start() returned
  kept,       \* history: signed in by a start() that returned, not revoked since
  replayed,   \* history: tokens offered after they had been used
  stranded    \* history: used tokens an error or a crash left in the session

vars == <<app, disk, memory, bound, good, conn, pc, offered, code, tries, starts, crashes,
          given, claim, kept, replayed, stranded>>
copies == <<disk, memory>>
server == <<bound, good>>
session == <<disk, memory, bound, good>>
tokens == <<replayed, stranded>>
login == <<offered, code, tries, replayed, stranded>>
bounds == <<app, starts, crashes, given>>
returns == <<claim, kept>>

Empty == [home |-> 0, keys |-> {}, token |-> NoToken]

Init ==
  /\ app \in [bot : BOOLEAN, twoFactor : BOOLEAN, token : {NoToken, CtorToken}]
  /\ disk = Empty /\ memory = Empty
  /\ bound = {} /\ good = {app.token} \ {NoToken}
  /\ conn = 0 /\ pc = "idle"
  /\ offered = NoToken /\ code = "none" /\ tries = 0
  /\ starts = 0 /\ crashes = 0 /\ given = CtorToken
  /\ claim = "none" /\ kept = FALSE /\ replayed = {} /\ stranded = {}

Goto(l) == pc' = l

(* A copy changed, and saved at once.                                       *)
Saved(record) == memory' = record /\ disk' = record

(* DcConnection.connect(): the session as it is on disk, with the data      *)
(* centre's key, negotiated if there is none; the first one becomes the     *)
(* home.                                                                    *)
Connect(dc) ==
  /\ Saved([disk EXCEPT !.keys = @ \cup {dc}, !.home = IF @ = 0 THEN dc ELSE @])
  /\ conn' = dc

(* The connection goes, with what its copy had and the disk has not: a used *)
(* token whose removal was never saved is stranded.                         *)
Disconnect(saved) ==
  /\ conn' = 0 /\ memory' = Empty /\ Goto("idle")
  /\ disk' = IF saved THEN memory ELSE disk
  /\ stranded' = stranded \cup (IF saved THEN {} ELSE {disk.token} \ (good \cup {memory.token}))
                          \cup (IF pc \in {"token", "drop"} THEN {offered} ELSE {})

LoginOver == offered' = NoToken /\ code' = "none" /\ tries' = 0

(* start() returns: to the program it is signed in.                         *)
Return(how) ==
  /\ pc' = "in" /\ claim' = how
  /\ kept' = (kept \/ how \in {"login", "reuse"})

----------------------------------------------------------------------------
(* start().                                                                 *)

Start ==
  /\ pc = "idle" /\ starts < MaxStarts /\ starts' = starts + 1
  /\ IF conn # 0
       THEN Return("early") /\ UNCHANGED conn /\ UNCHANGED copies
       ELSE /\ Connect(IF disk.home # 0 THEN disk.home ELSE Default)
            /\ Goto("seed") /\ UNCHANGED returns
  /\ UNCHANGED <<app, crashes, given>> /\ UNCHANGED server /\ UNCHANGED login

(* The copy once this step has noted what it then saves.                    *)
Noted ==
  [memory EXCEPT
     !.token = IF pc = "drop" THEN NoToken
               ELSE IF pc = "seed" /\ @ = NoToken THEN app.token ELSE @,
     !.home = IF pc = "finish" THEN conn ELSE @]

(* The constructor's token, unless the session has one.                     *)
Seed ==
  /\ pc = "seed"
  /\ Saved(Noted)
  /\ Goto("check")
  /\ UNCHANGED conn /\ UNCHANGED server /\ UNCHANGED login /\ UNCHANGED bounds /\ UNCHANGED returns

(* is_authorized(): no when the key is not bound, or on any error at all.   *)
Check ==
  /\ pc = "check"
  /\ \/ conn \in bound /\ Return("reuse")
     \/ Goto("login") /\ UNCHANGED returns
  /\ UNCHANGED <<conn>> /\ UNCHANGED session /\ UNCHANGED login /\ UNCHANGED bounds

(* A request of start() fails or its answer is lost, or a save fails with   *)
(* the change already in the copy: start() raises, and self._conn stays. A  *)
(* token the server took is not taken out when its answer is lost.          *)
Fails ==
  /\ pc \in {"seed", "send", "bot", "code", "resend", "password", "bind", "token", "drop",
             "finish"}
  /\ Goto("idle")
  /\ memory' \in IF pc = "drop" THEN {Noted} ELSE {memory, Noted}
  /\ stranded' = stranded \cup (IF pc = "token" THEN {offered} ELSE {})
  /\ LoginOver
  /\ UNCHANGED <<conn, disk, replayed>> /\ UNCHANGED server /\ UNCHANGED bounds /\ UNCHANGED returns

(* A bot's token, or request_login_code() with the session's auth token.    *)
Begin ==
  /\ pc = "login"
  /\ IF app.bot THEN Goto("bot") /\ UNCHANGED offered
     ELSE Goto("send") /\ offered' = memory.token
  /\ UNCHANGED <<conn, code, tries>> /\ UNCHANGED tokens /\ UNCHANGED session /\ UNCHANGED bounds /\ UNCHANGED returns

(* The account is elsewhere: _migrate().                                    *)
Migrate ==
  /\ pc \in {"send", "bot"} /\ conn # Account
  /\ Connect(Account)
  /\ UNCHANGED pc /\ UNCHANGED server /\ UNCHANGED login /\ UNCHANGED bounds /\ UNCHANGED returns

(* The server signs the key in; its answer is on its way.                   *)
Bind == bound' = bound \cup {conn} /\ Goto("bind")

BotSignsIn ==
  /\ pc = "bot" /\ conn = Account
  /\ Bind
  /\ UNCHANGED <<good, conn>> /\ UNCHANGED copies /\ UNCHANGED login /\ UNCHANGED bounds /\ UNCHANGED returns

(* sendCode or resendCode: the server signs in at once (sendCode: for a     *)
(* good token, resendCode: if it likes), or a code is on its way.           *)
CodeSent ==
  /\ pc = "resend" \/ (pc = "send" /\ conn = Account)
  /\ \E success \in IF pc = "resend" THEN BOOLEAN ELSE {offered \in good} :
     IF success
       THEN /\ bound' = bound \cup {conn} /\ good' = good \ {offered} /\ Goto("token")
            /\ UNCHANGED code
       ELSE /\ code' = "live" /\ Goto("code") /\ UNCHANGED <<bound, good>>
  /\ replayed' = replayed \cup (IF pc = "send" THEN {offered} \ (good \cup {NoToken}) ELSE {})
  /\ UNCHANGED <<conn, offered, tries, stranded>> /\ UNCHANGED copies /\ UNCHANGED bounds /\ UNCHANGED returns

(* The answer to the request that signed in.                                *)
Answered ==
  /\ pc \in {"bind", "token"}
  /\ Goto(IF pc = "token" THEN "drop" ELSE "finish")
  /\ UNCHANGED conn /\ UNCHANGED session /\ UNCHANGED login /\ UNCHANGED bounds /\ UNCHANGED returns

(* The used token stays in the session.                                     *)
DropNothing ==
  /\ pc = "drop"
  /\ Goto("finish")
  /\ UNCHANGED conn /\ UNCHANGED session /\ UNCHANGED login /\ UNCHANGED bounds /\ UNCHANGED returns

DropToken ==
  /\ pc = "drop"
  /\ Saved(Noted)
  /\ Goto("finish")
  /\ UNCHANGED conn /\ UNCHANGED server /\ UNCHANGED login /\ UNCHANGED bounds /\ UNCHANGED returns

CodeExpires ==
  /\ code = "live" /\ code' = "expired"
  /\ UNCHANGED <<conn, pc, offered, tries>> /\ UNCHANGED tokens
  /\ UNCHANGED session /\ UNCHANGED bounds /\ UNCHANGED returns

(* sign_in() with the right code, with a wrong one (raises the third time), *)
(* or with one that expired: a new code, however many were entered.         *)
Entered(c) == pc = "code" /\ code = c /\ tries < 3
Tried == tries' = tries + 1

(* A code is enough, whatever else the account asks for.                    *)
RightCodeAlone ==
  /\ Entered("live")
  /\ IF app.twoFactor THEN Goto("finish") /\ UNCHANGED bound ELSE Bind
  /\ UNCHANGED <<good, conn>> /\ UNCHANGED copies /\ UNCHANGED login /\ UNCHANGED bounds /\ UNCHANGED returns

RightCode ==
  /\ Entered("live")
  /\ IF app.twoFactor THEN Goto("password") /\ UNCHANGED bound ELSE Bind
  /\ UNCHANGED <<good, conn>> /\ UNCHANGED copies /\ UNCHANGED login /\ UNCHANGED bounds /\ UNCHANGED returns

WrongCode ==
  /\ Entered("live")
  /\ IF tries < 2 THEN Tried /\ UNCHANGED <<pc, offered, code>> ELSE LoginOver /\ Goto("idle")
  /\ UNCHANGED conn /\ UNCHANGED tokens
  /\ UNCHANGED session /\ UNCHANGED bounds /\ UNCHANGED returns

(* A try that is not counted.                                               *)
ExpiredCodeFree ==
  /\ Entered("expired")
  /\ Goto("resend")
  /\ UNCHANGED conn /\ UNCHANGED login /\ UNCHANGED session /\ UNCHANGED bounds /\ UNCHANGED returns

ExpiredCode ==
  /\ Entered("expired")
  /\ Tried
  /\ Goto("resend")
  /\ UNCHANGED <<conn, offered, code>> /\ UNCHANGED tokens
  /\ UNCHANGED session /\ UNCHANGED bounds /\ UNCHANGED returns

(* The third code expired as well: the loop is over, and the login passes   *)
(* for done.                                                                *)
OutOfTries ==
  /\ pc = "code" /\ tries = 3
  /\ Goto("finish")
  /\ UNCHANGED conn /\ UNCHANGED login /\ UNCHANGED session /\ UNCHANGED bounds /\ UNCHANGED returns

PasswordChecked ==
  /\ pc = "password"
  /\ Bind
  /\ UNCHANGED <<good, conn>> /\ UNCHANGED copies /\ UNCHANGED login /\ UNCHANGED bounds /\ UNCHANGED returns

(* The session keeps the home it had.                                       *)
FinishAsFound ==
  /\ pc = "finish"
  /\ Return(IF tries = 3 THEN "expired" ELSE "login")
  /\ LoginOver
  /\ UNCHANGED conn /\ UNCHANGED tokens /\ UNCHANGED session /\ UNCHANGED bounds

(* set_home_dc() and save_session().                                        *)
Finish ==
  /\ pc = "finish"
  /\ Saved(Noted)
  /\ Return(IF tries = 3 THEN "expired" ELSE "login")
  /\ LoginOver
  /\ UNCHANGED conn /\ UNCHANGED tokens /\ UNCHANGED server /\ UNCHANGED bounds

----------------------------------------------------------------------------
(* Afterwards.                                                              *)

(* sign_out(): a token the server gives is kept in the copy and saved; any  *)
(* error, of the request or of the save, is only logged.                    *)
SignOut ==
  /\ pc = "in" /\ conn \in bound
  /\ bound' = bound \ {conn} /\ kept' = FALSE
  /\ \/ /\ given < MaxTokens /\ given' = given + 1 /\ good' = good \cup {given + 1}
        /\ memory' = [memory EXCEPT !.token = given + 1] /\ disk' \in {disk, memory'}
     \/ UNCHANGED <<given, good>> /\ UNCHANGED copies
  /\ UNCHANGED <<app, starts, crashes, conn, pc, claim>> /\ UNCHANGED login

(* The session is terminated from another device.                           *)
Terminated ==
  /\ bound # {} /\ pc \in {"in", "idle"}
  /\ bound' = {} /\ kept' = FALSE
  /\ UNCHANGED <<good, conn, pc, claim>> /\ UNCHANGED copies /\ UNCHANGED login /\ UNCHANGED bounds

(* The autosave's save, of the whole copy.                                  *)
Autosave ==
  /\ conn # 0 /\ disk # memory
  /\ disk' = memory
  /\ UNCHANGED <<memory, conn, pc>> /\ UNCHANGED server /\ UNCHANGED login /\ UNCHANGED bounds
  /\ UNCHANGED returns

(* stop() saves, or fails to, and drops the connection;                     *)
(* signal_network_restored() drops it without a save, for a start() anew.   *)
Stop ==
  /\ pc \in {"in", "idle"} /\ conn # 0
  /\ \E saved \in BOOLEAN : Disconnect(saved)
  /\ claim' = "none"
  /\ UNCHANGED <<offered, code, tries, replayed, kept>> /\ UNCHANGED server /\ UNCHANGED bounds

Crash ==
  /\ crashes < MaxCrashes /\ crashes' = crashes + 1
  /\ Disconnect(FALSE)
  /\ LoginOver /\ claim' = "none"
  /\ UNCHANGED <<app, starts, given, kept, replayed>> /\ UNCHANGED server

Login ==
  \/ Seed \/ Check \/ Begin \/ Migrate \/ BotSignsIn \/ CodeSent \/ Answered \/ DropToken
  \/ RightCode \/ WrongCode \/ ExpiredCode \/ OutOfTries \/ PasswordChecked \/ Finish \/ Fails

Next ==
  Start \/ Login \/ CodeExpires \/ SignOut \/ Terminated \/ Autosave \/ Stop \/ Crash

(* Requests are answered or fail, and the user enters something.            *)
Spec == Init /\ [][Next]_vars
FairSpec == Spec /\ WF_vars(Login)

----------------------------------------------------------------------------
(* Properties.                                                              *)

(* When start() returns the client is signed in on its connection, whatever *)
(* migrated, expired or was mistyped on the way -- except when three codes  *)
(* in a row expired, and when an earlier start() had raised.                *)
ReturnedSignedIn ==
  pc = "in" /\ claim \notin {"early", "expired"} /\ kept => conn \in bound

(* Once start() returned signed in, a crash or a stop at any later moment   *)
(* leaves a session whose home key is signed in: no code is needed again,   *)
(* until the account signs out or is terminated.                            *)
SignedInSurvives == kept => disk.home \in bound \cap disk.keys

(* A future auth token the server took is not offered again, whatever login *)
(* fails or crashes elsewhere: unless the answer that said it was taken was *)
(* lost, or the connection went before any save without the token got       *)
(* through -- a failed save of its removal alone is made up for by the next *)
(* one. The constructor's token comes back with every start().              *)
TokenOnce == replayed \subseteq stranded \cup {CtorToken}

(* start() ends: wrong and expired codes together are entered three times.  *)
LoginEnds == pc \notin {"idle", "in"} ~> pc \in {"idle", "in"}
=============================================================================
