----------------------------- MODULE GameServer -----------------------------
(***************************************************************************)
(* The REST server: one Game object behind a plain field of a singleton    *)
(* service, its two teams in ArrayLists, and the handlers of GameController*)
(* on Tomcat's threads, with no lock anywhere.  A handler is taken apart   *)
(* into its reads of the field and, inside a list, into ArrayList's own    *)
(* loads and stores, so that two handlers inside one list lose, duplicate  *)
(* or remove the wrong player, as they do in the JVM.                      *)
(***************************************************************************)
EXTENDS Integers, Sequences, FiniteSets

CONSTANTS
    Players,    \* the names that phones join with
    Seeds,      \* the test players of initPlayers by team; none in production
    Handlers,   \* Tomcat's threads
    MaxGames,   \* bound: games created
    MaxSize,    \* bound: size that a team may reach by what is under way
    AfterRaces, \* bound: requests go on after two handlers have met in a list
    Orderly     \* phones keep their buttons' rules, and one creates or deletes at a time

Teams == {"red", "blue"}
Other == [red |-> "blue", blue |-> "red"]

ASSUME SeedsAssumption == Seeds \in [Teams -> Seq(STRING)]
ASSUME BoundsAssumption == MaxGames \in Nat /\ MaxSize \in Nat

Games == 1..MaxGames
NoGame == 0
Null == "null"
None == "none"
Test == \E t \in Teams : Seeds[t] # <<>>
SeedNames(t) == {Seeds[t][i] : i \in 1..Len(Seeds[t])}

(* No player is called Null, which stands for an empty place of a list. *)
ASSUME NamesAssumption == Null \notin Players /\ \A t \in Teams : Null \notin SeedNames(t)

VARIABLES
    game,       \* GameServiceImpl.game: a Game object or null
    created,    \* Game objects made so far
    size,       \* the ArrayLists' size fields, by game and team
    slots,      \* and their arrays
    thread,     \* each handler's step, request and locals
    button,     \* history: the team of each phone's last answered join
    asked,      \* history: who asked for which team
    raced,      \* history: two handlers were inside a list, one writing
    last,       \* history: each player's team in a game by his last join of it
    owed        \* history: the memberships that a GET has to show

heap == <<game, created, size, slots>>
vars == <<heap, thread, button, asked, raced, last, owed>>

NoView == [t \in Teams |-> {}]

(* The request, the Game object dereferenced, which of its lists, the index *)
(* or the size loaded, and the teams serialised so far.                     *)
Fresh(step, op, p, t) ==
    [pc |-> step, op |-> op, player |-> p, team |-> t, at |-> NoGame, part |-> "red",
     n |-> 0, view |-> NoView]
Idle == Fresh("idle", "get", Null, "red")

Init ==
    /\ game = NoGame /\ created = 0
    /\ size = [g \in Games |-> [t \in Teams |-> 0]]
    /\ slots = [g \in Games |-> [t \in Teams |-> <<>>]]
    /\ thread = [h \in Handlers |-> Idle]
    /\ button = [p \in Players |-> None] /\ asked = {}
    /\ raced = [g \in Games |-> [t \in Teams |-> FALSE]]
    /\ last = [g \in Games |-> [p \in Players |-> None]]
    /\ owed = [h \in Handlers |-> {}]

----------------------------------------------------------------------------
(* java.util.ArrayList, its size and its array apart. *)

Slot(a, i) == IF i \in 1..Len(a) THEN a[i] ELSE Null
Longer(a, k) == 1..(IF k > Len(a) THEN k ELSE Len(a))

(* The array after x is stored at index i, which counts from 0. *)
Stored(a, i, x) == [j \in Longer(a, i + 1) |-> IF j = i + 1 THEN x ELSE Slot(a, j)]

(* Variant: nothing is moved. *)
ShiftedNot(a, i, k) == a

(* System.arraycopy in remove: what is behind index i moves to the front. *)
Shifted(a, i, k) == [j \in 1..Len(a) |-> IF j \in (i + 1)..(k - 1) THEN Slot(a, j + 1) ELSE a[j]]

(* addAll's arraycopy to the end of what is used. *)
Extended(a, k, new) ==
    [j \in Longer(a, k + Len(new)) |->
        IF j \in (k + 1)..(k + Len(new)) THEN new[j - k] ELSE Slot(a, j)]

(* Variant: Player.equals is not overridden, and a new object equals none. *)
FoundByReference(a, k, p) == {}

(* Where the loop of remove(Object) stops: the first place of p, if any. *)
Found(a, k, p) ==
    {i \in 1..k : Slot(a, i) = p /\ \A j \in 1..(i - 1) : Slot(a, j) # p}

Elements(a, k) == {Slot(a, i) : i \in 1..k}

Reading == {"search", "show"}
Writing == {"shift", "last", "clear", "size", "store", "grow"}
Inside(h, g, t, steps) == thread[h].pc \in steps /\ thread[h].at = g /\ thread[h].part = t

(* h comes into a list, or starts to write it: whether it is alone. *)
Enters(h, g, t, steps) ==
    raced' = [raced EXCEPT ![g][t] = @ \/ \E k \in Handlers \ {h} : Inside(k, g, t, steps)]
EntersToRead(h, g, t) == Enters(h, g, t, Writing)
EntersToWrite(h, g, t) == Enters(h, g, t, Reading \union Writing)

At(h, step) == thread[h].pc = step
Load(h) == size[thread[h].at][thread[h].part]
Array(h) == slots[thread[h].at][thread[h].part]
SetSize(h, k) == size' = [size EXCEPT ![thread[h].at][thread[h].part] = k]
SetArray(h, a) == slots' = [slots EXCEPT ![thread[h].at][thread[h].part] = a]

Goto(h, step) == thread' = [thread EXCEPT ![h].pc = step]
GotoWith(h, step, k) == thread' = [thread EXCEPT ![h].pc = step, ![h].n = k]
GotoList(h, step, g, t, k) ==
    thread' = [thread EXCEPT ![h].pc = step, ![h].at = g, ![h].part = t, ![h].n = k]

(* The answer, of whatever status, reaches the phone that sent the request;   *)
(* the other phones' buttons, which nothing reads, are left alone.            *)
Answer(h) ==
    /\ thread' = [thread EXCEPT ![h] = Idle]
    /\ button' = IF thread[h].op = "join" /\ Orderly
                 THEN [button EXCEPT ![thread[h].player] = thread[h].team] ELSE button

----------------------------------------------------------------------------
(* Requests.  An orderly phone waits for the answer to a join; the button of *)
(* the team that the answer names is disabled.                               *)

Busy(ops) == \E h \in Handlers : ~At(h, "idle") /\ thread[h].op \in ops
Waits(p) == \E h \in Handlers : thread[h].op = "join" /\ thread[h].player = p
WithinBounds == \A g \in Games, t \in Teams :
    size[g][t] + Cardinality(Handlers) <= MaxSize /\ (raced[g][t] => AfterRaces)

Receive(h, step, op, p, t) ==
    /\ At(h, "idle") /\ thread' = [thread EXCEPT ![h] = Fresh(step, op, p, t)]
    /\ UNCHANGED <<size, slots, button, raced, last, owed>>

ReceiveJoin(h, p, t) ==
    /\ WithinBounds
    /\ Orderly => button[p] # t /\ ~Waits(p)
    /\ Receive(h, "remove", "join", p, t)
    /\ asked' = asked \union {<<p, t>>}
    /\ UNCHANGED <<game, created>>

(* createGame's first statement; the lists of the new object are empty. *)
ReceiveCreate(h) ==
    /\ WithinBounds /\ created < MaxGames
    /\ Orderly => ~Busy({"create"})
    /\ IF Test THEN Receive(h, "seedRed", "create", Null, "red")
       ELSE Receive(h, "idle", "get", Null, "red")
    /\ created' = created + 1 /\ game' = created + 1
    /\ UNCHANGED asked

ReceiveDelete(h) ==
    /\ game # NoGame
    /\ Orderly => ~Busy({"create"})
    /\ Receive(h, "idle", "get", Null, "red") /\ game' = NoGame
    /\ UNCHANGED <<created, asked>>

(* getGame reads the field once; a 404, with no game, changes nothing. *)
ReceiveGet(h) ==
    /\ At(h, "idle")
    /\ IF game = NoGame
       THEN UNCHANGED <<thread, raced, owed>>
       ELSE /\ EntersToRead(h, game, "red")
            /\ GotoList(h, "show", game, "red", size[game]["red"])
            /\ owed' = [owed EXCEPT ![h] =
                          {m \in Players \X Teams : last[game][m[1]] = m[2]}]
    /\ UNCHANGED <<heap, button, asked, last>>

----------------------------------------------------------------------------
(* Joining: addRedPlayer and addBluePlayer, remove then add. *)

DerefRemove(h) ==
    LET t == Other[thread[h].team]
    IN  /\ At(h, "remove")
        /\ IF game = NoGame
           THEN Goto(h, "add") /\ UNCHANGED raced
           ELSE EntersToRead(h, game, t) /\ GotoList(h, "search", game, t, 0)
        /\ UNCHANGED <<heap, button, asked, last, owed>>

(* The loop that looks for an equal player. *)
Search(h) ==
    LET p == thread[h].player
        g == thread[h].at
        t == thread[h].part
        found == Found(Array(h), Load(h), p)
    IN  /\ At(h, "search")
        /\ IF found = {}
           THEN Goto(h, "add") /\ UNCHANGED raced
           ELSE EntersToWrite(h, g, t) /\ \E i \in found : GotoWith(h, "shift", i - 1)
        /\ last' = [last EXCEPT ![g][p] = IF @ = t THEN None ELSE @]
        /\ owed' = [k \in Handlers |->
                      IF thread[k].at = g THEN owed[k] \ {<<p, t>>} ELSE owed[k]]
        /\ UNCHANGED <<heap, button, asked>>

Shift(h) ==
    /\ At(h, "shift") /\ Goto(h, "last") /\ SetArray(h, Shifted(Array(h), thread[h].n, Load(h)))
    /\ UNCHANGED <<game, created, size, button, asked, raced, last, owed>>

(* elementData[--size] = null: the size is stored before the index is checked. *)
LoadLast(h) ==
    /\ At(h, "last") /\ GotoWith(h, "clear", Load(h) - 1)
    /\ UNCHANGED <<heap, button, asked, raced, last, owed>>

Clear(h) ==
    /\ At(h, "clear") /\ SetSize(h, thread[h].n)
    /\ IF thread[h].n < 0
       THEN Answer(h) /\ UNCHANGED slots
       ELSE Goto(h, "add") /\ SetArray(h, Stored(Array(h), thread[h].n, Null)) /\ UNCHANGED button
    /\ UNCHANGED <<game, created, asked, raced, last, owed>>

(* Variant: the field is not checked again. *)
DerefAddUnchecked(h) ==
    /\ At(h, "add") /\ GotoList(h, "load", game, thread[h].team, 0)
    /\ UNCHANGED <<heap, button, asked, raced, last, owed>>

(* Variant: the two lists are taken for each other. *)
DerefAddOther(h) ==
    /\ At(h, "add")
    /\ IF game = NoGame THEN Answer(h)
       ELSE GotoList(h, "load", game, Other[thread[h].team], 0) /\ UNCHANGED button
    /\ UNCHANGED <<heap, asked, raced, last, owed>>

DerefAdd(h) ==
    /\ At(h, "add")
    /\ IF game = NoGame THEN Answer(h)
       ELSE GotoList(h, "load", game, thread[h].team, 0) /\ UNCHANGED button
    /\ UNCHANGED <<heap, asked, raced, last, owed>>

(* elementData[size++] = e *)
LoadSize(h) ==
    /\ At(h, "load") /\ EntersToWrite(h, thread[h].at, thread[h].part) /\ GotoWith(h, "size", Load(h))
    /\ UNCHANGED <<heap, button, asked, last, owed>>

StoreSize(h) ==
    /\ At(h, "size") /\ SetSize(h, thread[h].n + 1) /\ Goto(h, "store")
    /\ UNCHANGED <<game, created, slots, button, asked, raced, last, owed>>

Store(h) ==
    /\ At(h, "store") /\ Answer(h)
    /\ IF thread[h].n < 0
       THEN UNCHANGED <<slots, last>>
       ELSE /\ SetArray(h, Stored(Array(h), thread[h].n, thread[h].player))
            /\ last' = [last EXCEPT ![thread[h].at][thread[h].player] = thread[h].team]
    /\ UNCHANGED <<game, created, size, asked, raced, owed>>

----------------------------------------------------------------------------
(* initPlayers: the field is read again for each team. *)

SeedStep == [red |-> "seedRed", blue |-> "seedBlue"]

AfterSeed(h, t) ==
    IF t = "red" THEN Goto(h, "seedBlue") ELSE thread' = [thread EXCEPT ![h] = Idle]

(* Variant: the test players are put at the start of the list. *)
SeedOverwrites(h, t) ==
    /\ At(h, SeedStep[t])
    /\ IF game = NoGame
       THEN AfterSeed(h, t) /\ UNCHANGED <<slots, raced>>
       ELSE /\ EntersToWrite(h, game, t) /\ GotoList(h, "grow", game, t, 0)
            /\ slots' = [slots EXCEPT ![game][t] = Extended(@, 0, Seeds[t])]
    /\ UNCHANGED <<game, created, size, button, asked, last, owed>>

Seed(h, t) ==
    /\ At(h, SeedStep[t])
    /\ IF game = NoGame
       THEN AfterSeed(h, t) /\ UNCHANGED <<slots, raced>>
       ELSE /\ EntersToWrite(h, game, t) /\ GotoList(h, "grow", game, t, 0)
            /\ slots' = [slots EXCEPT ![game][t] = Extended(@, size[game][t], Seeds[t])]
    /\ UNCHANGED <<game, created, size, button, asked, last, owed>>

(* addAll's size += numNew *)
Grow(h) ==
    /\ At(h, "grow") /\ AfterSeed(h, thread[h].part)
    /\ SetSize(h, Load(h) + Len(Seeds[thread[h].part]))
    /\ UNCHANGED <<game, created, slots, button, asked, raced, last, owed>>

----------------------------------------------------------------------------
(* Jackson's serialisation of the game, the red team first: as many elements *)
(* as the list had when it began, with an exception when it has shrunk.      *)

(* Variant: the field is read again for the second team. *)
ShowRereads(h) ==
    LET g == IF game = NoGame THEN thread[h].at ELSE game
        seen == [thread[h].view EXCEPT ![thread[h].part] = Elements(Array(h), thread[h].n)]
    IN  /\ At(h, "show")
        /\ IF thread[h].n > Load(h)
           THEN Answer(h) /\ owed' = [owed EXCEPT ![h] = {}] /\ UNCHANGED raced
           ELSE /\ IF thread[h].part = "red"
                   THEN /\ EntersToRead(h, g, "blue")
                        /\ thread' = [thread EXCEPT ![h].at = g, ![h].part = "blue", ![h].n = size[g]["blue"],
                                                    ![h].view = seen]
                   ELSE /\ thread' = [thread EXCEPT ![h].pc = "shown", ![h].view = seen]
                        /\ UNCHANGED raced
                /\ UNCHANGED <<button, owed>>
        /\ UNCHANGED <<heap, asked, last>>

(* Variant: the loop ends one element early. *)
ShowSkipsLast(h) ==
    LET g == thread[h].at
        seen == [thread[h].view EXCEPT ![thread[h].part] = Elements(Array(h), thread[h].n - 1)]
    IN  /\ At(h, "show")
        /\ IF thread[h].n > Load(h)
           THEN Answer(h) /\ owed' = [owed EXCEPT ![h] = {}] /\ UNCHANGED raced
           ELSE /\ IF thread[h].part = "red"
                   THEN /\ EntersToRead(h, g, "blue")
                        /\ thread' = [thread EXCEPT ![h].part = "blue", ![h].n = size[g]["blue"],
                                                    ![h].view = seen]
                   ELSE /\ thread' = [thread EXCEPT ![h].pc = "shown", ![h].view = seen]
                        /\ UNCHANGED raced
                /\ UNCHANGED <<button, owed>>
        /\ UNCHANGED <<heap, asked, last>>

Show(h) ==
    LET g == thread[h].at
        seen == [thread[h].view EXCEPT ![thread[h].part] = Elements(Array(h), thread[h].n)]
    IN  /\ At(h, "show")
        /\ IF thread[h].n > Load(h)
           THEN Answer(h) /\ owed' = [owed EXCEPT ![h] = {}] /\ UNCHANGED raced
           ELSE /\ IF thread[h].part = "red"
                   THEN /\ EntersToRead(h, g, "blue")
                        /\ thread' = [thread EXCEPT ![h].part = "blue", ![h].n = size[g]["blue"],
                                                    ![h].view = seen]
                   ELSE /\ thread' = [thread EXCEPT ![h].pc = "shown", ![h].view = seen]
                        /\ UNCHANGED raced
                /\ UNCHANGED <<button, owed>>
        /\ UNCHANGED <<heap, asked, last>>

Respond(h) ==
    /\ At(h, "shown") /\ Answer(h) /\ owed' = [owed EXCEPT ![h] = {}]
    /\ UNCHANGED <<heap, asked, raced, last>>

----------------------------------------------------------------------------

Requests(h) ==
    \/ \E p \in Players, t \in Teams : ReceiveJoin(h, p, t)
    \/ ReceiveCreate(h) \/ ReceiveDelete(h) \/ ReceiveGet(h)

Joining(h) ==
    \/ DerefRemove(h) \/ Search(h) \/ Shift(h) \/ LoadLast(h) \/ Clear(h)
    \/ DerefAdd(h) \/ LoadSize(h) \/ StoreSize(h) \/ Store(h)

Answering(h) == (\E t \in Teams : Seed(h, t)) \/ Grow(h) \/ Show(h) \/ Respond(h)

Next == \E h \in Handlers : Requests(h) \/ Joining(h) \/ Answering(h)

Spec == Init /\ [][Next]_vars

----------------------------------------------------------------------------
(* Properties *)

Names == Players \union SeedNames("red") \union SeedNames("blue")

Steps == {"idle", "remove", "search", "shift", "last", "clear", "add", "load", "size",
          "store", "seedRed", "seedBlue", "grow", "show", "shown"}

ThreadType ==
    [pc : Steps, op : {"get", "join", "create"}, player : Players \union {Null}, team : Teams,
     at : Games \union {NoGame}, part : Teams, n : Int,
     view : [Teams -> SUBSET (Names \union {Null})]]

(* Every variable keeps its type, whatever the races in the lists, and no      *)
(* handler is inside a list without a game: no null is dereferenced when the   *)
(* game is deleted between a handler's reads of the field.                     *)
TypeOK ==
    /\ game \in Games \union {NoGame} /\ created \in 0..MaxGames
    /\ size \in [Games -> [Teams -> Int]]
    /\ slots \in [Games -> [Teams -> Seq(Names \union {Null})]]
    /\ thread \in [Handlers -> ThreadType]
    /\ \A h \in Handlers :
        /\ thread[h].pc \in Reading \union Writing \union {"load", "shown"} => thread[h].at # NoGame
        /\ thread[h].op = "join" => thread[h].player \in Players
    /\ button \in [Players -> Teams \union {None}] /\ asked \subseteq Players \X Teams
    /\ raced \in [Games -> [Teams -> BOOLEAN]]
    /\ last \in [Games -> [Players -> Teams \union {None}]]
    /\ owed \in [Handlers -> SUBSET (Players \X Teams)]

Members(g, t) == Elements(slots[g][t], size[g][t])
Quiet(g, t) == \A h \in Handlers : ~Inside(h, g, t, Writing)

(* Whatever happens in the lists, a player is found only in a team that he    *)
(* asked for or is a test player of: no race moves anybody to the other team. *)
OnlyWhereAsked ==
    \A g \in Games, t \in Teams, p \in Players :
        p \in Members(g, t) => <<p, t>> \in asked \/ p \in SeedNames(t)

(* As long as no two handlers met in a list, a player is in the team that he  *)
(* joined last: no join, of his own or of another, to this or to a game       *)
(* created or deleted meanwhile, takes him out of it.                         *)
MembersKept ==
    \A g \in Games, p \in Players :
        LET t == last[g][p]
        IN  t # None /\ ~raced[g][t] => p \in Members(g, t)

(* Orderly phones: nobody is in both teams of a game or in one of them twice, *)
(* as long as no two handlers met in a list.                                  *)
NoDoubles ==
    Orderly => \A g \in Games, p \in Names :
        (\A t \in Teams : ~raced[g][t] /\ Quiet(g, t)) =>
            Cardinality({m \in Teams \X (1..MaxSize) :
                m[2] <= size[g][m[1]] /\ Slot(slots[g][m[1]], m[2]) = p}) <= 1

(* The answer to a GET shows every player whose join was answered before the  *)
(* GET, if he asked for no other team since; the phones refresh their lists   *)
(* with the GET that follows their own join (JoinGameActivity.kt:119).        *)
AnsweredJoinsShown ==
    \A h \in Handlers :
        At(h, "shown") => \A m \in owed[h] :
            ~raced[thread[h].at][m[2]] => m[1] \in thread[h].view[m[2]]
=============================================================================
