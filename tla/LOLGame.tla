------------------------------- MODULE LOLGame -------------------------------
(***************************************************************************)
(* LOLGame: the program's own logic.  On the game thread a repeated task   *)
(* (OnTimer) follows the League client through its local HTTP service, and *)
(* a task posted by the apply button (SetChampionConf) writes an item set  *)
(* and a rune page into the client.  Results are posted to the window.     *)
(*                                                                         *)
(* The game thread runs one task at a time (module MessageLoop), but every *)
(* task is a series of HTTP requests, and between two of them the client   *)
(* moves on, exits or is started again, requests fail, and the UI thread   *)
(* shows what was posted.  An action is therefore what a handler does from *)
(* one request to the next; pc names the request about to be made.         *)
(*                                                                         *)
(* The client is external: its actions are what LCURequest.cpp and         *)
(* LOLGame.cpp let it do.  A session is one run of the client, known to    *)
(* the program by its port and token.                                      *)
(***************************************************************************)
EXTENDS Integers, Sequences, FiniteSets

CONSTANTS
  Champs,       \* champion ids the client lists, all positive
  Teams,        \* sets of champion ids the other players may have, 0 for none yet
  Accounts,     \* summoner ids that may log in, all positive
  Phases,       \* the gameflow phases the client goes through
  PollAfter,    \* OnGameInProgress polls once count exceeds it (5 in the code)
  MaxSessions,  \* bound: how often the client is started
  MaxFailures,  \* bound: how many requests fail although a client is there
  MaxClicks,    \* bound: how often the apply button is pressed
  MaxUI,        \* bound: a task starts only while fewer messages wait for the UI
  SlowRestart   \* TRUE: the client is started only once its absence was noticed

LobbyPhases  == {"None", "Matchmaking", "Lobby", "ReadyCheck"}
GamePhases   == {"GameStart", "InProgress", "EndOfGame", "PreEndOfGame"}
IgnoredPhases == {"Reconnect", "WaitingForStatus"}
KnownPhases  == LobbyPhases \cup GamePhases \cup IgnoredPhases \cup {"ChampSelect"}
Statuses     == KnownPhases \cup {"NoLaunch", "Launching", "unknown"}

ASSUME ChampsAssumption   == Champs \subseteq Nat \ {0} /\ IsFiniteSet(Champs)
ASSUME TeamsAssumption    == Teams \subseteq SUBSET (Champs \cup {0})
ASSUME AccountsAssumption == Accounts \subseteq Nat \ {0}
ASSUME BoundsAssumption   == /\ PollAfter \in Nat /\ MaxSessions \in Nat
                             /\ MaxFailures \in Nat /\ MaxClicks \in Nat
                             /\ MaxUI \in Nat /\ SlowRestart \in BOOLEAN

VARIABLES
  session, account, phase, my_champ, my_team, \* the client; session 0: not running
  item_set, rune_page,    \* per account: the champion this program set them for, or 0
  sessions, failures, clicks, \* counters for the bounds
  pc,                     \* "idle", or the request the running task makes next
  cur_game_status_, count, \* count: the static of OnGameInProgress
  port,                   \* the session lcu_request_ was initialised for
  login_id, summoner_id,  \* login_info_.summonerId, cur_summoner_info_.summonerId
  all_champ_info_map_,    \* id -> TRUE if loaded, FALSE if operator[] inserted it
  ranked,                 \* ~all_champ_rank_info_.empty()
  available_champ_info_map_, \* id -> otherSelected
  cur_select_champ_info_, \* its id
  cur_champ_conf_,        \* its champion, and whether rune_items is non-empty
  applies,                \* SetChampionConf tasks waiting in the game thread's loop
  ui_queue,               \* tasks waiting in the UI thread's loop
  shown_summoner, shown_champ, shown_list, \* what the window shows
  seen                    \* champions seen on the team in this champion select

client == <<session, account, phase, my_champ, my_team, sessions>>
config == <<item_set, rune_page>>
status == <<cur_game_status_, count>>
login  == <<port, login_id, summoner_id>>
champs == <<all_champ_info_map_, ranked>>
select == <<available_champ_info_map_, cur_select_champ_info_, seen>>
apply  == <<cur_champ_conf_, applies, clicks>>
shown  == <<shown_summoner, shown_champ, shown_list>>
vars   == <<client, config, failures, pc, status, login, champs, select, apply,
            ui_queue, shown>>

Empty == [c \in {} |-> FALSE]   \* the empty std::map

Init ==
  /\ session = 0 /\ account = 0 /\ phase = "None" /\ my_champ = 0 /\ my_team = {}
  /\ item_set = [a \in Accounts |-> 0] /\ rune_page = [a \in Accounts |-> 0]
  /\ sessions = 0 /\ failures = 0 /\ clicks = 0
  /\ pc = "idle"
  /\ cur_game_status_ = "NoLaunch" /\ count = 0
  /\ port = 0 /\ login_id = 0 /\ summoner_id = 0
  /\ all_champ_info_map_ = Empty /\ ranked = FALSE
  /\ available_champ_info_map_ = Empty /\ cur_select_champ_info_ = 0
  /\ cur_champ_conf_ = [champ |-> 0, runes |-> FALSE]
  /\ applies = 0
  /\ ui_queue = <<>>
  /\ shown_summoner = 0 /\ shown_champ = 0 /\ shown_list = Empty
  /\ seen = {}

-----------------------------------------------------------------------------
(* The client (external) *)

AsideFromClient == <<config, failures, pc, status, login, champs, apply, ui_queue, shown,
                     available_champ_info_map_, cur_select_champ_info_>>

Launch ==
  /\ session = 0 /\ sessions < MaxSessions
  /\ SlowRestart => cur_game_status_ = "NoLaunch"
  /\ sessions' = sessions + 1
  /\ session' = sessions + 1
  /\ UNCHANGED <<account, phase, my_champ, my_team, seen, AsideFromClient>>

LogIn(a) ==
  /\ session # 0 /\ account = 0
  /\ account' = a
  /\ UNCHANGED <<session, phase, my_champ, my_team, sessions, seen, AsideFromClient>>

(* The client is closed or crashes. *)
Exit ==
  /\ session # 0
  /\ session' = 0 /\ account' = 0 /\ phase' = "None" /\ my_champ' = 0 /\ my_team' = {}
  /\ UNCHANGED <<sessions, seen, AsideFromClient>>

ChangePhase(p) ==
  /\ account # 0 /\ phase # p
  /\ phase' = p
  /\ my_champ' = 0 /\ my_team' = IF p = "ChampSelect" THEN {0} ELSE {}
  /\ seen' = IF p = "ChampSelect" THEN {} ELSE seen
  /\ UNCHANGED <<session, account, sessions, AsideFromClient>>

(* Picks, rerolls and swaps: the team's champions change, mine among them; *)
(* a player who has none yet is listed with champion 0.                    *)
Pick(c, others) ==
  /\ phase = "ChampSelect"
  /\ <<c, {c} \cup others>> # <<my_champ, my_team>>
  /\ my_champ' = c /\ my_team' = {c} \cup others
  /\ UNCHANGED <<session, account, phase, sessions, seen, AsideFromClient>>

ClientStep ==
  \/ Launch \/ Exit
  \/ \E a \in Accounts : LogIn(a)
  \/ \E p \in Phases : ChangePhase(p)
  \/ \E c \in Champs : \E others \in Teams : Pick(c, others)

-----------------------------------------------------------------------------
(* Requests and posts *)

(* LCURequest::Request reaches the client it was initialised for, and its  *)
(* answer arrives; or it yields an empty or unusable text.                 *)
Reachable  == session # 0 /\ port = session
Fails      == failures < MaxFailures /\ failures' = failures + 1
Answered   == Reachable /\ UNCHANGED failures
Unanswered == \/ ~Reachable /\ UNCHANGED failures
              \/ Reachable /\ Fails

(* A request to op.gg, which does not depend on the client. *)
OpggAnswered   == UNCHANGED failures
OpggUnanswered == Fails

(* ThreadManager::PostTask(kThreadUI, Bind(&MainWindow::..., value)). *)
PostUI(kind, value) == ui_queue' = Append(ui_queue, [kind |-> kind, value |-> value])

(* GetChampInfoById is all_champ_info_map_[id]: an unknown id is inserted, *)
(* as a ChampInfo whose own id is 0 and whose name is empty.               *)
Insert(ids) == [c \in DOMAIN all_champ_info_map_ \cup ids |->
                  c \in DOMAIN all_champ_info_map_ /\ all_champ_info_map_[c]]
GetChampInfoById(id) == IF Insert({id})[id] THEN id ELSE 0

(* A new task is taken from the game thread's loop. *)
Ready == pc = "idle" /\ Len(ui_queue) < MaxUI

-----------------------------------------------------------------------------
(* OnTimer, while the program is not connected *)

(* FindGameWindow *)
FindGameWindow ==
  /\ Ready /\ cur_game_status_ = "NoLaunch"
  /\ session # 0
  /\ cur_game_status_' = "Launching"
  /\ UNCHANGED <<client, config, failures, pc, count, login, champs, select, apply,
                 ui_queue, shown>>

(* Mutant of OnUnknown: the summoner of the last session is kept. *)
OnUnknownKeep ==
  /\ Ready /\ cur_game_status_ = "unknown"
  /\ cur_game_status_' = IF session = 0 THEN "NoLaunch" ELSE "None"
  /\ UNCHANGED <<client, config, failures, pc, count, login, champs, select, apply,
                 ui_queue, shown>>

(* The unknown case: without the client's window the program starts over,  *)
(* with it the phase is polled again.                                      *)
OnUnknown ==
  /\ Ready /\ cur_game_status_ = "unknown"
  /\ \/ /\ session = 0
        /\ summoner_id' = 0
        /\ cur_game_status_' = "NoLaunch"
     \/ /\ session # 0
        /\ cur_game_status_' = "None"
        /\ UNCHANGED summoner_id
  /\ UNCHANGED <<client, config, failures, pc, count, port, login_id, champs, select,
                 apply, ui_queue, shown>>

(* OnClientInfo's test for data that is complete. *)
Loaded == /\ summoner_id # 0
          /\ all_champ_info_map_ # Empty
          /\ ranked

(* Mutant of OnClientInfoDone: the ranking is not waited for. *)
OnClientInfoUnranked ==
  /\ Ready /\ cur_game_status_ = "Launching"
  /\ session # 0
  /\ summoner_id # 0 /\ all_champ_info_map_ # Empty
  /\ cur_game_status_' = "None"
  /\ UNCHANGED <<client, config, failures, pc, count, login, champs, select, apply,
                 ui_queue, shown>>

(* OnClientInfo with all data there: the lobby is polled from now on. *)
OnClientInfoDone ==
  /\ Ready /\ cur_game_status_ = "Launching"
  /\ session # 0
  /\ Loaded
  /\ cur_game_status_' = "None"
  /\ UNCHANGED <<client, config, failures, pc, count, login, champs, select, apply,
                 ui_queue, shown>>

(* Otherwise it reads port and token from the client's command line, which *)
(* may not be readable, and LCURequest::Init takes them over.              *)
OnClientInfo ==
  /\ Ready /\ cur_game_status_ = "Launching"
  /\ session # 0
  /\ ~Loaded
  /\ \/ port' = session /\ UNCHANGED failures
     \/ port' = 0 /\ Fails
  /\ pc' = "login"
  /\ UNCHANGED <<client, config, status, login_id, summoner_id, champs, select, apply,
                 ui_queue, shown>>

(* LCURequest::login: a failure leaves login_info_ as it was, a client at  *)
(* its login screen answers with an error object that has no summonerId.   *)
Login ==
  /\ pc = "login"
  /\ \/ Answered /\ login_id' = account
     \/ Unanswered /\ UNCHANGED login_id
  /\ pc' = "summoner"
  /\ UNCHANGED <<client, config, status, port, summoner_id, champs, select, apply,
                 ui_queue, shown>>

(* Mutant of GetCurSummonerInfo: the window is sent the previous summoner. *)
GetCurSummonerInfoOld ==
  /\ pc = "summoner"
  /\ \/ Answered /\ summoner_id' = account
     \/ Unanswered /\ summoner_id' = 0
  /\ PostUI("summoner", summoner_id)
  /\ pc' = IF all_champ_info_map_ = Empty THEN "champs"
           ELSE IF ~ranked THEN "ranks" ELSE "idle"
  /\ UNCHANGED <<client, config, status, port, login_id, champs, select, apply, shown>>

(* GetCurSummonerInfo returns 0 if it fails; then GetAllChampInfo begins.  *)
GetCurSummonerInfo ==
  /\ pc = "summoner"
  /\ \/ Answered /\ summoner_id' = account
     \/ Unanswered /\ summoner_id' = 0
  /\ PostUI("summoner", summoner_id')
  /\ pc' = IF all_champ_info_map_ = Empty THEN "champs"
           ELSE IF ~ranked THEN "ranks" ELSE "idle"
  /\ UNCHANGED <<client, config, status, port, login_id, champs, select, apply, shown>>

(* Mutant of GetAllChampInfoMap: the inventory of the current summoner is  *)
(* asked for, whatever login answered.                                     *)
GetAllChampInfoMapCurrent ==
  /\ pc = "champs"
  /\ \/ Answered /\ account # 0 /\ all_champ_info_map_' = [c \in Champs |-> TRUE]
     \/ Unanswered /\ UNCHANGED all_champ_info_map_
  /\ pc' = IF all_champ_info_map_' # Empty /\ ~ranked THEN "ranks" ELSE "idle"
  /\ UNCHANGED <<client, config, status, login, ranked, select, apply, ui_queue, shown>>

(* The champions are listed for login_info_.summonerId; for any other id   *)
(* than the current one the client answers with an error, not an array.    *)
GetAllChampInfoMap ==
  /\ pc = "champs"
  /\ \/ /\ Answered /\ account # 0 /\ login_id = account
        /\ all_champ_info_map_' = [c \in Champs |-> TRUE]
     \/ /\ Answered /\ (account = 0 \/ login_id # account)
        /\ UNCHANGED all_champ_info_map_
     \/ Unanswered /\ UNCHANGED all_champ_info_map_
  /\ pc' = IF all_champ_info_map_' # Empty /\ ~ranked THEN "ranks" ELSE "idle"
  /\ UNCHANGED <<client, config, status, login, ranked, select, apply, ui_queue, shown>>

(* GetOPGGChampRankInfo; the ranking is merged into the champions.  An id  *)
(* of it that the client does not list, here 0, is inserted by operator[]. *)
(* The images asked for meanwhile change nothing but files.                *)
GetOPGGChampRankInfo ==
  /\ pc = "ranks"
  /\ \/ /\ OpggAnswered /\ ranked' = TRUE
        /\ \E unlisted \in SUBSET {0} : all_champ_info_map_' = Insert(unlisted)
     \/ OpggUnanswered /\ UNCHANGED champs
  /\ pc' = "idle"
  /\ UNCHANGED <<client, config, status, login, select, apply, ui_queue, shown>>

-----------------------------------------------------------------------------
(* OnTimer, following the client's phase *)

(* Mutant of OnGameNone: the window is not told. *)
OnGameNoneSilent ==
  /\ Ready /\ cur_game_status_ \in LobbyPhases
  /\ available_champ_info_map_' = Empty
  /\ pc' = "status"
  /\ UNCHANGED <<client, config, failures, status, login, champs,
                 cur_select_champ_info_, seen, apply, ui_queue, shown>>

(* OnGameNone, up to GetGameStatus: a champion select is over.             *)
OnGameNone ==
  /\ Ready /\ cur_game_status_ \in LobbyPhases
  /\ available_champ_info_map_' = Empty
  /\ IF available_champ_info_map_ # Empty THEN PostUI("list", Empty)
     ELSE UNCHANGED ui_queue
  /\ pc' = "status"
  /\ UNCHANGED <<client, config, failures, status, login, champs,
                 cur_select_champ_info_, seen, apply, shown>>

(* Mutant of OnGameInProgress: the counter is not reset. *)
OnGameInProgressAlways ==
  /\ Ready /\ cur_game_status_ \in GamePhases
  /\ count' = count + 1
  /\ pc' = IF count < PollAfter THEN "idle" ELSE "status"
  /\ count <= PollAfter
  /\ UNCHANGED <<client, config, failures, cur_game_status_, login, champs, select,
                 apply, ui_queue, shown>>

(* OnGameInProgress polls on every (PollAfter + 1)st call only. *)
OnGameInProgress ==
  /\ Ready /\ cur_game_status_ \in GamePhases
  /\ count' = IF count < PollAfter THEN count + 1 ELSE 0
  /\ pc' = IF count < PollAfter THEN "idle" ELSE "status"
  /\ UNCHANGED <<client, config, failures, cur_game_status_, login, champs, select,
                 apply, ui_queue, shown>>

OnChampSelect ==
  /\ Ready /\ cur_game_status_ = "ChampSelect"
  /\ pc' = "status"
  /\ UNCHANGED <<client, config, failures, status, login, champs, select, apply,
                 ui_queue, shown>>

(* GetGameStatus and SetGameStatus, the same in the three handlers: a text *)
(* that is no known phase becomes unknown.  Only in champion select, and   *)
(* if the client is still there, does the handler go on.                   *)
GetGameStatus ==
  /\ pc = "status"
  /\ \/ Answered /\ cur_game_status_' = IF phase \in KnownPhases THEN phase ELSE "unknown"
     \/ Unanswered /\ cur_game_status_' = "unknown"
  /\ pc' = IF cur_game_status_ = "ChampSelect" /\ cur_game_status_' = "ChampSelect"
           THEN "champ" ELSE "idle"
  /\ UNCHANGED <<client, config, count, login, champs, select, apply, ui_queue, shown>>

(* Mutant of GetCurSelectChampionId: the window is told before the choice  *)
(* is stored, so it is told the old one.                                   *)
GetCurSelectChampionIdOld ==
  /\ pc = "champ"
  /\ \E cur_id \in {0, my_champ} :
       /\ IF cur_id = 0 THEN Answered \/ Unanswered ELSE Answered
       /\ cur_id # cur_select_champ_info_
       /\ all_champ_info_map_' = Insert({cur_id})
       /\ cur_select_champ_info_' = GetChampInfoById(cur_id)
       /\ PostUI("champ", cur_select_champ_info_)
  /\ pc' = "team"
  /\ UNCHANGED <<client, config, status, login, ranked, available_champ_info_map_, seen,
                 apply, shown>>

(* GetCurSelectChampionId returns 0 if it fails, and if nothing is chosen; *)
(* OnMyChampChanged follows if the id is not the one known.                *)
GetCurSelectChampionId ==
  /\ pc = "champ"
  /\ \E cur_id \in {0, my_champ} :
       /\ \/ Answered /\ cur_id = my_champ
          \/ Unanswered /\ cur_id = 0
       /\ \/ /\ cur_id # cur_select_champ_info_
             /\ all_champ_info_map_' = Insert({cur_id})
             /\ cur_select_champ_info_' = GetChampInfoById(cur_id)
             /\ PostUI("champ", cur_select_champ_info_')
          \/ /\ cur_id = cur_select_champ_info_
             /\ UNCHANGED <<all_champ_info_map_, cur_select_champ_info_, ui_queue>>
  /\ pc' = "team"
  /\ UNCHANGED <<client, config, status, login, ranked, available_champ_info_map_, seen,
                 apply, shown>>

(* Mutant of Available: a champion that was given back is forgotten. *)
AvailableTeam(select_champs) == [c \in select_champs |-> TRUE]

(* The champions known to be available once `select_champs' was received:  *)
(* those on the team are taken, the others known from before are free.     *)
Available(select_champs) ==
  [c \in DOMAIN available_champ_info_map_ \cup select_champs |-> c \in select_champs]

(* GetChampSelectInfo and the rest of OnChampSelect. *)
GetChampSelectInfo ==
  /\ pc = "team"
  /\ \E select_champs \in {{}, my_team} :
       /\ \/ Answered /\ select_champs = my_team
          \/ Unanswered /\ select_champs = {}
       /\ seen' = seen \cup (select_champs \ {0})
       /\ available_champ_info_map_' = Available(select_champs)
       /\ all_champ_info_map_' = Insert(select_champs)
  /\ IF available_champ_info_map_' # available_champ_info_map_
     THEN PostUI("list", available_champ_info_map_')
     ELSE UNCHANGED ui_queue
  /\ pc' = "idle"
  /\ UNCHANGED <<client, config, status, login, ranked, cur_select_champ_info_, apply,
                 shown>>

-----------------------------------------------------------------------------
(* SetChampionConf *)

(* OnClickConfigChamp, on the UI thread. *)
OnClickConfigChamp ==
  /\ pc # "crashed"
  /\ clicks < MaxClicks
  /\ clicks' = clicks + 1
  /\ applies' = applies + 1
  /\ UNCHANGED <<client, config, failures, pc, status, login, champs, select,
                 cur_champ_conf_, ui_queue, shown>>

(* The posted task starts; without a champion it returns at once. *)
SetChampionConf ==
  /\ pc = "idle" /\ applies > 0
  /\ applies' = applies - 1
  /\ pc' = IF cur_select_champ_info_ = 0 THEN "idle" ELSE "conf"
  /\ UNCHANGED <<client, config, failures, status, login, champs, select, clicks,
                 cur_champ_conf_, ui_queue, shown>>

(* GetChampConf: if op.gg cannot be reached, or knows no runes for this    *)
(* champion, rune_items is empty.  The name lookup is another operator[].  *)
GetChampConf ==
  /\ pc = "conf"
  /\ \E runes \in BOOLEAN :
       /\ OpggAnswered \/ (~runes /\ OpggUnanswered)
       /\ cur_champ_conf_' = [champ |-> cur_select_champ_info_, runes |-> runes]
  /\ all_champ_info_map_' = Insert({cur_select_champ_info_})
  /\ pc' = "get_items"
  /\ UNCHANGED <<client, config, status, login, ranked, select, applies, clicks,
                 ui_queue, shown>>

(* SetChampionItem: read the item sets; give up if that fails ... *)
GetItemSets ==
  /\ pc = "get_items"
  /\ \/ Answered /\ pc' = "put_items"
     \/ Unanswered /\ pc' = "get_page"
  /\ UNCHANGED <<client, config, status, login, champs, select, apply, ui_queue, shown>>

(* Mutant of PutItemSets: the sets are put for the wrong summoner. *)
PutItemSetsAstray ==
  /\ pc = "put_items"
  /\ Answered \/ Unanswered
  /\ UNCHANGED item_set
  /\ pc' = "get_page"
  /\ UNCHANGED <<client, rune_page, status, login, champs, select, apply, ui_queue, shown>>

(* ... and put them back with this champion's set.  The client accepts     *)
(* item sets of the summoner who is logged in.                             *)
PutItemSets ==
  /\ pc = "put_items"
  /\ \/ /\ Answered /\ account # 0 /\ login_id = account
        /\ item_set' = [item_set EXCEPT ![account] = cur_champ_conf_.champ]
     \/ /\ Answered /\ (account = 0 \/ login_id # account)
        /\ UNCHANGED item_set
     \/ Unanswered /\ UNCHANGED item_set
  /\ pc' = "get_page"
  /\ UNCHANGED <<client, rune_page, status, login, champs, select, apply, ui_queue, shown>>

(* SetChampionPerk: find the current rune page, or give up. *)
GetCurrentPage ==
  /\ pc = "get_page"
  /\ \/ Answered /\ pc' = "delete_page"
     \/ Unanswered /\ pc' = "idle"
  /\ UNCHANGED <<client, config, status, login, champs, select, apply, ui_queue, shown>>

(* The page is deleted; rune_items[0] is read only then, and reading it    *)
(* from an empty vector is undefined: the build dereferences null.         *)
DeletePage ==
  /\ pc = "delete_page"
  /\ \/ /\ Answered
        /\ rune_page' = [a \in Accounts |-> IF a = account THEN 0 ELSE rune_page[a]]
     \/ Unanswered /\ UNCHANGED rune_page
  /\ pc' = IF cur_champ_conf_.runes THEN "post_page" ELSE "crashed"
  /\ UNCHANGED <<client, item_set, status, login, champs, select, apply, ui_queue, shown>>

PostPage ==
  /\ pc = "post_page"
  /\ \/ /\ Answered
        /\ rune_page' = [a \in Accounts |-> IF a = account THEN cur_champ_conf_.champ
                                            ELSE rune_page[a]]
     \/ Unanswered /\ UNCHANGED rune_page
  /\ pc' = "idle"
  /\ UNCHANGED <<client, item_set, status, login, champs, select, apply, ui_queue, shown>>

-----------------------------------------------------------------------------
(* MainWindow *)

(* The UI thread runs the oldest posted task: SetSummonerInfo,             *)
(* SetAvailableChamp, or SetChampInfo, which ignores a champion without a  *)
(* name.                                                                   *)
UIStep ==
  /\ pc # "crashed"
  /\ ui_queue # <<>>
  /\ ui_queue' = Tail(ui_queue)
  /\ LET m == Head(ui_queue)
     IN \/ /\ m.kind = "summoner" /\ shown_summoner' = m.value
           /\ UNCHANGED <<shown_champ, shown_list>>
        \/ /\ m.kind = "list" /\ shown_list' = m.value
           /\ UNCHANGED <<shown_summoner, shown_champ>>
        \/ /\ m.kind = "champ"
           /\ shown_champ' = IF m.value = 0 THEN shown_champ ELSE m.value
           /\ UNCHANGED <<shown_summoner, shown_list>>
  /\ UNCHANGED <<client, config, failures, pc, status, login, champs, select, apply>>

-----------------------------------------------------------------------------
(* What the game thread does on its own: the repeated task, its requests,  *)
(* and the posted tasks.                                                   *)
Timer ==
  \/ FindGameWindow \/ OnUnknown \/ OnClientInfoDone \/ OnClientInfo
  \/ OnGameNone \/ OnGameInProgress \/ OnChampSelect
Requests ==
  \/ Login \/ GetCurSummonerInfo \/ GetAllChampInfoMap \/ GetOPGGChampRankInfo
  \/ GetGameStatus \/ GetCurSelectChampionId \/ GetChampSelectInfo
  \/ GetChampConf \/ GetItemSets \/ PutItemSets
  \/ GetCurrentPage \/ DeletePage \/ PostPage

Next ==
  \/ ClientStep \/ OnClickConfigChamp
  \/ Timer \/ SetChampionConf \/ Requests
  \/ UIStep

Spec == Init /\ [][Next]_vars

(* The repeated task comes again and again, the UI thread runs its tasks.  *)
(* That requests return is assumed: the code gives them no timeout.        *)
(* Nobody has to log in, pick or click.                                    *)
FairSpec ==
  Spec /\ WF_vars(Timer) /\ WF_vars(SetChampionConf) /\ WF_vars(Requests) /\ WF_vars(UIStep)

-----------------------------------------------------------------------------
(* Properties *)

ChampMap == UNION {[D -> BOOLEAN] : D \in SUBSET (Champs \cup {0})}
Messages == [kind : {"summoner"}, value : Accounts \cup {0}]
              \cup [kind : {"champ"}, value : Champs \cup {0}]
              \cup [kind : {"list"}, value : ChampMap]
PCs == {"idle", "login", "summoner", "champs", "ranks", "status", "champ", "team",
        "conf", "get_items", "put_items", "get_page", "delete_page", "post_page", "crashed"}

(* Every variable keeps the shape of the C++ field, or of the part of the  *)
(* client, that it stands for.                                             *)
TypeOK ==
  /\ session \in 0..MaxSessions /\ sessions \in 0..MaxSessions
  /\ account \in Accounts \cup {0} /\ phase \in Phases \cup {"None"}
  /\ my_champ \in Champs \cup {0} /\ my_team \subseteq Champs \cup {0}
  /\ item_set \in [Accounts -> Champs \cup {0}]
  /\ rune_page \in [Accounts -> Champs \cup {0}]
  /\ failures \in 0..MaxFailures
  /\ clicks \in 0..MaxClicks /\ applies \in Nat
  /\ pc \in PCs
  /\ cur_game_status_ \in Statuses
  /\ count \in 0..PollAfter
  /\ port \in 0..MaxSessions
  /\ login_id \in Accounts \cup {0} /\ summoner_id \in Accounts \cup {0}
  /\ all_champ_info_map_ \in ChampMap /\ ranked \in BOOLEAN
  /\ available_champ_info_map_ \in ChampMap
  /\ cur_select_champ_info_ \in Champs \cup {0}
  /\ cur_champ_conf_ \in [champ : Champs \cup {0}, runes : BOOLEAN]
  /\ ui_queue \in Seq(Messages)
  /\ shown_summoner \in Accounts \cup {0}
  /\ shown_champ \in Champs \cup {0}
  /\ shown_list \in ChampMap
  /\ seen \subseteq Champs

Connected == cur_game_status_ \notin {"NoLaunch", "Launching"}

(* Past Launching the program has a summoner, the champions and their      *)
(* ranking: each handler of OnTimer relies on it, across failed requests,  *)
(* restarts of the client and the early return of OnClientInfo.            *)
LoadedWhenConnected == Connected => Loaded

(* What the window shows of this kind once the queued tasks have run: the  *)
(* last one of the kind sends it, or it is shown already.                  *)
WillShow(queue, kind, shown_now, value) ==
  \/ \E i \in DOMAIN queue :
       /\ queue[i].kind = kind /\ queue[i].value = value
       /\ \A j \in DOMAIN queue : j > i => queue[j].kind # kind
  \/ /\ shown_now = value
     /\ \A i \in DOMAIN queue : queue[i].kind # kind

(* The window never ends up with a stale list: once the posted tasks have  *)
(* run, champ_list_ shows exactly available_champ_info_map_, although the  *)
(* map is sent only when OnChampSelect and OnGameNone think it changed.    *)
ListIsCurrent == WillShow(ui_queue, "list", shown_list, available_champ_info_map_)

(* The champion the apply button acts on is the one the window shows, or   *)
(* is about to show, although the window ignores a champion without name.  *)
ChampIsCurrent ==
  cur_select_champ_info_ # 0 =>
    WillShow(ui_queue, "champ", shown_champ, cur_select_champ_info_)

(* The summoner shown, or about to be, is the connected one: neither       *)
(* failed requests nor a reset on the way leave an older one there.        *)
SummonerIsCurrent ==
  Connected => WillShow(ui_queue, "summoner", shown_summoner, summoner_id)

(* In the client's first session the item sets are addressed to the        *)
(* summoner who is logged in, although login() and GetCurSummonerInfo()    *)
(* are two requests and either may fail or be overtaken by the login.  In  *)
(* later sessions the champions are not fetched again and nothing checks.  *)
LoginIsCurrent == Connected /\ sessions = 1 => login_id = summoner_id

(* If no request fails, the available champions include every one that was *)
(* seen on the team in the client's present champion select.               *)
AvailableKeepsSeen ==
  failures = 0 /\ phase = "ChampSelect" => seen \subseteq DOMAIN available_champ_info_map_

(***************************************************************************)
(* The inductive invariant the proofs use, by parts.                       *)
(***************************************************************************)
(* Which status a request is made in. *)
PhaseInv ==
  /\ pc \in {"login", "summoner", "champs", "ranks"} => cur_game_status_ = "Launching"
  /\ pc \in {"status", "champ", "team"} => Connected
  /\ pc \in {"champ", "team"} => cur_game_status_ = "ChampSelect"

(* What is sent to the window, also before the program is connected. *)
SentInv ==
  /\ ListIsCurrent
  /\ ChampIsCurrent
  /\ summoner_id # 0 => WillShow(ui_queue, "summoner", shown_summoner, summoner_id)

(* The ranking is asked for, and a champion chosen or configured, once the *)
(* champions are loaded.                                                   *)
ChosenInv ==
  /\ pc = "ranks" => all_champ_info_map_ # Empty
  /\ cur_select_champ_info_ # 0 => all_champ_info_map_ # Empty
  /\ pc = "conf" => cur_select_champ_info_ # 0

(* Without failures the program is in the champion select it has seen.     *)
SeenInv ==
  /\ session = 0 => phase = "None"
  /\ failures = 0 /\ phase = "ChampSelect" /\ seen # {} =>
       Reachable /\ cur_game_status_ = "ChampSelect"

(* In the first session only one summoner is known. *)
LoginInv ==
  /\ session \in {0, sessions}
  /\ session = 0 => account = 0
  /\ sessions = 0 => login_id = 0 /\ summoner_id = 0
  /\ sessions = 1 /\ session # 0 => /\ login_id \in {0, account}
                                   /\ summoner_id \in {0, account}
  /\ sessions = 1 /\ login_id # 0 /\ summoner_id # 0 => login_id = summoner_id
  /\ sessions <= 1 /\ all_champ_info_map_ # Empty => login_id # 0

(* While no request fails in the first session, the champions are loaded   *)
(* from the client that is still there.  An apply is made for a champion,  *)
(* and an item set and a rune page of one account differ only between the  *)
(* request that puts the one and the request that posts the other.         *)
Applying == pc \in {"conf", "get_items", "put_items", "get_page", "delete_page", "post_page"}
Agree(accounts) == \A a \in accounts : item_set[a] = rune_page[a]
ApplyInv ==
  /\ Applying => cur_select_champ_info_ # 0
  /\ failures = 0 /\ session = sessions /\ sessions <= 1 =>
       /\ all_champ_info_map_ # Empty => Reachable
       /\ pc \in {"get_page", "delete_page", "post_page"} =>
            /\ Agree(Accounts \ {account})
            /\ account # 0 => item_set[account] = cur_champ_conf_.champ
       /\ pc \notin {"get_page", "delete_page", "post_page", "crashed"} => Agree(Accounts)

IInv == /\ TypeOK /\ PhaseInv /\ LoadedWhenConnected /\ SentInv /\ ChosenInv
        /\ SeenInv /\ AvailableKeepsSeen /\ LoginInv /\ ApplyInv

(* If no request fails and the client stays, an apply sets the item set    *)
(* and the rune page for the same champion.                                *)
AppliedTogether ==
  failures = 0 /\ session = 1 /\ ~Applying /\ pc # "crashed" => Agree(Accounts)

(* The status settles on the phase at which the client stays, through      *)
(* failures and (slow) restarts; except that Reconnect and                 *)
(* WaitingForStatus, once reached, are never left, and that a rune page    *)
(* with no runes in it ends the program.                                   *)
Follows ==
  \A p \in Phases \cap KnownPhases :
    <>[](account # 0 /\ phase = p) =>
      <>[](cur_game_status_ = p \/ cur_game_status_ \in IgnoredPhases \/ pc = "crashed")
=============================================================================
