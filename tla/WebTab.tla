------------------------------- MODULE WebTab -------------------------------
(***************************************************************************)
(* One tab of apps/web: its pages, which share the browser's session, and  *)
(* the navigation between them.  A client-side navigation unmounts a page, *)
(* and leaves the requests it has under way to answer to nobody.           *)
(***************************************************************************)
EXTENDS Lobby, RoomPage

CONSTANT MaxLate    \* bound: requests that a page leaves behind

ASSUME LateBound == MaxLate \in Nat

VARIABLE stayed     \* history: the page on show was navigated to

lobbyVars == <<lobby, stored, rooms, lobbyCalls>>
vars == <<cookie, route, forms, lobbyVars, roomVars, stayed>>

(* The pages a page has a link to; the buttons of a room lead to one, too. *)
Links(p) ==
    CASE p = "home" -> {"login", "register", "lobby"}
      [] p = "login" -> {"register"}
      [] p = "register" -> {"login"}
      [] p = "lobby" -> {"home"}
      [] p = "room" -> {"home", "lobby"}

-----------------------------------------------------------------------------
(* A browser that has been here before, or has not, is on its way to the   *)
(* page of an address.                                                     *)
Init ==
    /\ cookie \in {"none", "live", "expired"}
    /\ page = "home" /\ leaving \in {"home", "login", "lobby", "room"}
    /\ busyForm = FALSE /\ formErrors = {} /\ posts = {}
    /\ catalog = FALSE /\ selected = NoCar /\ dialog = FALSE
    /\ busy = FALSE /\ error = FALSE /\ list = NoPoll /\ rejected = FALSE
    /\ stored = NoCar /\ rooms = 0
    /\ loads = {} /\ asks = {} /\ polls = {} /\ failures = 0
    /\ game = "none" /\ open = TRUE /\ ready = {} /\ timer = FALSE
    /\ readying = {} /\ announcing = {} /\ other = "on" /\ ghost = FALSE
    /\ joining = Nothing /\ joined = FALSE
    /\ view = "none" /\ fetched = Nothing /\ status = "WAITING" /\ roster = {}
    /\ race = FALSE /\ results = FALSE /\ pre = FALSE /\ countdown = FALSE /\ offline = FALSE
    /\ link = "none" /\ up = <<>> /\ down = <<>>
    /\ outdated = FALSE /\ haunted = FALSE /\ drops = 0 /\ absences = 0
    /\ stayed = FALSE

(* A page other than the one on show mounts in its place; every room is a  *)
(* page of its own, and opens (bound) when no earlier page has a request.  *)
Mounts(p) ==
    /\ Cardinality(posts \cup loads \cup asks) <= (IF p = "room" THEN 0 ELSE MaxLate)
    /\ page' = p /\ stayed' = FALSE
    /\ busyForm' = FALSE /\ formErrors' = {} /\ posts' = Disowned(posts)
    /\ LobbyMounts /\ LobbyAsks(p) /\ RoomMounts(p)

(* The navigation a handler asked for, to the page or to what the layout   *)
(* sends it to.                                                            *)
Arrive ==
    /\ leaving # "here"
    /\ leaving' = "here"
    /\ LET p == Behind(leaving)
       IN  IF p # page \/ p = "room" THEN Mounts(p)
           ELSE /\ stayed' = TRUE
                /\ UNCHANGED <<page, forms, lobbyVars, roomVars>>
    /\ UNCHANGED cookie

FollowLink ==
    /\ \E p \in Links(page) : Behind(p) # page /\ Mounts(Behind(p))
    /\ leaving' = "here"
    /\ UNCHANGED cookie

(* The cookie is not read in a room that has its socket: there it may as    *)
(* well change on the next page.                                           *)
Surprise ==
    /\ link \notin {"down", "up"}
    /\ TokenExpires \/ OtherTab
    /\ UNCHANGED <<lobbyVars, roomVars, stayed>>

(* In a room that is being left, nothing more matters. *)
Next ==
    \/ Arrive \/ FollowLink \/ Surprise
    \/ FormStep /\ UNCHANGED <<lobbyVars, roomVars, stayed>>
    \/ LobbyStep /\ UNCHANGED <<roomVars, stayed>>
    \/ leaving = "here" /\ RoomStep /\ UNCHANGED <<lobbyVars, stayed>>

(* The interval goes on as long as the lobby is on show, and every request *)
(* is answered, or rejects.                                                *)
Fairness ==
    /\ WF_vars(Poll /\ UNCHANGED <<roomVars, stayed>>)
    /\ WF_vars(PollRead /\ UNCHANGED <<roomVars, stayed>>)
    /\ \A n \in 0..MaxChanges : WF_vars(PollAnswered(n) /\ UNCHANGED <<roomVars, stayed>>)

Spec == Init /\ [][Next]_vars /\ Fairness

-----------------------------------------------------------------------------
(* Every variable of the tab holds what the code can put there, and a page *)
(* that is not on show keeps nothing.                                      *)
TypeOK ==
    /\ cookie \in {"none", "live", "expired"}
    /\ page \in Page /\ leaving \in Page \cup {"here"}
    /\ formErrors \subseteq {"username", "email", "password", "root"}
    /\ page \notin Form => ~busyForm /\ formErrors = {}
    /\ "username" \in formErrors => page = "register"
    /\ posts \subseteq [form : Form, own : BOOLEAN]
    /\ selected \in Car \cup {NoCar} /\ stored \in Car \cup {NoCar}
    /\ page # "lobby" => ~catalog /\ ~busy /\ ~error /\ polls = {}
    /\ list \in {NoPoll} \cup 0..rooms /\ polls \subseteq {NoPoll} \cup 0..rooms
    /\ view \in {"none", "loading", "failed", "loaded"} /\ (view = "none") = (page # "room")
    /\ game \in Game /\ ready \subseteq Member /\ roster \subseteq Member
    /\ pre => game # "none"
    /\ link \in {"none", "token", "down", "up", "error"}
    /\ joined => link = "up"
    /\ (joining # Nothing \/ down # <<>>) => joined

(* The lobby chooses no car that is locked, not even one it had stored     *)
(* before, and enters no room with one (loadCatalog, requireCarId).        *)
SelectedIsUnlocked ==
    /\ catalog /\ Unlocked # {} => selected \in Unlocked
    /\ \A q \in asks : q.car \in Unlocked

(* The lobby's buttons and the forms are blocked only while their own       *)
(* request is under way, however that ends (the finally blocks of the      *)
(* handlers), and none that was left blocks the page that came after.      *)
BusyEnds ==
    /\ busy => \E q \in asks : q.own
    /\ busyForm => \E p \in posts : p.own /\ p.form = page

(* A lobby that has not loaded waits for its catalog, offers to try again, *)
(* or is left, unless the network failed, or a sign-in that was answered   *)
(* late has called the tab back to it (loadCatalog).                       *)
LoadingEnds ==
    page = "lobby" /\ ~catalog /\ leaving = "here" /\ ~rejected /\ ~stayed
      => error \/ \E c \in loads : c.own

(* Whoever stays in the lobby sees the list the server has, although polls *)
(* fail and overtake one another (loadPublicRooms).                        *)
ListCatchesUp ==
    <>[](page = "lobby") => <>[](list = rooms)

(* The page in its room, with nothing under way to it or from it. *)
Quiet ==
    /\ view = "loaded" /\ joined
    /\ up = <<>> /\ down = <<>> /\ joining = Nothing /\ announcing = {} /\ ~ghost

(* The panel on show is that of the room, although the room's status is    *)
(* fetched once, its moves are refused or told late, and connections drop; *)
(* but for the end of the race, which a page that was away is not told.    *)
PanelFitsTheRoom ==
    Quiet => /\ game = "none" => ShowPreRace
             /\ game = "on" => ShowRace /\ ~ShowPost

(* The page shows who is ready by the room's snapshot, also after one      *)
(* ready was written over another, unless the list that was announced last *)
(* had been read before a later one was written (onPlayerReady,            *)
(* onJoinRoom).                                                            *)
RosterIsCurrent ==
    Quiet /\ ~outdated => \A m \in Member : PlayerList[m] = "ready" <=> m \in ready

(* A player shown as gone is gone, as long as this page keeps its          *)
(* connection and no broken one of theirs is noticed after their return    *)
(* (handleDisconnect, onPlayerConnectionChange).                           *)
OfflineIsTrue ==
    Quiet /\ drops = 0 /\ ~haunted /\ "other" \in OfflineNames => other = "off"
=============================================================================
