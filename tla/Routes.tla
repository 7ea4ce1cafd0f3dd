-------------------------------- MODULE Routes --------------------------------
(***************************************************************************)
(* The routing profiles: ProfileManager's part of them                     *)
(* (dataStore/Database.cpp), the dialog that edits them                    *)
(* (ui/setting/dialog_manage_routes.cpp) and what the window does meanwhile*)
(* (ui/mainwindow.cpp): the dialog is not modal.                           *)
(*                                                                         *)
(* A routing profile is an object that `routes', the dialog's list and the *)
(* thread of updateRouteProfiles share; an object without an id yet has -1.*)
(* What it says is a number, another one for each text that is written or  *)
(* downloaded.  Ids are small enough to be loaded in order.                *)
(***************************************************************************)
EXTENDS Integers, Sequences, SequencesExt, FiniteSets, Lists

CONSTANTS
    MaxChains,      \* bound: objects made between two starts
    MaxNews         \* bound: texts written or downloaded

ASSUME BoundAssumption == MaxChains \in Nat \ {0} /\ MaxNews \in Nat

VARIABLES
    chain,          \* the objects: a sequence of ids and rules
    routes,         \* id -> object
    routesIdOrder,
    current_route_id,
    records,        \* disk: id -> rules
    savedId,        \* disk: current_route_id
    dialog,         \* closed, or where it is, with its list and currentRoute
    update,         \* the objects that updateRouteProfiles still has to update
    news            \* bound: the last text
(* History: the objects updated and not saved since; whether the program   *)
(* ended between the two writes of an accept.                              *)
VARIABLES unsaved, torn

routing     == <<chain, routes, routesIdOrder, current_route_id>>
savedRoutes == <<records, savedId>>
routesVars  == <<routing, savedRoutes, dialog, update, news, unsaved, torn>>

Closed == [at |-> "closed"]
IdOf(o)    == chain[o].id
RulesOf(o) == chain[o].rules
Objects    == DOMAIN chain

-----------------------------------------------------------------------------
(* ProfileManager *)

(* The lists of a set of ids that a map or a query walks through: one.     *)
Ascending(S) == {ids \in [1..Cardinality(S) -> S] : InOrder(ids) /\ ToSet(ids) = S}

NewRouteChainID == IF routes = <<>> THEN 0 ELSE Last(routesIdOrder) + 1

(* The objects of the map from ids, when objects come in this order.       *)
MapOf(list, ids) ==
    [id \in ToSet(ids) |-> list[CHOOSE i \in DOMAIN list :
        ids[i] = id /\ \A k \in DOMAIN list : ids[k] = id => k <= i]]

(* Mutant: a new id is the number of those before it.                      *)
NewIds_Count(list) ==
    [i \in DOMAIN list |-> IF IdOf(list[i]) >= 0 THEN IdOf(list[i]) ELSE i - 1]

(* The ids that AddRouteChain leaves, one after the other, beginning       *)
(* without any.                                                            *)
NewIds(list) ==
    LET f[i \in DOMAIN list] ==
            IF IdOf(list[i]) >= 0 THEN IdOf(list[i])
            ELSE IF i = 1 THEN 0 ELSE f[i - 1] + 1
    IN  f

(* All are taken, given ids and saved; the other records are dropped.      *)
UpdateRouteChains(list) ==
    LET ids == NewIds(list)
    IN  /\ chain' = [o \in Objects |->
                        IF o \in ToSet(list)
                        THEN [chain[o] EXCEPT
                                !.id = ids[CHOOSE i \in DOMAIN list : list[i] = o]]
                        ELSE chain[o]]
        /\ routes' = MapOf(list, ids) /\ routesIdOrder' = ids
        /\ records' = [id \in DOMAIN routes' |-> RulesOf(routes'[id])]
        /\ unsaved' = unsaved \ ToSet(list)

Make(id, rules) ==
    /\ Len(chain) < MaxChains
    /\ chain' = Append(chain, [id |-> id, rules |-> rules])
Made == Len(chain) + 1

Text(n) == n \in 1..MaxNews /\ n = news + 1 /\ news' = n

(* LoadManager; with no record the default profile is added.               *)
Restart ==
    /\ \/ /\ DOMAIN records = {} /\ chain' = <<[id |-> 0, rules |-> 0]>>
          /\ routesIdOrder' = <<0>> /\ records' = [id \in {0} |-> 0]
       \/ /\ DOMAIN records # {} /\ routesIdOrder' \in Ascending(DOMAIN records)
          /\ chain' = [i \in DOMAIN routesIdOrder' |->
                [id |-> routesIdOrder'[i], rules |-> records[routesIdOrder'[i]]]]
          /\ UNCHANGED records
    /\ routes' = [id \in ToSet(routesIdOrder') |->
                     CHOOSE i \in DOMAIN routesIdOrder' : routesIdOrder'[i] = id]
    /\ current_route_id' = savedId
    /\ dialog' = Closed /\ update' = {} /\ unsaved' = {}
    /\ torn' = (torn \/ dialog.at = "accept")
    /\ UNCHANGED <<savedId, news>>

-----------------------------------------------------------------------------
(* The dialog *)

OpenDialog ==
    /\ dialog = Closed
    /\ \E ids \in Ascending(DOMAIN routes) :
          LET list == [i \in DOMAIN ids |-> routes[ids[i]]]
          IN  dialog' = [at |-> "open", list |-> list,
                         currentRoute |-> IF current_route_id \in DOMAIN routes
                                          THEN routes[current_route_id] ELSE list[1]]
    /\ UNCHANGED <<routing, savedRoutes, update, news, unsaved, torn>>

CloseDialog ==
    /\ dialog.at = "open" /\ dialog' = Closed
    /\ UNCHANGED <<routing, savedRoutes, update, news, unsaved, torn>>

Choose(i) ==
    /\ dialog.at = "open" /\ i \in DOMAIN dialog.list
    /\ dialog' = [dialog EXCEPT !.currentRoute = dialog.list[i]]
    /\ UNCHANGED <<routing, savedRoutes, update, news, unsaved, torn>>

(* A new one, or a clone.                                                  *)
NewRoute ==
    /\ dialog.at = "open"
    /\ \E rules \in {0} \cup {RulesOf(o) : o \in ToSet(dialog.list)} : Make(-1, rules)
    /\ dialog' = [dialog EXCEPT !.list = Append(@, Made)]
    /\ UNCHANGED <<routes, routesIdOrder, current_route_id, savedRoutes, update,
                   news, unsaved, torn>>

(* RouteItem makes a copy and stands before everything else.               *)
EditRoute(i) ==
    /\ dialog.at = "open" /\ i \in DOMAIN dialog.list
    /\ Make(IdOf(dialog.list[i]), RulesOf(dialog.list[i]))
    /\ dialog' = [at |-> "edit", list |-> dialog.list,
                  currentRoute |-> dialog.currentRoute, idx |-> i, copy |-> Made]
    /\ UNCHANGED <<routes, routesIdOrder, current_route_id, savedRoutes, update,
                   news, unsaved, torn>>

Back == [at |-> "open", list |-> dialog.list,
         currentRoute |-> dialog.currentRoute]

EditClosed ==
    /\ dialog.at = "edit" /\ dialog' = Back
    /\ UNCHANGED <<routing, savedRoutes, update, news, unsaved, torn>>

(* settingsChanged: the copy, with what was changed, takes the place.      *)
EditAccepted ==
    /\ dialog.at = "edit"
    /\ LET old == dialog.list[dialog.idx]
       IN  dialog' = [Back EXCEPT !.list[dialog.idx] = dialog.copy,
                        !.currentRoute = IF @ = old THEN dialog.copy ELSE @]
    /\ \/ UNCHANGED <<chain, news>>
       \/ \E n \in 1..MaxNews :
             Text(n) /\ chain' = [chain EXCEPT ![dialog.copy].rules = n]
    /\ UNCHANGED <<routes, routesIdOrder, current_route_id, savedRoutes,
                   update, unsaved, torn>>

(* Mutant: the profile that is taken out stays the chosen one.             *)
DeleteRoute_KeepsCurrent(i) ==
    /\ dialog.at = "open" /\ i \in DOMAIN dialog.list /\ Len(dialog.list) # 1
    /\ dialog' = [dialog EXCEPT !.list = RemoveAt(@, i)]
    /\ UNCHANGED <<routing, savedRoutes, update, news, unsaved, torn>>

DeleteRoute(i) ==
    /\ dialog.at = "open" /\ i \in DOMAIN dialog.list /\ Len(dialog.list) # 1
    /\ LET list == RemoveAt(dialog.list, i)
       IN  dialog' = [dialog EXCEPT !.list = list,
                        !.currentRoute = IF @ = dialog.list[i] THEN list[1] ELSE @]
    /\ UNCHANGED <<routing, savedRoutes, update, news, unsaved, torn>>

(* accept: the profiles are taken; a message box may ask about the DNS     *)
(* server before the routing settings are saved.                           *)
Accept ==
    /\ dialog.at = "open"
    /\ UpdateRouteChains(dialog.list)
    /\ current_route_id' = chain'[dialog.currentRoute].id
    /\ dialog' = [dialog EXCEPT !.at = "accept"]
    /\ torn' = FALSE
    /\ UNCHANGED <<savedId, update, news>>

Accepted ==
    /\ dialog.at = "accept" /\ dialog' = Closed
    /\ savedId' = current_route_id
    /\ UNCHANGED <<routing, records, update, news, unsaved, torn>>

-----------------------------------------------------------------------------
(* The window, whose menu is there unless something modal is               *)

Menu == dialog.at \in {"closed", "open"}

(* SpinnerDialog: AddRouteChain of a profile that was downloaded.          *)
Download ==
    /\ Menu
    /\ \E n \in 1..MaxNews : Text(n) /\ Make(NewRouteChainID, n)
    /\ routes' = [id \in DOMAIN routes \cup {NewRouteChainID} |->
                     IF id = NewRouteChainID THEN Made ELSE routes[id]]
    /\ routesIdOrder' = Append(routesIdOrder, NewRouteChainID)
    /\ records' = [id \in DOMAIN records \cup {NewRouteChainID} |->
                      IF id = NewRouteChainID THEN news' ELSE records[id]]
    /\ UNCHANGED <<current_route_id, savedId, dialog, update, unsaved, torn>>

SelectRoute(id) ==
    /\ Menu /\ id \in DOMAIN routes /\ id # current_route_id
    /\ current_route_id' = id /\ savedId' = id /\ torn' = FALSE
    /\ UNCHANGED <<chain, routes, routesIdOrder, records, dialog, update, news, unsaved>>

(* updateRouteProfiles, in a thread: a copy of the map, and for those with *)
(* an address what is there now, that is not saved.                        *)
UpdateProfiles ==
    /\ Menu /\ update = {}
    /\ update' = {routes[id] : id \in DOMAIN routes}
    /\ UNCHANGED <<routing, savedRoutes, dialog, news, unsaved, torn>>

UpdateOne(o) ==
    /\ o \in update /\ update' = update \ {o}
    /\ \/ UNCHANGED <<chain, news, unsaved>>
       \/ /\ \E n \in 1..MaxNews : Text(n) /\ chain' = [chain EXCEPT ![o].rules = n]
          /\ unsaved' = unsaved \cup {o}
    /\ UNCHANGED <<routes, routesIdOrder, current_route_id, savedRoutes, dialog, torn>>

-----------------------------------------------------------------------------

(* After the first start.                                                  *)
RoutesInit ==
    /\ chain = <<[id |-> 0, rules |-> 0]>>
    /\ routes = [id \in {0} |-> 1] /\ routesIdOrder = <<0>> /\ current_route_id = 0
    /\ records = [id \in {0} |-> 0] /\ savedId = 0
    /\ dialog = Closed /\ update = {} /\ news = 0
    /\ unsaved = {} /\ torn = FALSE

Dialog ==
    \/ OpenDialog \/ CloseDialog \/ NewRoute \/ EditClosed \/ EditAccepted
    \/ \E i \in 1..MaxChains : Choose(i) \/ EditRoute(i) \/ DeleteRoute(i)
    \/ Accept \/ Accepted
Window == Download \/ (\E id \in DOMAIN routes : SelectRoute(id)) \/ UpdateProfiles
          \/ \E o \in Objects : UpdateOne(o)

RoutesNext == Dialog \/ Window \/ Restart
RoutesSpec == RoutesInit /\ [][RoutesNext]_routesVars

-----------------------------------------------------------------------------
(* Properties *)

DialogStates ==
    {Closed}
    \cup [at : {"open", "accept"}, list : Seq(Objects), currentRoute : Objects]
    \cup [at : {"edit"}, list : Seq(Objects), currentRoute : Objects,
          idx : Nat, copy : Objects]

(* Every variable keeps its type.                                          *)
RoutesTypeOK ==
    /\ chain \in Seq([id : Nat \cup {-1}, rules : 0..MaxNews])
    /\ \A id \in DOMAIN routes : id \in Nat /\ routes[id] \in Objects
    /\ routesIdOrder \in Seq(Nat) /\ current_route_id \in Nat /\ savedId \in Nat
    /\ \A id \in DOMAIN records : records[id] \in 0..MaxNews
    /\ dialog \in DialogStates
    /\ update \subseteq Objects /\ unsaved \subseteq Objects /\ torn \in BOOLEAN

(* Ids are never shared: NewRouteChainID takes the last of routesIdOrder + *)
(* 1, which is free only while UpdateRouteChains, that takes its order from*)
(* the dialog's list, leaves the ids in order; and an object is found under*)
(* the id it has.                                                          *)
IdsAgree ==
    /\ ToSet(routesIdOrder) = DOMAIN routes
    /\ \A i, k \in DOMAIN routesIdOrder : i < k => routesIdOrder[i] < routesIdOrder[k]
    /\ \A id \in DOMAIN routes : IdOf(routes[id]) = id

(* A profile can be started: the routing profile that is chosen is there,  *)
(* whatever was taken out, cloned or replaced in the dialog, unless the    *)
(* program ended before an accept had written the choice.                  *)
CurrentExists == current_route_id \in DOMAIN routes \/ torn

(* The next start finds the routing profiles that are there now, and their *)
(* rules unless an update has changed them since they were saved.          *)
RecordsAgree ==
    /\ DOMAIN records = DOMAIN routes
    /\ \A id \in DOMAIN routes :
          records[id] = RulesOf(routes[id]) \/ routes[id] \in unsaved

(* A list of profiles, each once, those with an id in the order of their   *)
(* ids and before those without.                                           *)
InIdOrder(list) ==
    /\ list # <<>>
    /\ \A i, k \in DOMAIN list : i < k =>
          /\ list[i] # list[k]
          /\ IdOf(list[k]) = -1 \/ IdOf(list[i]) \in 0..IdOf(list[k]) - 1

(* What an accept relies on: the dialog's list is in order; a copy is      *)
(* edited under the id of its original and is nobody else's.               *)
DialogInv ==
    /\ dialog.at # "closed" => InIdOrder(dialog.list)
    /\ dialog.at = "edit" =>
          /\ dialog.idx \in DOMAIN dialog.list
          /\ dialog.copy \notin ToSet(dialog.list)
          /\ IdOf(dialog.copy) = IdOf(dialog.list[dialog.idx])
          /\ \A id \in DOMAIN routes : routes[id] # dialog.copy

(* The profiles, their ids and their records agree, whatever the dialog,   *)
(* the menu and the update thread do, and after every start.               *)
RoutesInv == RoutesTypeOK /\ IdsAgree /\ RecordsAgree /\ DialogInv
=============================================================================
