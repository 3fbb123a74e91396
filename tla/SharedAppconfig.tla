-------------------------- MODULE SharedAppconfig --------------------------
(***************************************************************************)
(* libraries/shared_appconfig/shared_appconfig.c: one app config, shared   *)
(* by the modules of an application.  Each module registers a filter on a  *)
(* type of TLV entry and is called with the entries of that type, and, if  *)
(* it asks to, when there is none.                                         *)
(*                                                                         *)
(* A dispatch is a sequence of callbacks.  Every callback may use the      *)
(* library, which starts a dispatch inside the first: frames is the stack  *)
(* of the ones in progress, the innermost one last.                        *)
(***************************************************************************)
EXTENDS Integers, SequencesExt

CONSTANTS
    MaxFilter,      \* SHARED_APP_CONFIG_MAX_FILTER
    Filters,        \* the filters that the modules of the application register
    Type,           \* type of each filter
    CallAlways,     \* the filters with call_cb_always
    Configs,        \* app configs: tlv (the header is right), entry_number, entries (all that decode), bytes
    Usage,          \* ways of using the library, see below
    MaxDepth,       \* bound: dispatches in progress at the same time
    NULL

(* "set_in_callback": a callback sets or notifies an app config.           *)
(* "remove_in_callback": a callback removes a filter.                      *)
(* "remove_any": filters are removed in another order than the reverse of  *)
(* the one in which they were added.  "add_again": a filter is added while *)
(* it is registered, and takes another slot.                               *)
Usages == {"set_in_callback", "remove_in_callback", "remove_any", "add_again"}

ALL_TYPE == "SHARED_APP_CONFIG_ALL_TYPE_FILTER"
INCOMPATIBLE == "SHARED_APP_CONFIG_INCOMPATIBLE_FILTER"
Absent == "length 0"

ASSUME AppconfigAssumption ==
    /\ MaxFilter \in Nat \ {0} /\ MaxDepth \in Nat \ {0} /\ Usage \subseteq Usages
    /\ CallAlways \subseteq Filters /\ NULL \notin Filters /\ NULL \notin Configs
    /\ \A c \in Configs : c.tlv \in BOOLEAN /\ c.entry_number \in Nat

VARIABLES
    m_filter,       \* the filter in each slot, NULL when the slot is free
    stored,         \* the app config of the stack, NULL when none is set
    received,       \* the stack has yet to call new_app_config_cb
    frames,         \* dispatches: the callbacks still to call, and whether one is running
    concerns,       \* the app config each filter was last concerned by (ghost)
    view            \* what each filter was told since, the last value of each type (ghost)

vars == <<m_filter, stored, received, frames, concerns, view>>

Ids == 0 .. MaxFilter - 1
Registered == {m_filter[i] : i \in Ids} \ {NULL}
Used == {i \in Ids : m_filter[i] # NULL}
NothingTold == [t \in {} |-> Absent]

Init ==
    /\ m_filter = [i \in Ids |-> NULL]
    /\ stored = NULL /\ received = FALSE /\ frames = <<>>
    /\ concerns = [f \in Filters |-> NULL]
    /\ view = [f \in Filters |-> NothingTold]

-----------------------------------------------------------------------------
(* The calls of one dispatch.  filters is the working copy, in order.      *)

Matches(f, type) == Type[f] \in {type, ALL_TYPE}

dispatch_to_modules(filters, e) ==
    LET hit == SelectSeq(filters, LAMBDA f : f # NULL /\ Matches(f, e.type))
    IN [k \in 1 .. Len(hit) |-> [cb |-> hit[k], type |-> e.type, val |-> e.val]]

\* Mutant: the filters already called are not told apart.
inform_other_modules_called(filters, called) ==
    LET other == SelectSeq(filters, LAMBDA f : f \in CallAlways)
    IN [k \in 1 .. Len(other) |-> [cb |-> other[k], type |-> Type[other[k]], val |-> Absent]]

inform_other_modules(filters, called) ==
    LET other == SelectSeq(filters, LAMBDA f : f \in CallAlways \ called)
    IN [k \in 1 .. Len(other) |-> [cb |-> other[k], type |-> Type[other[k]], val |-> Absent]]

\* Of a TLV app config, the entries up to entry_number or the first that does not decode.
Items(c) ==
    IF c.tlv THEN SubSeq(c.entries, 1, IF c.entry_number < Len(c.entries) THEN c.entry_number ELSE Len(c.entries))
    ELSE <<[type |-> INCOMPATIBLE, val |-> c.bytes]>>

inform_filters(filters, c) ==
    LET calls == FlattenSeq([k \in 1 .. Len(Items(c)) |-> dispatch_to_modules(filters, Items(c)[k])])
    IN calls \o inform_other_modules(filters, {calls[k].cb : k \in DOMAIN calls})

Frame(calls) == [calls |-> calls, in |-> FALSE]

(* The copy has a filter in every used slot, the first nb_filter of its    *)
(* slots are used, and the slots in between that are free are what was     *)
(* left on the stack: a filter copied there earlier, or nothing.           *)
WorkingCopies ==
    LET nb_filter == Cardinality(Used)
    IN {[k \in 1 .. nb_filter |-> IF m_filter[k - 1] # NULL THEN m_filter[k - 1] ELSE left[k]] :
            left \in [{k \in 1 .. nb_filter : m_filter[k - 1] = NULL} -> Filters \cup {NULL}]}

new_app_config_cb(c) ==
    /\ \E copy \in WorkingCopies : frames' = Append(frames, Frame(inform_filters(copy, c)))
    /\ concerns' = [f \in Filters |-> IF f \in Registered THEN c ELSE concerns[f]]
    /\ view' = [f \in Filters |-> IF f \in Registered THEN NothingTold ELSE view[f]]

-----------------------------------------------------------------------------
(* The application's code runs outside of any dispatch, or in a callback.  *)
InApplication == frames = <<>>
InCallback == frames # <<>> /\ Last(frames).in /\ Len(frames) < MaxDepth

Shared_Appconfig_addFilter(f) ==
    /\ InApplication \/ InCallback
    /\ f \in Registered => "add_again" \in Usage
    /\ Used # Ids
    /\ LET id == CHOOSE i \in Ids \ Used : \A j \in Ids \ Used : i <= j
       IN m_filter' = [m_filter EXCEPT ![id] = f]
    /\ concerns' = [concerns EXCEPT ![f] = stored]
    /\ view' = [view EXCEPT ![f] = NothingTold]
    /\ frames' = IF stored = NULL THEN frames
                 ELSE Append(frames, Frame(inform_filters(<<f>>, stored)))
    /\ UNCHANGED <<stored, received>>

Shared_Appconfig_removeFilter(id) ==
    /\ InApplication \/ (InCallback /\ "remove_in_callback" \in Usage)
    /\ m_filter[id] # NULL
    /\ "remove_any" \in Usage \/ \A i \in Used : i <= id
    /\ m_filter' = [m_filter EXCEPT ![id] = NULL]
    /\ UNCHANGED <<stored, received, frames, concerns, view>>

Sets == InApplication \/ (InCallback /\ "set_in_callback" \in Usage)

(* Accepted by the stack; a refusal, INVALID_ROLE or INVALID_PARAM, is     *)
(* returned before anything changes.                                       *)
Shared_Appconfig_setAppConfig(c) ==
    /\ Sets
    /\ stored' = c
    /\ new_app_config_cb(c)
    /\ UNCHANGED <<m_filter, received>>

Shared_Appconfig_notifyAppConfig(c) ==
    /\ Sets
    /\ new_app_config_cb(c)
    /\ UNCHANGED <<m_filter, stored, received>>

(* The stack (external) stores an app config as it receives it, and calls  *)
(* the library when the application is not running.                        *)
StackReceives(c) ==
    /\ c # stored
    /\ stored' = c /\ received' = TRUE
    /\ UNCHANGED <<m_filter, frames, concerns, view>>

StackNotifies ==
    /\ received /\ InApplication
    /\ received' = FALSE
    /\ new_app_config_cb(stored)
    /\ UNCHANGED <<m_filter, stored>>

\* The next callback of the innermost dispatch.
Callback ==
    /\ frames # <<>> /\ Last(frames).calls # <<>>
    /\ LET call == Head(Last(frames).calls)
       IN view' = [view EXCEPT ![call.cb] = (call.type :> call.val) @@ @]
    /\ frames' = [frames EXCEPT ![Len(frames)] = [calls |-> Tail(@.calls), in |-> TRUE]]
    /\ UNCHANGED <<m_filter, stored, received, concerns>>

DispatchEnds ==
    /\ frames # <<>> /\ Last(frames).calls = <<>>
    /\ frames' = Front(frames)
    /\ UNCHANGED <<m_filter, stored, received, concerns, view>>

Next ==
    \/ \E f \in Filters : Shared_Appconfig_addFilter(f)
    \/ \E id \in Ids : Shared_Appconfig_removeFilter(id)
    \/ \E c \in Configs : \/ Shared_Appconfig_setAppConfig(c)
                          \/ Shared_Appconfig_notifyAppConfig(c)
                          \/ StackReceives(c)
    \/ StackNotifies \/ Callback \/ DispatchEnds

Spec == Init /\ [][Next]_vars

-----------------------------------------------------------------------------
(* What the header promises, stated without the dispatch: a filter is told *)
(* the last entry of each type it asks for, among the ones announced, the  *)
(* whole content if the format is another, and the absence if it asks to.  *)
Announced(c) == {k \in DOMAIN c.entries : k <= c.entry_number}
Told(f, c) ==
    LET asked == {k \in Announced(c) : Matches(f, c.entries[k].type)}
        types == {c.entries[k].type : k \in asked}
    IN CASE c.tlv /\ asked # {} ->
              [t \in types |-> c.entries[CHOOSE k \in asked : /\ c.entries[k].type = t
                                                              /\ \A j \in asked : c.entries[j].type = t => j <= k].val]
         [] ~c.tlv /\ Matches(f, INCOMPATIBLE) -> INCOMPATIBLE :> c.bytes
         [] OTHER -> IF f \in CallAlways THEN Type[f] :> Absent ELSE NothingTold

(* Once no dispatch is in progress, every registered filter has been told  *)
(* exactly what the app config it was last concerned by holds for it: no   *)
(* filter was left out, none was told an older content after a newer one   *)
(* or the absence of an entry that is there.                               *)
InformedOfCurrent ==
    InApplication /\ ~received => \A f \in Registered :
        view[f] = IF concerns[f] = NULL THEN NothingTold ELSE Told(f, concerns[f])
=============================================================================
