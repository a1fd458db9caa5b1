------------------------------ MODULE Plugins ------------------------------
(***************************************************************************)
(* The plugin host of a service (crates/rskynet-plugin/src/lib.rs): how    *)
(* the enabled plugins are resolved into an initialisation order, mounted, *)
(* initialised one after the other across awaits, and how the service's    *)
(* messages then reach commands and event subscribers.                     *)
(*                                                                         *)
(* Plugins are the numbers 1..PlCount.  A configuration is                 *)
(*   order  the names listed in `plugins`, in that order,                  *)
(*   deps   what each descriptor declares as its dependencies,             *)
(*   kit    what the plugins are made of: which are registered, the        *)
(*          commands they declare, the capability type each provides and   *)
(*          the event types each subscribes to.                            *)
(***************************************************************************)
EXTENDS Naturals, FiniteSets, Sequences, SequencesExt, Relation

CONSTANTS PlCount,      \* number of plugins
          PlCallers,    \* callers of PluginHost::init
          PlMenus       \* what is tried together: orders, deps, kits and the
                        \* bounds: calls of init, messages and events

VARIABLES plConf,       \* the configuration (never changes)
          plCall,       \* plCall[i]: the init call of caller i
          plRuntime,    \* PluginHost.runtime: the call that installed it, or "none"
          plBox,        \* the service's mailbox: numbers of messages, in order
          plMsg         \* the messages sent so far and what became of them

plVars == <<plConf, plCall, plRuntime, plBox, plMsg>>

PlNames == 1..PlCount
PlEnabled == Range(plConf.order)

\* What PluginRegistry::get finds for a name.
PlDeps(c, p) == SetToSortSeq(c.deps[p], <)

-----------------------------------------------------------------------------
(* Resolving                                                               *)

\* visit_plugin: depth first, a name is pushed once its dependencies are.
RECURSIVE PlVisitAll(_, _, _)
PlVisitAll(c, names, s) ==
  LET Visit(p) ==
        CASE s.err \/ p \in s.done -> s
          [] p \in s.visiting      -> [s EXCEPT !.err = TRUE]
          [] OTHER ->
               LET t == PlVisitAll(c, PlDeps(c, p), [s EXCEPT !.visiting = @ \cup {p}])
               IN  IF t.err THEN t
                   ELSE [t EXCEPT !.done = @ \cup {p}, !.ordered = Append(@, p)]
  IN  IF names = <<>> THEN s ELSE PlVisitAll(c, Tail(names), Visit(Head(names)))

PlDisjoint(c, field) ==
  \A p, q \in Range(c.order) : p # q => c.kit[field][p] \cap c.kit[field][q] = {}

\* PluginHost::resolve: the plugins in initialisation order, or an error.
PlResolve(c) ==
  LET fresh == [visiting |-> {}, done |-> {}, ordered |-> <<>>, err |-> FALSE]
      error(why) == [err |-> why, ordered |-> <<>>]
  IN  CASE Cardinality(Range(c.order)) # Len(c.order) -> error("listed twice")
        [] ~(Range(c.order) \subseteq c.kit.known)    -> error("not registered")
        [] \E p \in Range(c.order) : ~(c.deps[p] \subseteq Range(c.order))
                                                      -> error("dependency not enabled")
        [] ~PlDisjoint(c, "commands")                 -> error("command declared twice")
        [] OTHER -> LET v == PlVisitAll(c, c.order, fresh)
                    IN  IF v.err THEN error("cycle")
                                 ELSE [err |-> "none", ordered |-> v.ordered]

\* The mount phase: provide and subscribe fail on what is already there.
PlMounts(c) == PlDisjoint(c, "provides") /\ c.kit.subscribesOnce

-----------------------------------------------------------------------------
(* init                                                                    *)

\* An init call; lent is the last capability require gave out in it.
PlIdle == [pc |-> "idle", left |-> <<>>, ready |-> {}, lent |-> {}]

PlInit == /\ \E menu \in PlMenus :
               plConf \in [order : menu.orders, deps : menu.deps, kit : menu.kits,
                          calls : {menu.calls}, msgs : {menu.msgs}]
          /\ plCall = [i \in PlCallers |-> PlIdle]
          /\ plRuntime = "none"
          /\ plBox = <<>>
          /\ plMsg = <<>>

\* init up to its first await: the check for an installed runtime, the
\* resolution and the mounts.  Nothing enabled: the runtime is installed at once.
PlBegin(i) ==
  /\ plCall[i].pc = "idle"
  /\ Cardinality({j \in PlCallers : plCall[j].pc # "idle"}) < plConf.calls
  /\ \E r \in {PlResolve(plConf)} :
       \/ /\ plRuntime # "none" \/ r.err # "none" \/ ~PlMounts(plConf)
          /\ plCall' = [plCall EXCEPT ![i].pc = "failed"]
          /\ UNCHANGED plRuntime
       \/ /\ plRuntime = "none" /\ r.err = "none" /\ PlMounts(plConf)
          /\ IF r.ordered = <<>>
             THEN /\ plCall' = [plCall EXCEPT ![i].pc = "installed"]
                  /\ plRuntime' = i
             ELSE /\ plCall' = [plCall EXCEPT ![i].pc = "running", ![i].left = r.ordered]
                  /\ UNCHANGED plRuntime
  /\ UNCHANGED <<plConf, plBox, plMsg>>

\* Mutant: require without its check of the declared dependencies.
PlAllowedAny(p, q) == q \in PlEnabled

\* Capabilities are lent to their provider and to the plugins that declare it.
PlAllowed(p, q) == p = q \/ q \in plConf.deps[p]

\* PluginCtx::require called by the plugin whose init is running.
PlRequire(i) ==
  /\ plCall[i].pc = "running"
  /\ \E q \in PlEnabled :
       /\ plConf.kit.provides[q] # {}
       /\ PlAllowed(Head(plCall[i].left), q)
       /\ plCall' = [plCall EXCEPT ![i].lent = {<<Head(plCall[i].left), q>>}]
  /\ UNCHANGED <<plConf, plRuntime, plBox, plMsg>>

\* One plugin's init returns Ok; behind the last one the debug messages are
\* registered, which may fail, and the runtime is installed.
PlStepped(i) ==
  /\ plCall[i].pc = "running"
  /\ IF Len(plCall[i].left) > 1
     THEN /\ plCall' = [plCall EXCEPT ![i].left = Tail(@),
                                      ![i].ready = @ \cup {Head(plCall[i].left)}]
          /\ UNCHANGED plRuntime
     ELSE \/ /\ plCall' = [plCall EXCEPT ![i] = [@ EXCEPT !.pc = "installed", !.left = <<>>,
                                             !.ready = @ \cup {Head(plCall[i].left)}]]
             /\ plRuntime' = i
          \/ /\ plCall' = [plCall EXCEPT ![i].pc = "failed", ![i].left = <<>>]
             /\ UNCHANGED plRuntime
  /\ UNCHANGED <<plConf, plBox, plMsg>>

\* One plugin's init returns Err: init returns it and installs nothing.
PlBroke(i) ==
  /\ plCall[i].pc = "running"
  /\ plCall' = [plCall EXCEPT ![i].pc = "failed", ![i].left = <<>>]
  /\ UNCHANGED <<plConf, plRuntime, plBox, plMsg>>

-----------------------------------------------------------------------------
(* Messages                                                                *)

PlNew(kind) == [kind |-> kind, state |-> "queued", answers |-> 0, heard |-> {}]

PlSend(kind) ==
  /\ Len(plMsg) < plConf.msgs
  /\ plMsg' = Append(plMsg, PlNew(kind))
  /\ plBox' = Append(plBox, Len(plMsg) + 1)
  /\ UNCHANGED <<plConf, plCall, plRuntime>>

\* Another service sends a command (known or not) or something else.
PlPost == \E kind \in {"command", "unknown", "foreign"} : PlSend(kind)

\* PluginCtx::emit by a plugin in its init or in a command: the event goes
\* through the service's own mailbox.
PlEmit == /\ \/ \E i \in PlCallers : plCall[i].pc = "running"
             \/ \E m \in DOMAIN plMsg : plMsg[m].state = "handling"
          /\ PlSend("event")

\* ctx.reply_error, unless the message is an event and asks for no answer.
PlRefused(m) == [m EXCEPT !.state = "done",
                          !.answers = IF m.kind = "event" THEN 0 ELSE @ + 1]

PlSubscribers == {p \in PlEnabled : plConf.kit.subscribes[p]}

PlHasCommand == \E p \in PlEnabled : plConf.kit.commands[p] # {}

\* Mutant: dispatch logs an unknown command and forgets the caller.
PlDispatchedMute(m) ==
  CASE plRuntime = "none" -> PlRefused(m)
    [] m.kind = "event"   -> [m EXCEPT !.state = "done", !.heard = PlSubscribers]
    [] m.kind = "command" /\ PlHasCommand -> [m EXCEPT !.state = "handling"]
    [] OTHER              -> [m EXCEPT !.state = "done"]

\* PluginHost::dispatch and dispatch_event up to the await of the plugin.
PlDispatched(m) ==
  CASE plRuntime = "none" -> PlRefused(m)
    [] m.kind = "event"   -> [m EXCEPT !.state = "done", !.heard = PlSubscribers]
    [] m.kind = "command" /\ PlHasCommand -> [m EXCEPT !.state = "handling"]
    [] OTHER              -> PlRefused(m)

PlDispatch ==
  /\ plBox # <<>>
  /\ plMsg' = [plMsg EXCEPT ![Head(plBox)] = PlDispatched(@)]
  /\ plBox' = Tail(plBox)
  /\ UNCHANGED <<plConf, plCall, plRuntime>>

\* ServicePlugin::handle returns: Ok after it answered itself, or Err, and the
\* host answers with an error.  Either way the caller has one answer.
PlHandled(m) ==
  /\ plMsg[m].state = "handling"
  /\ plMsg' = [plMsg EXCEPT ![m].state = "done", ![m].answers = @ + 1]
  /\ UNCHANGED <<plConf, plCall, plRuntime, plBox>>

PlNext == \/ \E i \in PlCallers : PlBegin(i) \/ PlRequire(i) \/ PlStepped(i) \/ PlBroke(i)
          \/ PlPost \/ PlEmit \/ PlDispatch
          \/ \E m \in DOMAIN plMsg : PlHandled(m)

PlSpec == PlInit /\ [][PlNext]_plVars

-----------------------------------------------------------------------------
(* Properties                                                              *)

\* The dependency relation of a configuration, closed under transitivity.
PlReaches(c) ==
  TransitiveClosure([e \in PlNames \X PlNames |-> e[2] \in c.deps[e[1]]], PlNames)

\* Reference for resolve: a configuration is refused exactly when a name is
\* listed twice, unknown, misses a dependency, shares a command, or depends on
\* itself; otherwise every enabled plugin is there once, behind all it needs.
\* (The configuration never changes: looking at it before the first step is enough.)
PlResolveCorrect ==
  LET c == plConf
      r == PlResolve(c)
      enabled == Range(c.order)
      sound == /\ IsInjective(c.order)
               /\ enabled \subseteq c.kit.known
               /\ \A p \in enabled : c.deps[p] \subseteq enabled
               /\ PlDisjoint(c, "commands")
               /\ \A p \in enabled : ~PlReaches(c)[p, p]
  IN  plMsg = <<>> /\ (\A i \in PlCallers : plCall[i] = PlIdle) =>
      /\ (r.err = "none") = sound
      /\ sound => /\ IsInjective(r.ordered) /\ Range(r.ordered) = enabled
                  /\ \A j, k \in DOMAIN r.ordered :
                       PlReaches(c)[r.ordered[j], r.ordered[k]] => k < j

\* A capability a plugin obtains while it initialises comes from itself or
\* from a plugin whose own init has already returned Ok in the same call.
PlLentReady ==
  \A i \in PlCallers : \A l \in plCall[i].lent :
    l[2] = l[1] \/ l[2] \in plCall[i].ready

\* A runtime is installed only by a call in which every enabled plugin's init
\* returned Ok; a failed call leaves the host as it was.
PlWhole == plRuntime # "none" => /\ plCall[plRuntime].pc = "installed"
                                 /\ plCall[plRuntime].ready = PlEnabled

\* Every command and foreign message that left the mailbox has exactly one
\* answer once no plugin works on it, and an event reaches every subscriber or,
\* on a host that is not initialised, none.
PlAnswered ==
  \A m \in DOMAIN plMsg :
    /\ plMsg[m].answers = IF plMsg[m].state = "done" /\ plMsg[m].kind # "event" THEN 1 ELSE 0
    /\ plMsg[m].heard \in {{}, PlSubscribers}

\* Plugins start in dependency order and every request of the host is answered:
\* PluginHost::init, resolve, visit_plugin, require and dispatch.
PlHost == PlResolveCorrect /\ PlLentReady /\ PlWhole /\ PlAnswered
=============================================================================
