-------------------------------- MODULE Log --------------------------------
(***************************************************************************)
(* Log: the level up to which each channel is logged.                      *)
(*                                                                         *)
(* main() sets the global level and those of two channels, commands set    *)
(* others.  A key of the map is a view of the name it was set by: main's   *)
(* are literals, a command's is freed when the command returns.  To        *)
(* compare a name with a freed one may or may not find them equal.         *)
(* Nothing protects the map, in which every thread looks up its channels.  *)
(* To use it while a command inserts is undefined, and can leave it in any *)
(* state: the module ends there, and promises nothing for what follows.    *)
(***************************************************************************)
EXTENDS Naturals

CONSTANTS
  Channels,    \* the names
  Literals,    \* those that main() sets
  Settings,    \* the levels that commands give, as they are spelled
  MaxCommands  \* bound on the commands

ASSUME LiteralsAssumption == Literals \subseteq Channels /\ MaxCommands \in Nat

VARIABLES
  global_loglevel,
  map_,        \* the entries [key, freed, level]
  inserting,   \* the entry a command is inserting, if any
  undefined,   \* the map was used while an entry was being inserted
  \* History variables, read by no action:
  told,        \* per channel, the level it was last set to, or "never"
  commands     \* counted for the bound

logVars == <<global_loglevel, map_, inserting, undefined, told, commands>>

Levels == {"fatal", "error", "warning", "info", "debug", "trace"}

(* Anything else is taken for info.                                        *)
LevelFromString(s) == IF s \in Levels THEN s ELSE "info"

LogInit ==
  /\ global_loglevel = "debug"
  /\ map_ = [key : Literals, freed : {FALSE}, level : {"info"}]
  /\ inserting = {} /\ undefined = FALSE
  /\ told = [c \in Channels |-> IF c \in Literals THEN "info" ELSE "never"]
  /\ commands = 0

Named(channel) == {e \in map_ : e.key = channel}

Found(channel) == \E e \in Named(channel) : ~e.freed

(* The levels isSuppressed may go by.                                      *)
Effective(channel) ==
  {e.level : e \in Named(channel)} \cup (IF Found(channel) THEN {} ELSE {global_loglevel})

LogCommand ==
  /\ ~undefined /\ inserting = {}
  /\ commands < MaxCommands /\ commands' = commands + 1

SetGlobalLoggingLevel(s) ==
  /\ LogCommand
  /\ global_loglevel' = LevelFromString(s)
  /\ UNCHANGED <<map_, inserting, undefined, told>>

(* Fault: a level that is set once stays.                                  *)
SetChannelLoggingLevelOnce(channel, s) ==
  /\ LogCommand
  /\ inserting' = IF Found(channel) THEN {}
                  ELSE {[key |-> channel, freed |-> TRUE, level |-> LevelFromString(s)]}
  /\ told' = [told EXCEPT ![channel] = LevelFromString(s)]
  /\ UNCHANGED <<global_loglevel, map_, undefined>>

SetChannelLoggingLevel(channel, s) ==
  LET level == LevelFromString(s) IN
  /\ LogCommand
  /\ \/ \E e \in Named(channel) :
          map_' = (map_ \ {e}) \cup {[e EXCEPT !.level = level]} /\ UNCHANGED inserting
     \/ /\ ~Found(channel)
        /\ inserting' = {[key |-> channel, freed |-> TRUE, level |-> level]}
        /\ UNCHANGED map_
  /\ told' = [told EXCEPT ![channel] = level]
  /\ UNCHANGED <<global_loglevel, undefined>>

Inserted ==
  /\ ~undefined /\ inserting # {}
  /\ map_' = map_ \cup inserting /\ inserting' = {}
  /\ UNCHANGED <<global_loglevel, undefined, told, commands>>

(* Any thread logs, or looks up the channel another command sets.          *)
LogLine ==
  /\ ~undefined
  /\ undefined' = (inserting # {})
  /\ UNCHANGED <<global_loglevel, map_, inserting, told, commands>>

LogNext ==
  \/ \E s \in Settings :
       SetGlobalLoggingLevel(s) \/ \E c \in Channels : SetChannelLoggingLevel(c, s)
  \/ Inserted \/ LogLine

-----------------------------------------------------------------------------
(* Properties                                                              *)

(* As long as nobody has used the map during an insertion: whatever freed  *)
(* keys other commands leave in it, the channels that main() has set keep  *)
(* to their last level, and a channel that was never set keeps to the      *)
(* global one.  The map is only at risk when a channel unknown to main()   *)
(* is set.                                                                 *)
ChannelsObey ==
  /\ ~undefined => \A c \in Channels :
       /\ c \in Literals => Effective(c) = {told[c]}
       /\ told[c] = "never" => Effective(c) = {global_loglevel}
  /\ undefined => \E c \in Channels \ Literals : told[c] # "never"

=============================================================================
