------------------------------ MODULE Scripts -------------------------------
(***************************************************************************)
(* The script languages over the life of the bot: the Tcl interpreter,     *)
(* JavaScript context and Python object of each network, the triggers the  *)
(* scripts bind when they are loaded, and which network a script's command *)
(* reaches (ScriptCalls says how), across rehashes.                        *)
(*                                                                         *)
(* Sources: tcl_embed.c, js_embed.c, php_embed.c, python_embed.c,          *)
(* config_engine_init, egg_rehash.  All four languages are built.  Every   *)
(* script binds one trigger on its network when it is loaded, a PHP script *)
(* one on every network; what a command does beyond that is in the modules *)
(* of the component it belongs to.                                         *)
(***************************************************************************)
EXTENDS ScriptCalls, Sequences, FiniteSetsExt, Functions

CONSTANTS Label,     \* the networks' labels, of which no two differ in case only
          Conf,      \* what may be in trollbot.conf (Confs)
          None,      \* no context, no object, no call
          MaxRehash, \* bound: the number of rehashes
          MaxSess,   \* bound: the partyline sessions
          MaxArgs    \* bound: the arguments a script gives

Lang == {"tcl", "js", "php", "py"}

\* The networks in the order of the file, the labels of those with tclscript,
\* jsscript and pyscript lines, and whether there are phpscript lines.
Confs == [nets : Seq(Label), tcl : SUBSET Label, js : SUBSET Label, py : SUBSET Label,
          php : BOOLEAN]

Record == Label \X (0..MaxRehash)

ASSUME ScriptsAssumption ==
    /\ Conf \subseteq Confs
    /\ \A c \in Conf : c.nets # << >> /\ c.tcl \cup c.js \cup c.py \subseteq Range(c.nets)
    /\ MaxRehash \in Nat /\ MaxSess \in Nat /\ MaxArgs \in Nat
    /\ {None, Junk} \cap Record = {} /\ None \notin [rec : Record, loaded : BOOLEAN]

VARIABLES process,   \* "down", "up", "ended" (die), or "gone" when undefined behaviour has been met
          conf, \* the configuration in use
          gen,  \* number of rehashes: the network records in use are <<label, gen>>
          acts, \* the record that the Tcl commands of a network act on
          ctx,  \* the record of a network's JavaScript context, its private data, or None
          obj,  \* the record of net->py_netobj, or Junk
          py,   \* NETWORKS: the record of its only key, and whether it has the script; or None
          trigs, \* the languages whose scripts have triggers on a network (again and again, after
                 \* rehashes: a load does not look for what it has bound before)
          wired, \* the network records that have a tsocket
          sess, \* the network records that partyline sessions have
          told  \* history: the call that has just been answered, or None

botVars == <<process, conf, gen, acts, ctx, obj, py, trigs, wired, sess, told>>
-----------------------------------------------------------------------------
Nets == Range(conf.nets)
Rec(l) == <<l, gen>>

ScriptsOK ==
    /\ process \in {"down", "up", "ended", "gone"}
    /\ conf \in Conf
    /\ gen \in 0..MaxRehash
    /\ acts \in [Nets -> Record]
    /\ ctx \in [Nets -> Record \cup {None}]
    /\ obj \in [Nets -> Record \cup {Junk}]
    /\ py = None \/ py \in [rec : Record, loaded : BOOLEAN]
    /\ trigs \in [Nets -> SUBSET Lang]
    /\ wired \subseteq Record /\ sess \subseteq Record

\* Before config_engine_init: conf is what the file says.
Unstarted ==
    /\ process = "down"
    /\ conf \in Conf
    /\ gen = 0
    /\ acts = [l \in Nets |-> Rec(l)]
    /\ ctx = [l \in Nets |-> None]
    /\ obj = [l \in Nets |-> Junk]
    /\ py = None
    /\ trigs = [l \in Nets |-> {}]
    /\ wired = {}
    /\ sess = {}
    /\ told = None

-----------------------------------------------------------------------------
\* cfg_init_python, for each pyscript line: cfg->py_main is never assigned, so the core
\* module runs again, with NETWORKS = {}.  The network that is registered last remains.
LastPy(c) == c.nets[Max({i \in DOMAIN c.nets : c.nets[i] \in c.py})]

\* net_init_python
PyObject(c, g) == [l \in Range(c.nets) |-> IF l \in c.py THEN <<l, g>> ELSE Junk]
Registered(c, g, loaded) ==
    IF c.py = {} THEN py ELSE [rec |-> <<LastPy(c), g>>, loaded |-> loaded]

\* tcl_load_scripts_from_config: the networks its scripts bind a trigger on.
TclLoads(c) == c.tcl

\* js_load_scripts_from_config; CtxAfter and Start make the context that is missing.
JsLoads(c) == c.js

\* php_load_scripts_from_config: a script is not one network's, and binds on each.
PhpLoads(c) == IF c.php THEN Range(c.nets) ELSE {}

\* python_load_scripts_from_config: the core module loads a script only for the network
\* that is registered.
PyLoads(c) == {l \in c.py : l = LastPy(c)}

\* config_engine_init: PHP, Python, JavaScript and Tcl scripts are loaded, in that
\* order; a Python script only on the network that is registered.  irc_loop then gives
\* every network its tsocket.
Start ==
    /\ process = "down"
    /\ process' = "up"
    /\ ctx' = [l \in Nets |-> IF l \in conf.js THEN Rec(l) ELSE None]
    /\ obj' = PyObject(conf, gen)
    /\ py' = Registered(conf, gen, TRUE)
    /\ trigs' = [l \in Nets |->
                   {g \in Lang : \/ g = "tcl" /\ l \in TclLoads(conf)
                                 \/ g = "js" /\ l \in JsLoads(conf)
                                 \/ g = "php" /\ l \in PhpLoads(conf)
                                 \/ g = "py" /\ l \in PyLoads(conf)}]
    /\ wired' = {Rec(l) : l \in Nets}
    /\ UNCHANGED <<conf, gen, acts, sess, told>>

-----------------------------------------------------------------------------
\* Someone logs in on the partyline; someone leaves it.
Open(l) ==
    /\ process = "up" /\ told = None
    /\ l \in Nets
    /\ Cardinality(sess) < MaxSess
    /\ sess' = sess \cup {Rec(l)}
    /\ UNCHANGED <<process, conf, gen, acts, ctx, obj, py, trigs, wired, told>>

Close(s) ==
    /\ process = "up" /\ told = None
    /\ s \in sess
    /\ sess' = sess \ {s}
    /\ UNCHANGED <<process, conf, gen, acts, ctx, obj, py, trigs, wired, told>>

\* dcc_javascript creates the context that is missing.  (dcc_tcl changes nothing.)
PartylineJs(s) ==
    /\ process = "up" /\ told = None
    /\ s \in sess /\ s[2] = gen
    /\ ctx' = [ctx EXCEPT ![s[1]] = IF @ = None THEN s ELSE @]
    /\ UNCHANGED <<process, conf, gen, acts, obj, py, trigs, wired, sess, told>>

\* dcc_javascript_load does not: it loads a script, or dereferences NULL.
PartylineLoad(s) ==
    /\ process = "up" /\ told = None
    /\ s \in sess /\ s[2] = gen
    /\ \/ /\ ctx[s[1]] # None
          /\ trigs' = [trigs EXCEPT ![s[1]] = @ \cup {"js"}]
          /\ process' = process
       \/ /\ ctx[s[1]] = None
          /\ process' = "gone"
          /\ trigs' = trigs
    /\ UNCHANGED <<conf, gen, acts, ctx, obj, py, wired, sess, told>>

\* A rehash has taken the users, the context and the interpreter from the record of the
\* session: the owner's flag is looked for in no list, or the context is NULL.
PartylineStale(s) ==
    /\ process = "up" /\ told = None
    /\ s \in sess /\ s[2] # gen
    /\ process' = "gone"
    /\ UNCHANGED <<conf, gen, acts, ctx, obj, py, trigs, wired, sess, told>>

-----------------------------------------------------------------------------
\* The records of c, the next configuration, that get what an old record in kept had.
Both(c, kept) == Range(c.nets) \cap kept

\* net_init_tcl gives the new record an interpreter, which a match replaces by the old
\* one; tcl_load_scripts_from_config defines its commands again if it has scripts.
ActsAfter(c, kept) ==
    [l \in Range(c.nets) |-> IF l \in Both(c, kept) \ c.tcl THEN acts[l] ELSE <<l, gen + 1>>]

\* Mutant of CtxAfter: the private data is not set.
CtxAfterOld(c, kept) ==
    [l \in Range(c.nets) |->
       IF l \in Both(c, kept) THEN ctx[l] ELSE IF l \in c.js THEN <<l, gen + 1>> ELSE None]

\* JS_SetContextPrivate, or a new context.
CtxAfter(c, kept) ==
    [l \in Range(c.nets) |-> IF l \in Both(c, kept) \cup c.js THEN <<l, gen + 1>> ELSE None]

\* Tcl and JavaScript scripts are loaded by a rehash too.
Reloaded(l, c) == {g \in {"tcl", "js"} : l \in (IF g = "tcl" THEN TclLoads(c) ELSE JsLoads(c))}

\* Mutant of TrigsAfter: the triggers are left behind, and only new networks are loaded.
TrigsLeft(c, kept) == [l \in Range(c.nets) |-> IF l \in kept THEN {} ELSE Reloaded(l, c)]

\* The triggers are carried over; Tcl and JavaScript scripts are loaded (and bind) again,
\* PHP and Python scripts are not.
TrigsAfter(c, kept) ==
    [l \in Range(c.nets) |-> (IF l \in Both(c, kept) THEN trigs[l] ELSE {}) \cup Reloaded(l, c)]

\* egg_rehash.  As in Connections, the walk over the old records frees each but the first
\* before it looks at it: the first is matched, a later one if its memory still holds the
\* label, or the walk goes astray.  A network that had no context is one, too.  No record
\* gets a tsocket of an old one: irc_loop connects those that are new and keep trying.
Rehash(kept, c) ==
    /\ process = "up" /\ told = None
    /\ gen < MaxRehash
    /\ Head(conf.nets) \in kept
    /\ \A l \in Both(c, kept) : ctx[l] # None
    /\ conf' = c
    /\ gen' = gen + 1
    /\ acts' = ActsAfter(c, kept)
    /\ ctx' = CtxAfter(c, kept)
    /\ obj' = PyObject(c, gen + 1)
    /\ py' = Registered(c, gen + 1, FALSE)
    /\ trigs' = TrigsAfter(c, kept)
    /\ \E new \in SUBSET (Range(c.nets) \ kept) : wired' = wired \cup {<<l, gen + 1>> : l \in new}
    /\ sess' = {s \in sess : s[1] \in Both(c, kept)}
    /\ UNCHANGED <<process, told>>

\* JS_SetContextPrivate is given NULL, or freed memory is read.
RehashAstray(kept, c) ==
    /\ process = "up" /\ told = None
    /\ gen < MaxRehash
    /\ Head(conf.nets) \in kept
    /\ Cardinality(Nets) > 1 \/ \E l \in Both(c, kept) : ctx[l] = None
    /\ process' = "gone"
    /\ UNCHANGED <<conf, gen, acts, ctx, obj, py, trigs, wired, sess, told>>

-----------------------------------------------------------------------------
\* tcl_handler and php_handler have what they need; js_handler returns when there is no
\* context; py_handler's call looks for the network in NETWORKS, then for the script.
Hears(l, g) ==
    /\ g \in trigs[l]
    /\ g = "js" => ctx[l] # None
    /\ g = "py" => py # None /\ py.rec = obj[l] /\ py.loaded

\* A trigger of a Python script fires, where net->py_netobj has not been assigned.
PyEventAstray(l) ==
    /\ process = "up" /\ told = None
    /\ l \in Nets /\ "py" \in trigs[l] /\ obj[l] = Junk
    /\ process' = "gone"
    /\ UNCHANGED <<conf, gen, acts, ctx, obj, py, trigs, wired, sess, told>>

\* tsocket_printf: the line is sent, or the tsocket it is to be sent to is NULL.
Sent(on) == on \in wired

\* egg_die sends QUIT to every network, closes its tsocket, and ends the bot.
Quits == \A l \in Nets : Sent(Rec(l))

\* What functions of egg_lib.c rely on, and which do: that every channel's record has its
\* name, that there are channels, a chanfile, a userfile and users, that users have flags, and
\* a hash with the type of it, that the bot's nick and host are known, that the limit is a
\* number other than 0, and that the mask is not one of the bot's own triggers.
Reliers ==
    [names     |-> {"isop", "isvoice", "onchan", "botisop", "isban", "ispermban", "isbansticky",
                    "chanbans", "getchanmode", "topic", "newchanban", "savechannels", "save"},
     channels  |-> {"channels", "savechannels", "save", "adduser"},
     chanfile  |-> {"savechannels", "save"},
     userfile  |-> {"save", "adduser"},
     users     |-> {"matchattr"},
     flags     |-> {"save", "adduser"},
     passwords |-> {"passwdok"},
     nick      |-> {"botisop", "isbotnick", "botnick"},
     host      |-> {"botname"},
     limit     |-> {"rand"},
     mask      |-> {"unbind"}]

ReliesOn(fn) == {x \in DOMAIN Reliers : fn \in Reliers[x]}

\* Whether a call gets as far as to what is missing depends on its arguments for these, and
\* for adduser, which looks whether the name is taken first.
Sometimes == {"names", "flags", "passwords", "nick", "mask"}

\* What becomes of the process when the command has done that, on a record that lacks what
\* is missing.  The record of a Tcl command may be one that a rehash has emptied or freed.
After(on, outcome, missing) ==
    CASE outcome.fn = "die" -> IF Quits THEN {"ended"} ELSE {"gone"}
      [] outcome.fn \in {"putserv", "privmsg"} /\ ~Sent(on) -> {"gone"}
      [] outcome.tells = "freed memory" -> {"gone"}
      [] outcome.fn # "adduser" /\ missing \ Sometimes # {} -> {"gone"}
      [] \/ missing # {} \/ Junk \in Range(outcome.args)
         \/ outcome.fn = "newchanban" /\ ~Sent(on)
         \/ outcome.fn # "none" /\ on \in Record /\ on[2] # gen -> {"gone", process}
      [] OTHER -> {process}

\* A script of network l in language g has called a command of the network (PHP: of the
\* network labelled m) and is told the outcome: on is the record that the call is about.
Told(g, cmd, n, m, same, on, outcome) ==
    \E missing \in SUBSET ReliesOn(outcome.fn) :
        /\ told' = [lang |-> g, cmd |-> cmd, n |-> n, label |-> m, same |-> same,
                    on |-> on, outcome |-> outcome, missing |-> missing]
        /\ process' \in After(on, outcome, missing)
        /\ UNCHANGED <<conf, gen, acts, ctx, obj, py, trigs, wired, sess>>

CallTcl(l, n) ==
    /\ process = "up" /\ told = None
    /\ l \in Nets /\ (Hears(l, "tcl") \/ Rec(l) \in sess)
    /\ LET commands == TclCommands(n)
       IN  \E cmd \in DOMAIN commands : Told("tcl", cmd, n, l, TRUE, acts[l], commands[cmd])

CallJs(l, n) ==
    /\ process = "up" /\ told = None
    /\ l \in Nets /\ ctx[l] # None
    /\ LET commands == JsCommands(n)
       IN  \E cmd \in DOMAIN commands : Told("js", cmd, n, l, TRUE, ctx[l], commands[cmd])

CallPhp(m, n, same) ==
    /\ process = "up" /\ told = None
    /\ \E l \in Nets : Hears(l, "php")
    /\ LET commands == PhpCommands(n)
       IN  \E cmd \in DOMAIN commands :
              Told("php", cmd, n, m, same, IF m \in Nets THEN Rec(m) ELSE None,
                   PhpOutcome(cmd, commands[cmd], m \in Nets, same))

CallPy(l, n) ==
    /\ process = "up" /\ told = None
    /\ l \in Nets /\ Hears(l, "py")
    /\ LET commands == PyCommands(n)
       IN  \E cmd \in DOMAIN commands : Told("py", cmd, n, l, TRUE, py.rec, commands[cmd])

\* The script goes on.
Return ==
    /\ process = "up" /\ told # None
    /\ told' = None
    /\ UNCHANGED <<process, conf, gen, acts, ctx, obj, py, trigs, wired, sess>>

-----------------------------------------------------------------------------
Partyline ==
    \/ \E l \in Nets : Open(l)
    \/ \E s \in sess : Close(s) \/ PartylineJs(s) \/ PartylineLoad(s) \/ PartylineStale(s)

Call ==
    \E l \in Label, n \in 0..MaxArgs :
        \/ CallTcl(l, n)
        \/ CallJs(l, n)
        \/ \E same \in BOOLEAN : CallPhp(l, n, same)
        \/ CallPy(l, n)

BotStep ==
    \/ Start
    \/ Partyline
    \/ \E kept \in SUBSET Nets, c \in Conf : Rehash(kept, c) \/ RehashAstray(kept, c)
    \/ \E l \in Nets : PyEventAstray(l)
    \/ Call
    \/ Return

BotLife == Unstarted /\ [][BotStep]_botVars
-----------------------------------------------------------------------------
\* How many arguments a command takes, in every language that has it
\* (doc_dist/tcl-commands.doc and the usage messages of the functions).
Usage == [isop |-> 1..2, isvoice |-> 1..2, onchan |-> 1..2, isban |-> 1..2,
          ispermban |-> 1..2, isbansticky |-> 1..2, botisop |-> 0..1, isbotnick |-> {1},
          validuser |-> {1}, finduser |-> {1}, passwdok |-> {2}, matchattr |-> 2..3,
          countusers |-> {0}, getchanmode |-> {1}, topic |-> {1}, channels |-> {0},
          chanbans |-> {1}, botname |-> {0}, version |-> {0}, botnick |-> {0},
          matchwild |-> {2}, rand |-> {1}, encpass |-> {1}, newchanban |-> 4..6,
          adduser |-> 1..2, chhandle |-> {2}, bind |-> 3..4, unbind |-> {4},
          utimer |-> {2}, putserv |-> {1}, puthelp |-> {1}, privmsg |-> {2},
          putdcc |-> {2}, dccbroadcast |-> {1}, putlog |-> {1}, log |-> {2},
          save |-> {0}, savechannels |-> {0}, die |-> 0..1, binds |-> 0..1]
         @@ "getting-users" :> {0}

\* The calls that do not do what they say, by language and number of arguments.
Unfaithful(g, cmd, n, same) ==
    \/ g = "tcl" /\ \/ cmd \in {"isop", "isvoice", "matchwild"} /\ n = 2
                    \/ cmd \in {"onchan", "putserv", "puthelp"} /\ n = 1
                    \/ cmd = "newchanban" /\ n \in 5..6
                    \/ cmd \in {"bind", "matchattr"} /\ n = 3
                    \/ cmd = "binds"
    \/ g = "js"  /\ \/ cmd \in {"putlog", "adduser", "botisop"}
                    \/ cmd = "bind" /\ n = 3
    \/ g = "php" /\ \/ cmd \in {"adduser", "finduser", "matchwild"}
                    \/ cmd \in {"ispermban", "isbansticky", "isban"} /\ n = 1
                    \/ cmd = "matchattr" /\ n = 2
                    \/ cmd = "bind" /\ n = 3
                    \/ cmd \in PhpExact /\ ~same
    \/ g = "py"  /\ cmd = "bind" /\ n = 3

\* A call as it is documented reaches the function it is named for, with the arguments in
\* their places and NULL for what is omitted, and tells what came of it: except for the
\* calls of the list, all of which go wrong; and until a rehash has left networks without a
\* tsocket, the bot survives each that is done as it says, but for die, and one that relies
\* on what the network has not.  (The wrapper functions of the four *_lib.c, tsocket_printf
\* and the functions of egg_lib.c, egg_die and egg_rehash.)
CallsDoWhatTheySay ==
    told # None /\ told.label \in Nets /\ told.cmd \in DOMAIN Usage /\ told.n \in Usage[told.cmd] =>
        LET o == told.outcome
            faithful == /\ o.fn = told.cmd
                        /\ o.args = Given(told.n, Max(Usage[told.cmd]), NULL)
                        /\ o.tells \in {"the answer", "done"}
        IN  /\ faithful <=> ~Unfaithful(told.lang, told.cmd, told.n, told.same)
            /\ faithful /\ gen = 0 /\ told.missing = {} =>
                  process = IF told.cmd = "die" THEN "ended" ELSE "up"

\* A command acts on the network record in use, not on one that a rehash has replaced,
\* except for the Tcl commands of a network that a rehash has left without Tcl scripts
\* (net_tcl_init_commands, JS_SetContextPrivate, the labels and objects of PHP and Python).
CallsReachTheirNetwork ==
    told # None =>
        \/ told.label \notin Nets
        \/ told.on = Rec(told.label)
        \/ told.lang = "tcl" /\ gen > 0 /\ told.label \notin conf.tcl

\* What the scripts of the configuration have bound is heard, whatever rehashes there have
\* been: Tcl and JavaScript on every network that has scripts.  PHP scripts are sure of it
\* before the first rehash, Python scripts are heard on the last network that has any, and
\* only until then (tcl_load_scripts_from_config, js_load_scripts_from_config,
\* cfg_init_python, egg_rehash).
EveryScriptIsHeard ==
    process # "down" => \A l \in Nets :
        /\ l \in conf.tcl => Hears(l, "tcl")
        /\ l \in conf.js  => Hears(l, "js")
        /\ conf.php /\ gen = 0 => Hears(l, "php")
        /\ l \in conf.py  => (Hears(l, "py") <=> gen = 0 /\ l = LastPy(conf))
=============================================================================
