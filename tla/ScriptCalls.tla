----------------------------- MODULE ScriptCalls -----------------------------
(***************************************************************************)
(* What becomes of a script's call of one of the bot's commands: one       *)
(* operator per function of tcl_lib.c, js_lib.c, php_lib.c and             *)
(* python_lib.c, of the number n of arguments the script gives (after the  *)
(* network, which PHP and Python scripts name first).                      *)
(*                                                                         *)
(* A command is passed on to a function fn of egg_lib.c, or refused.  Each *)
(* parameter of fn is the script's i-th argument (the number i), or one of *)
(* the sources below; a number above n is read past the end of the         *)
(* arguments.  Names and texts are not told apart, and the texts that PHP  *)
(* and Python scripts send, which are used as formats, have no % in them.  *)
(***************************************************************************)
EXTENDS Naturals, TLC

CONSTANTS NULL,      \* the parameter is NULL, or a number's default
          Undefined, \* JavaScript's value of an argument that is not given
          Junk       \* a variable that nothing has been assigned to

Asks(fn, args) == [fn |-> fn, args |-> args, tells |-> "the answer"]
Does(fn, args) == [fn |-> fn, args |-> args, tells |-> "done"]

\* TCL_ERROR, JS_FALSE or FALSE; no function is called.
Refused == [fn |-> "none", args |-> << >>, tells |-> "an error"]

Telling(outcome, what) == [outcome EXCEPT !.tells = what]

\* fn gets its hi parameters from the arguments, of which lo are required; what is not
\* given is missing.
Given(n, hi, missing) == [i \in 1..hi |-> IF i <= n THEN i ELSE missing]

AsksFor(n, lo, hi, fn) == IF n \in lo..hi THEN Asks(fn, Given(n, hi, NULL)) ELSE Refused
DoesWith(n, lo, hi, fn) == IF n \in lo..hi THEN Does(fn, Given(n, hi, NULL)) ELSE Refused
-----------------------------------------------------------------------------
\* tcl_lib.c.  objv[0] is the command itself.

tcl_chanbans(n) == AsksFor(n, 1, 1, "chanbans")

\* A lifetime falls through to the options; with options it is not read.
tcl_newchanban(n) ==
    CASE n = 4 -> Does("newchanban", <<1, 2, 3, 4, NULL, NULL>>)
      [] n = 5 -> Does("newchanban", <<1, 2, 3, 4, 5, 6>>)
      [] n = 6 -> Does("newchanban", <<1, 2, 3, 4, NULL, 6>>)
      [] OTHER -> Refused

tcl_binds(n) == Telling(AsksFor(n, 0, 1, "binds"), IF n > 1 THEN "an error" ELSE "nothing")
tcl_putlog(n) == DoesWith(n, 1, 1, "putlog")
tcl_putdcc(n) == DoesWith(n, 2, 2, "putdcc")
tcl_isbotnick(n) == AsksFor(n, 1, 1, "isbotnick")
tcl_adduser(n) == AsksFor(n, 1, 2, "adduser")
tcl_isban(n) == AsksFor(n, 1, 2, "isban")
tcl_passwdok(n) == AsksFor(n, 2, 2, "passwdok")
tcl_unbind(n) == DoesWith(n, 4, 4, "unbind")
tcl_die(n) == Does("die", IF n = 0 THEN <<NULL>> ELSE <<1>>)

\* With a channel both are read one place too far.
OneTooFar(n, fn) ==
    CASE n = 1 -> Asks(fn, <<1, NULL>>)
      [] n = 2 -> Asks(fn, <<2, 3>>)
      [] OTHER -> Refused

tcl_isvoice(n) == OneTooFar(n, "isvoice")
tcl_isop(n) == OneTooFar(n, "isop")

\* Mutant of tcl_getchanmode: objc is compared with the number of arguments.
tcl_getchanmode_objc(n) == AsksFor(n + 1, 1, 1, "getchanmode")
tcl_getchanmode(n) == AsksFor(n, 1, 1, "getchanmode")
tcl_encpass(n) == AsksFor(n, 1, 1, "encpass")
tcl_topic(n) == AsksFor(n, 1, 1, "topic")
tcl_validuser(n) == AsksFor(n, 1, 1, "validuser")
tcl_utimer(n) == DoesWith(n, 2, 2, "utimer")
tcl_savechannels(n) == Does("savechannels", << >>)
tcl_finduser(n) == AsksFor(n, 1, 1, "finduser")
tcl_channels(n) == Asks("channels", << >>)
tcl_save(n) == Does("save", << >>)
tcl_botname(n) == Asks("botname", << >>)
tcl_onchan(n) == IF n \in 1..2 THEN Asks("onchan", <<1, 2>>) ELSE Refused

\* troll_matchwilds is 0 for a match.
tcl_matchwild(n) == IF n = 2 THEN Telling(Asks("matchwild", <<1, 2>>), "the contrary") ELSE Refused
tcl_rand(n) == AsksFor(n, 1, 1, "rand")

\* Both write to net->sock, which the connection, a tsocket, does not use.
tcl_puthelp(n) == DoesWith(n, 1, 1, "write to net->sock")
tcl_putserv(n) == DoesWith(n, 1, 1, "write to net->sock")
tcl_bind(n) == DoesWith(n, 4, 4, "bind")
tcl_matchattr(n) == IF n \in 2..3 THEN Asks("matchattr", <<1, 2, NULL>>) ELSE Refused
tcl_countusers(n) == Asks("countusers", << >>)
tcl_ispermban(n) == AsksFor(n, 1, 2, "ispermban")

\* net_tcl_init_commands
TclCommands(n) ==
    [binds |-> tcl_binds(n), newchanban |-> tcl_newchanban(n), putlog |-> tcl_putlog(n),
     putdcc |-> tcl_putdcc(n), isbotnick |-> tcl_isbotnick(n), adduser |-> tcl_adduser(n),
     isban |-> tcl_isban(n), passwdok |-> tcl_passwdok(n), unbind |-> tcl_unbind(n),
     die |-> tcl_die(n), utimer |-> tcl_utimer(n), isop |-> tcl_isop(n),
     isvoice |-> tcl_isvoice(n), getchanmode |-> tcl_getchanmode(n), encpass |-> tcl_encpass(n),
     topic |-> tcl_topic(n), validuser |-> tcl_validuser(n), savechannels |-> tcl_savechannels(n),
     finduser |-> tcl_finduser(n), channels |-> tcl_channels(n), save |-> tcl_save(n),
     botname |-> tcl_botname(n), onchan |-> tcl_onchan(n), matchwild |-> tcl_matchwild(n),
     putserv |-> tcl_putserv(n), puthelp |-> tcl_puthelp(n), rand |-> tcl_rand(n),
     bind |-> tcl_bind(n), matchattr |-> tcl_matchattr(n), countusers |-> tcl_countusers(n),
     ispermban |-> tcl_ispermban(n), chanbans |-> tcl_chanbans(n)]
-----------------------------------------------------------------------------
\* js_lib.c.  The interpreter gives a function the number of arguments it was defined
\* with, undefined ones added.

js_putlog(n) == IF n = 2 THEN Does("putlog", <<1>>) ELSE Refused

\* The answer 1 lets the script go on, without a value; another ends it.
YesOrEnd(outcome) == IF outcome = Refused THEN Refused ELSE Telling(outcome, "nothing, or an error")

js_adduser(n) == YesOrEnd(AsksFor(n, 1, 2, "adduser"))
js_botisop(n) == YesOrEnd(AsksFor(n, 1, 1, "botisop"))
js_unbind(n) == DoesWith(n, 4, 4, "unbind")
js_die(n) == Does("die", IF n = 0 THEN <<NULL>> ELSE <<1>>)
js_isbansticky(n) == AsksFor(n, 1, 2, "isbansticky")
js_ispermban(n) == AsksFor(n, 1, 2, "ispermban")
js_isban(n) == AsksFor(n, 1, 2, "isban")
js_isvoice(n) == AsksFor(n, 1, 2, "isvoice")
js_isop(n) == AsksFor(n, 1, 2, "isop")
js_getchanmode(n) == AsksFor(n, 1, 1, "getchanmode")
js_getting_users(n) == Asks("getting-users", << >>)
js_dccbroadcast(n) == DoesWith(n, 1, 1, "dccbroadcast")
js_putdcc(n) == DoesWith(n, 2, 2, "putdcc")
js_isbotnick(n) == AsksFor(n, 1, 1, "isbotnick")
js_encpass(n) == AsksFor(n, 1, 1, "encpass")
js_topic(n) == AsksFor(n, 1, 1, "topic")
js_validuser(n) == AsksFor(n, 1, 1, "validuser")
js_countusers(n) == Asks("countusers", << >>)
js_savechannels(n) == Does("savechannels", << >>)

\* Any other number of arguments finds nobody.
js_finduser(n) == IF n = 1 THEN Asks("finduser", <<1>>) ELSE Telling(Refused, "nobody")
js_matchattr(n) ==
    IF n >= 2 THEN Asks("matchattr", <<1, 2, IF n = 3 THEN 3 ELSE NULL>>) ELSE Refused
js_save(n) == Does("save", << >>)

\* Without a function a trigger is bound without one, and the answer is freed twice.
js_bind(n) ==
    IF n >= 4 THEN Does("bind", <<1, 2, 3, 4>>)
    ELSE Telling(Does("bind", Given(n, 3, Undefined) @@ 4 :> NULL), "freed memory")
js_putserv(n) == Does("putserv", Given(n, 1, Undefined))

\* botname and version are properties: they are read without arguments.
js_botname(n) == AsksFor(n, 0, 0, "botname")
js_version(n) == AsksFor(n, 0, 0, "version")
js_onchan(n) == Asks("onchan", <<IF n = 0 THEN Undefined ELSE 1, IF n = 2 THEN 2 ELSE NULL>>)
js_passwdok(n) == Asks("passwdok", Given(n, 2, Undefined))
js_chhandle(n) == Asks("chhandle", Given(n, 2, Undefined))
js_channels(n) == Asks("channels", << >>)

\* net_init_js_global_object
JsCommands(n) ==
    [putlog |-> js_putlog(n), adduser |-> js_adduser(n), unbind |-> js_unbind(n),
     die |-> js_die(n), isban |-> js_isban(n), ispermban |-> js_ispermban(n),
     isbansticky |-> js_isbansticky(n), botisop |-> js_botisop(n), isop |-> js_isop(n),
     isvoice |-> js_isvoice(n), getchanmode |-> js_getchanmode(n),
     dccbroadcast |-> js_dccbroadcast(n), putdcc |-> js_putdcc(n),
     isbotnick |-> js_isbotnick(n), encpass |-> js_encpass(n), topic |-> js_topic(n),
     validuser |-> js_validuser(n), countusers |-> js_countusers(n),
     savechannels |-> js_savechannels(n), finduser |-> js_finduser(n),
     matchattr |-> js_matchattr(n), bind |-> js_bind(n), putserv |-> js_putserv(n),
     botname |-> js_botname(n), version |-> js_version(n), onchan |-> js_onchan(n),
     passwdok |-> js_passwdok(n), chhandle |-> js_chhandle(n), channels |-> js_channels(n),
     save |-> js_save(n)]
    @@ "getting-users" :> js_getting_users(n)
-----------------------------------------------------------------------------
\* php_lib.c.  zend_parse_parameters leaves a parameter that is not given unassigned.
OrJunk(n, lo, hi, fn) == IF n \in lo..hi THEN Asks(fn, Given(n, hi, Junk)) ELSE Refused

php_adduser(n) == OrJunk(n, 1, 2, "ispermban")
php_ispermban(n) == OrJunk(n, 1, 2, "ispermban")
php_matchattr(n) == OrJunk(n, 2, 3, "matchattr")
php_isbansticky(n) == OrJunk(n, 1, 2, "isbansticky")
php_isban(n) == OrJunk(n, 1, 2, "isban")
php_unbind(n) == DoesWith(n, 4, 4, "unbind")
php_utimer(n) == DoesWith(n, 2, 2, "utimer")
php_botnick(n) == AsksFor(n, 0, 0, "botnick")
php_chhandle(n) == AsksFor(n, 2, 2, "chhandle")
php_passwdok(n) == AsksFor(n, 2, 2, "passwdok")
php_save(n) == DoesWith(n, 0, 0, "save")
php_countusers(n) == AsksFor(n, 0, 0, "countusers")
php_savechannels(n) == DoesWith(n, 0, 0, "savechannels")

\* The user's nick, where the other languages give the handle.
php_finduser(n) == IF n = 1 THEN Telling(Asks("finduser", <<1>>), "the nick") ELSE Refused
php_validuser(n) == AsksFor(n, 1, 1, "validuser")
php_putdcc(n) == DoesWith(n, 2, 2, "putdcc")

\* No network is named; troll_matchwilds is 0 for a match; TRUE for a wrong call.
php_matchwild(n) == Telling(IF n = 2 THEN Asks("matchwild", <<1, 2>>) ELSE Refused, "the contrary")
php_bind(n) == DoesWith(n, 4, 4, "bind")
php_putserv(n) == DoesWith(n, 1, 1, "putserv")

\* trollbot_functions
PhpCommands(n) ==
    [adduser |-> php_adduser(n), ispermban |-> php_ispermban(n), matchattr |-> php_matchattr(n),
     isbansticky |-> php_isbansticky(n), isban |-> php_isban(n), unbind |-> php_unbind(n),
     utimer |-> php_utimer(n), savechannels |-> php_savechannels(n),
     validuser |-> php_validuser(n), putdcc |-> php_putdcc(n), matchwild |-> php_matchwild(n),
     putserv |-> php_putserv(n), bind |-> php_bind(n), chhandle |-> php_chhandle(n),
     passwdok |-> php_passwdok(n), save |-> php_save(n), finduser |-> php_finduser(n),
     countusers |-> php_countusers(n), botnick |-> php_botnick(n)]

\* The functions that look for the network with strcmp, the others with tstrcasecmp.
PhpExact == {"savechannels", "validuser", "putdcc", "bind", "putserv"}

\* PHP's commands on a network: known says whether there is one of that label, same
\* whether the script spells the label as the configuration does, outcome what comes of the
\* command on a network that is found.
PhpOutcome(cmd, outcome, known, same) ==
    IF cmd = "matchwild" \/ (known /\ (same \/ cmd \notin PhpExact)) THEN outcome ELSE Refused
-----------------------------------------------------------------------------
\* python_lib.c.  The network is the one of the script's trollbot object.

py_unbind(n) == DoesWith(n, 4, 4, "unbind")
py_savechannels(n) == DoesWith(n, 0, 0, "savechannels")
py_validuser(n) == AsksFor(n, 1, 1, "validuser")
py_bind(n) == DoesWith(n, 4, 4, "bind")
py_putserv(n) == DoesWith(n, 1, 1, "putserv")
py_privmsg(n) == DoesWith(n, 2, 2, "privmsg")
py_troll_debug(n) == DoesWith(n, 2, 2, "log")

\* PyTbMethods
PyCommands(n) ==
    [unbind |-> py_unbind(n), savechannels |-> py_savechannels(n),
     validuser |-> py_validuser(n), bind |-> py_bind(n), putserv |-> py_putserv(n),
     log |-> py_troll_debug(n), privmsg |-> py_privmsg(n)]
=============================================================================
