----------------------------- MODULE MCStartup -----------------------------
(***************************************************************************)
(* Startup for TLC: configuration files of up to eleven lines, each made   *)
(* for one of the ways through smf_settings_parse_config and main.         *)
(***************************************************************************)
EXTENDS Startup

NoText == ""
Words  == {"", "smtpd", "pipe", "a", "a;b", "b", "/q", "no", "yes", "sql", "ldap", "mysql", "postgresql", "sqlite",
           "0", "2", "600", "2000", "550", "onlevel", "mail"}
Number == [t \in Words |-> CASE t = "2" -> 2 [] t = "600" -> 600 [] t = "2000" -> 2000 [] t = "550" -> 550
                             [] OTHER -> 0]
Bool   == [t \in Words |-> IF t = "yes" THEN 1 ELSE 0]
Listed == [t \in Words |-> IF t = "a;b" THEN <<"a", "b">> ELSE <<t>>]
Dirs   == {"/q", "a"}
Keys   == {"550", "600"}
Custom == {<<"mod", "level">>, <<"", "level">>}

S(name)    == [kind |-> "section", name |-> name]
V(key, t)  == [kind |-> "value", key |-> key, text |-> t]
Blank      == [kind |-> "comment"]
Wrong      == [kind |-> "error"]
Base       == <<S("global"), V("engine", "smtpd"), V("queue_dir", "/q")>>

Files == {
  <<>>,
  <<V("engine", "smtpd")>>,
  <<S(""), V("level", "2"), S("global"), V("engine", "pipe"), V("queue_dir", "no"), V("queue_dir", "/q")>>,
  <<Blank, S("global"), V("engine", "pipe"), Wrong, V("debug", "2"), V("backend", "no")>>,
  Base \o <<V("backend", "sql"), V("backend", "no")>>,
  Base \o <<V("backend", "ldap"), V("backend", "no"), V("backend", "sql"), V("lookup_persistent", "yes")>>,
  Base \o <<V("backend", "sql"), S("sql"), V("driver", "mysql"), V("name", "a"), V("host", "a;b"),
            V("host", "b")>>,
  Base \o <<V("backend", "sql"), S("sql"), V("driver", "mysql"), V("name", "a")>>,
  Base \o <<V("backend", "sql"), S("sql"), V("driver", "postgresql"), V("name", "a")>>,
  Base \o <<V("backend", "sql"), V("backend_connection", "no"), S("sql"), V("driver", "sqlite"), V("name", "a"),
            S("global"), V("foreground", "yes")>>,
  Base \o <<V("backend", "sql"), S("sql"), V("driver", "mysql"), V("driver", "no"), V("name", "a")>>,
  Base \o <<V("backend", "ldap"), V("lookup_persistent", "yes")>>,
  Base \o <<V("backend", "ldap"), V("lookup_persistent", "yes"), S("ldap"), V("host", "a"),
            V("scope", "onlevel"), V("port", "2"), V("referrals", "yes")>>,
  Base \o <<V("backend", "ldap"), S("ldap"), V("scope", "a")>>,
  Base \o <<V("user", "a"), V("group", "b"), V("pid_file", "a"), V("foreground", "yes")>>,
  Base \o <<V("user", "a"), V("group", "b"), V("pid_file", "a")>>,
  Base \o <<V("user", "a"), V("max_childs", "2000")>>,
  Base \o <<V("modules", "a;b"), V("lib_dir", "a"), V("modules", "b"), V("module_fail", "2"),
            V("module_fail", "0"), V("tls_enable", "2"), V("syslog_facility", "mail")>>,
  Base \o <<S("smtpd"), V("550", "a"), V("600", "a"), V("nexthop_fail_code", "550"), V("550", ""),
            S(""), V("nexthop_fail_msg", "b"), S("mod"), V("level", "2")>> }

SetByModules == {<<"global", "backend">>, <<"sql", "host">>, <<"ldap", "scope">>, <<"global", "modules">>,
                 <<"global", "debug">>, <<"global", "max_childs">>, <<"global", "syslog_facility">>,
                 <<"global", "queue_dir">>, <<"smtpd", "smtpd_timeout">>, <<"global", "add_header">>}
Some == {0, 2}
=============================================================================
