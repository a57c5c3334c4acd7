# A verification development for spmfilter

spmfilter is a mail filter: it takes messages over SMTP (or from standard input), runs a list
of modules over each, and hands it to a nexthop.  This directory models the parts of it in
which order, failure and interleaving decide about correctness, checks them with TLC on small
instances, and proves the most important results with TLAPS for all of them.

Run it from this directory: `tlc -config MCSpmServer.cfg MCSpmServer`, and so on for each
configuration listed below, and `tlapm M.tla` for each of the proof modules `SpmServerProofs`,
`EngineProofs`, `NexthopProofs`, `LookupProofs`, `UserDataProofs`, `StartupProofs`,
`DataProofs` and `SmfDictProofs`.

## 1. Inventory

| Component | Source | State | Operations |
|---|---|---|---|
| Preforking daemon | `smf_server.c`, head of `smf_smtpd_handle_client` | processes, shared memory (`num_procs`, `num_spare`, `childs[]`, `childs_active[]`), one semaphore, `daemon_exit` per process | prefork, fork, accept, book-keeping, waitpid loop, signals, shutdown |
| SMTP engine | `smf_smtpd.c` | dialogue state, session, spool file | the commands, DATA, the answers, the alarm |
| Module queue | `smf_modules.c` | message in memory, spool file, temporary file, position in the module list | invoke, reload, processing error, flush, call of the nexthop |
| Message content | `smf_internal.c`, `smf_smtpd.c`, `smf_message.c` | read buffer, line, spool file | line reader, dot unstuffing, missing headers, writing a message without its header |
| Nexthop | `smf_nexthop.c`, `smf_smtp.c` | the envelope, which lasts from one message to the next; what a delivery has opened | choice of the destination, delivery to a file or over SMTP (libesmtp) |
| Session, envelope | `smf_session.c`, `smf_envelope.c` | sender, recipients, size, spool file name, answer text | new, free, getters and setters |
| Pipe engine | `smf_pipe.c` | one session | read stdin, queue, exit status |
| Lookup | `smf_lookup_{sql,ldap,db4}.c` | `settings->lookup_connection`, connection pool | connect with failover or balance, query, disconnect |
| User data | `smf_internal.c`, `smf_session.c` | `session->local_users` | fetch for an envelope, is a user local, data of a user |
| Settings | `smf_settings.c` | the configuration | defaults, the file line by line, checks after it, getters and setters |
| Start-up | `main.c`, `smf_modules.c`, head of `smf_server.c`, `load()` of the engines | processes, socket, pid file, user, shared memory | options, lookup connection, checks, loading the engine, listening, going to the background, dropping privileges, and the way back |
| Containers | `smf_dict.c`, `smf_list.c` | three arrays, list | set, get, remove |
| Message wrappers | `smf_message.c`, `smf_part.c`, `smf_header.c`, `smf_email_address.c` | libcmime objects | wrappers |
| Helpers | `smf_core.c`, `smf_internal.c` | none | string expansion, files |
| Trace, MD5 | `smf_trace.c`, `smf_md5.c` | none | logging, digest |

How they interact: `main` loads the settings and then an engine.  The smtpd engine makes a
queue object with three callbacks, starts the daemon, and each child runs
`smf_smtpd_handle_client` for one client.  DATA writes a spool file and calls
`smf_modules_process`; that calls modules, which change the session in memory or the spool file
on disk, calls back into the engine when one does not return 0 (the callback answers the client),
and at the end calls the nexthop.  Parent and children share only the counters and signals.

What is hard: the daemon's books are written by several processes that may die or be
interrupted anywhere, and its signals are not queued and carry nothing; a message exists both in
memory and on disk and the two are brought together at two places; the alarm may end a child
between any two steps; and the client must never be told something about its message that is
not so.

What makes each correct:

* Daemon: one process at a time in a critical section; the books agree with the processes;
  enough spare children, never more than allowed; every dead child reaped; shutdown reaches
  everybody and ends.
* Session and queue: the promise of `MessageHandover`; module edits reach the nexthop; a message
  goes to its own recipients and only when it is whole; files are removed; an answer always comes.
* Lookup: a connection in use is a bound one, what is taken from the pool is returned, failover
  tries every host.
* User data: everybody whom the directory has is local, with that user's data, and modules get the
  same answer all through a session.
* Nexthop: success is only told of a message the nexthop has for somebody, refused recipients are
  in the log as far as its level lets them, a message goes to the nexthop that was named for it, and
  nothing stays open.
* Message content: the body arrives byte for byte, and headers are added only where they are
  missing.
* Settings and start-up: each option is as last requested, a daemon that serves has passed every
  check on the way, and its caller is told nothing wrong.
* Containers and helpers: agreement with their mathematical reference.

The hazards of the code, each at its line, with the properties that cover it, are in
`PROJECT.json`.

## 2. Modules

### SpmServer: the preforking daemon

One action per step that another process can see.  The parent's position is `ppc`: the prefork
loop and the `while` loop after `waitpid()` (both call `Fork` or `ForkFails` under `NeedsFork`,
then lock, `AddChild`), `Sleep` and `waitpid()` (`Reap`, `NoChild`, or a signal), `Woken`, the
two critical sections of `_smf_server_remove_active`, and the shutdown.  A child goes from
`loop` to `accept`, then `signal` (SIGUSR1), the critical sections of
`smf_server_decrement_spare` and `smf_server_add_active`, `install` (before its own signal
handlers are there) and `serve`; it ends as `zombie` until it is reaped, which frees its pid for
the next `fork()`.

Points worth knowing when comparing it with the code:

* A semaphore operation is a step of its own (`ParentLock`, `ChildLock`); what follows up to the
  unlock is one step, since nobody else touches the data then.  The `while` loop of the parent
  reads the counters without the semaphore, and so does `NeedsFork`.
* A signal interrupts `waitpid()` only when it is blocked and no child is dead (`Blocked`); its
  handler does nothing else, so a signal at any other moment has no effect but the flag.  Between
  the test of `daemon_exit` and `waitpid()` lies the step `toWait`.
* `childs[]` and `childs_active[]` are sets, as the code only searches them.  `dead_slots`
  counts the slots that hold the -1 of a failed `fork()`.
* A child inherits `daemon_exit`.  SIGTERM ends a child that is blocked in `accept()` or has
  installed its own handler; anywhere else it sets the flag, which is read when `accept()` fails.
* Modelled for the SysV semaphore, which the build prefers.  An operation on a removed semaphore
  makes the child exit.

### ModuleQueue and SmtpSession: one client's session

`ModuleQueue` is `smf_modules_process` with `smf_module_invoke`, `smf_modules_flush_dirty`, the
nexthop and the callbacks of both engines, which return the same and of which only those of the
smtpd engine tell somebody (`engine` in the settings, `Reply`).  `SmtpSession` extends it with the dialogue and
`smf_smtpd_process_data`.  The content of a message is the set of marks modules have left in
headers and body, on disk (`spool`, `temp`) and in memory (`mem`).

* A module returns any of 0, -1, 1, 2 or an SMTP code, and edits headers in memory, or writes to
  the spool file, or does neither.  Whether the modification time has grown is a choice (`seen`),
  as it is counted in seconds.
* `stale` says that the local `msg` of `smf_modules_process` points to a freed message.  Setting
  X-Spmfilter through it is undefined; the outcomes considered are a lost header and a crash.
* `Fault` is a failing file operation or parse.  Where the code looks at the failure the action
  has the branch the code takes; where it does not (`smf_smtpd_append_missing_headers`) the model
  goes on as the code does.
* The nexthop accepts, refuses, or accepts while its answer is lost.
* `Alarm` (421) and `Terminate` may come at any point from the first command on, because
  `alarm()` is set again by each command and never switched off.
* Commands that change nothing (NOOP, unknown, refused) are not actions.  `Read` adds a size to
  `message_size`, which only a new session resets, as in the code.
* `settings` is a variable that never changes, so that one run covers several configurations.
* History variables (`own`, `complete`, `edited`, `rewrote`, `unsure`) are never read by an
  action's guard.

### SmtpData: the content of a message

The way of the bytes, which `SmtpSession` leaves out: `smf_internal_readcbuf` and
`smf_internal_readline` (`Fill`, `NextChar`, `EofInLine`, `EndOfInput`), the loop of
`smf_smtpd_process_data` (`TakeLine`, `EndOfData`), the headers it adds (`AppendHeaders`), a flush
of headers that a module has edited (`FlushDirty` with `smf_message_write_skip_header`), and the
delivery to a file.

* A message is a sequence of lines and a line one of tokens: a header name with its colon, another
  text, a dot (`Tokens`); no line end is within one.  The client stuffs dots and ends its lines with CR LF or LF; `read()` cuts the
  stream anywhere.
* A line of MAXLINE - 1 characters or more is read in pieces, and each piece is treated as a line:
  a dot that starts one is taken away.  `Fits` in `BodyKept` and `HeadersOnce` excludes that.
* `Added` are the lines for the required headers that were not found, one test after the other as in
  `smf_smtpd_append_missing_headers`.
* `found_header` is set by any line with a colon, also in the body; without a line at all `nl` is
  NULL and printed as "(null)".  Both are in the model and outside `WellFormed`.
* A NUL byte cuts its line, as `smf_smtpd.c:430` writes `strlen(buf)` bytes, and loses its line end.
  No token has one, so this is outside the model and the properties speak of messages without NUL.

### Nexthop: one delivery after the other

`smf_nexthop_find`, the delivery to a file (`OpenFiles`, `CopyBlock`, `EndOfFile`) and over SMTP
(`FillEnvelope`, then `smf_smtp_deliver` from `CreateSession` to `Transfer`), for the messages of
one session.  `ModuleQueue` knows all this as its step `Deliver`.

* `held` is what the delivery has opened or allocated; each exit names what it closes (`Returns`),
  and the rest goes to `left`.
* The envelope is filled from the settings and the message and keeps what was filled in.  Modules
  may name a nexthop in it or change the setting (`NameNexthop`, `SetNexthop`).
* A file is copied by blocks; `even` says that the end of the file is met by a read of its own.
  Only then is the error of an earlier short write seen, and `fclose()` is never looked at.
* libesmtp is external: what it takes of the recipients (`AddRecipients`), whom the nexthop has
  the message for and what it says (`Transfer`) are choices.  TLS and authentication change no state
  but the context they leave behind.
* `logged` are the recipients the log speaks of.  What libesmtp refuses is logged as an error; what
  the nexthop says of a recipient has the level `TRACE_DEBUG`, which `smf_trace.c` drops unless
  `debug` is on (`smf_smtp.c:90`, `:92`).  It is off by default; both settings are checked.
* The first two tests of `smf_smtp_deliver`, for a missing nexthop and missing recipients, are
  never true behind `smtp_delivery_nexthop` and have no action.

### MessageHandover: the abstract promise

Three variables: does the filter hold a message, who answers for it, what was the client told.
"ok" only after the nexthop or a module took the message (or none is configured), "fail" only
before, one answer at most; plus the two ways in which a message may arrive twice (a lost answer
of the nexthop, the alarm).  `ImplementsHandover` in `SmtpSession` and `PipeImplementsHandover` in
`PipeEngine` are the refinements.

### PipeEngine: one message from standard input

`load()` of `smf_pipe.c` on top of `ModuleQueue`: `Open`, `ReadInput`, `ParseSpool`, the queue
(`RunQueue`), `Finish`.  Its answer is the exit status, which for the caller is 0 or a failure.

* The early returns leave the spool file (`Abandon`, noted in `leftover`); so does a signal
  (`Killed`), which this engine does not handle.  `FilesRemoved` says that there is no other way.
* A module that returns 1 has dealt with the message itself.  The smtpd engine then says 250;
  this one exits with 1, a failure to its caller.  In `MessageHandover` that is a message the
  filter still answers for.
* The nexthop may have accepted while its answer got lost; the refinement lets the nexthop have
  the message from the moment the failure is reported.

### UserData: what a session knows of its users

Before the modules run, `smf_internal_fetch_user_data` looks up each recipient and the sender
(`Fetch`, `ExpandError`, `NoResult`, `Result`, one address at a time); modules then ask
`IsLocal` and `GetUserData`.

* The directory is a set of entries and changes between messages.  An entry is known by the
  addresses that find it (`Listed`) and by those that occur in its result attributes
  (`Mentions`), a part of a longer address included, as `strstr` does.
* The text of a query is left out; `Asked` is the set of addresses that an expanded query cannot
  tell apart, given the options of `user_query`.
* Whether spmfilter was built with LDAP decides which entry is taken, even for a result of the
  SQL backend (`UserResult`).
* `local_users` grows as long as the session lasts, so that later messages look up the same
  address again but find the first answer.

### SmfSettings and Startup: from main.c to a serving daemon

`SmfSettings` has the configuration: an option is the pair of its section and key, a line of the
file is what `_parse_line` makes of it, and `SetGlobal`, `SetSql`, `SetLdap`, `SetSmtpd` are the
parts of `_set_config_value`.  The checks that follow the last line are `CheckGlobal`,
`CheckBackend` and `CheckSmtpd`.  `Setters` are the `smf_settings_set_...` that modules call.
`Startup` extends it with `main`, the loading of the engine, `load()` of the smtpd engine,
`smf_server_listen`, `smf_server_init`, and the ends of all of them.

* Texts are opaque but for what the code reads out of them: the number (`Integer`), the boolean
  (`Boolean`) and the items of a list (`Items`) are constants.
* A wrong choice for an option of a fixed set frees the old value and leaves its address
  (`Freed`).  Whoever looks at it then may find anything (`Seen`), and freeing it again may end the
  process.
* A module is loaded while its line is read, from the `lib_dir` known by then (`Elements`).
* The processes are 1 for the one that was started and 2 and 3 for the children of the two
  `fork()`s; `self` is the one that goes on, `leaving` those that are about to exit, `status` what
  each told its caller.
* What the environment answers (`bind`, `setsid`, `fork`, `chdir`, the user) is a choice.
* Serving itself is `SpmServer`; here a module of a session may call setters while the daemon
  serves, in the copy of the settings its child has.

### SmfDict and DictMap: the dictionary

`SmfDict` has the arrays of `smf_dict.c` as they are: searched from the start over the holes that
removed keys leave, filled from `n` on and around the end, doubled when full.  `DictMap` is the
function from keys to values; `Contents` is the refinement mapping.  `Get` and `MapKeys` keep
what they return in `got` and `seen`, so that the refinement compares it.  Left out:
`smf_dict_get_ulong`, memory running out, and a callback of `smf_dict_map` that changes the
dictionary it runs over.

### Lookup: connections to a database or a directory

Each process has its `settings->lookup_connection`: none, a libzdb pool (idle and active
connections) or an LDAP handle, which is the pool of one.  `Connect` tries the host of choice,
`Failover` each element of the list; `Get` is one round of the loop in
`smf_lookup_sql_get_connection` (ping, reaper, giving up); `SqlRows`, `SqlException` and
`LdapSearch` are the ends of a query.  `Boot` and `Shutdown` are those of `main` and the daemon;
`Fork` copies the pointer, so that parent and child hold the same sockets, and `Exit` closes
what no other process holds.

* `server[c]` is the host a connection leads to; a host that goes down takes its connections
  with it, and one that comes back does not bring them back.
* The reaper of libzdb stops when only the initial connections of a pool are left (`Excess`).  They
  are five, or all of the pool when `sql_max_connections` is less than that
  (`smf_lookup_sql.c:161-164`, `StartSize`), as by default.  So there the reaper closes nothing, and
  in a larger pool `Reapable` is any choice of idle connections that has the dead ones among them or
  comes down to that number.
* `ConnectionPool_setReaper` (line 168) adds a thread that does the same now and then.  A thread does
  not survive `fork()`, so that it runs only in processes that have connected themselves: the parent,
  which never queries, and children without persistence, which close their pool after each query.
  None of them ever has more idle connections than its pool began with (`ReaperThreadIdle`, proved in
  `LookupProofs`), so the thread finds nothing to close and has no action.
* The reaper of one persistent child may close a connection that others still use (`Closed`).
* After the last try the code leaves the loop with whatever `c` is: `GiveUp` goes on with a
  connection that did not answer, or aborts when there is none, or when the reaper has freed it.
* An exception, of a lost connection or of a wrong statement, skips the release of the
  connection.  `lost` counts them; `PoolBooks` says that this is the only leak.
* `RandHost` is the loop as written, which takes the first element whose number is *not* the
  random one.
* libzdb and libldap are external: a pool returns an idle connection, or opens a new one when none
  of the idle ones answers and it may have more.  Left out: SQLite and LDAP URIs, which have no host list,
  empty queries, the rows of a result, Berkeley DB files (opened and closed within one call).

## 3. Runs

| Run | Instance | What it shows |
|---|---|---|
| `server` | 3 pids, limit 2, 2 spare, 1 failing fork, 1 kill, fair | types, semaphore, books, spare count, limit, shutdown, the pool when the parent goes to sleep, reaping, the end of the shutdown |
| `server_lost_wakeup` | 2 pids, limit 2, 1 spare, fair | **violated**: a shortage of spare children may last |
| `session` | 2 messages, 4 configurations with up to 2 modules, 1 fault, fair | types, edits delivered, clean spool, handover, every message answered |
| `session_recipients` | 2 recipients | **violated**: recipients of an earlier transaction |
| `session_truncated` | 1 recipient | **violated**: a truncated message is delivered |
| `data` | MAXLINE 7, reads of up to 2 characters, all messages of up to 3 of 10 lines and 2 longer ones, both line ends | types, the body byte for byte, required headers once |
| `nexthop` | 2 recipients, 2 hosts and a file, 2 messages of up to 2 blocks, debug on and off | what a delivery returns, the nexthop a module named, nothing left open |
| `pipe` | 4 configurations with up to 2 modules, 1 fault, a signal | the exit status as the answer of the handover, no file left |
| `users` | 3 addresses, one part of another, one without domain; 3 entries; 2 messages, 6 configurations, 1 failing lookup | nobody missed, the right entry, stable answers |
| `startup` | 19 configuration files, 1 call of a setter | types, each option as last requested, a daemon that serves is prepared, what the caller is told, the reasons of a crash |
| `dict` | 3 keys, 2 with the same hash, 2 values, arrays of 2 that become 4 | the count, unique keys, the refinement of a map |
| `lookup` | 2 children, 2 hosts, pools of 1 and 2 that start with 1, 9 configurations, 2 outages, 2 queries, fair | types, no shared connection without persistence, the books of the pool, failover, which lost connections are replaced, the reasons of an abort, every query ends |

Bounds.  Three pids with two spare children and a limit of 2 give a child that is served and one
that dies while the parent registers a third; with one pid more than the limit `childs[]` gets
full and the limit could be exceeded, and a pid is used again.  The safety properties of this run
are also proved for all numbers.  For the lost wake-up two pids suffice: one child is announced
while the other one is missing.  One failing `fork()` and one kill already disturb the books for
good.  Two messages are the least that shows what a session keeps from one to the next; two
modules are the least with an earlier and a later one; one fault at a time reaches every error
path, since each ends the transaction or is ignored.  `MaxSize` lies between one message and
two.  Deadlock is not checked where a daemon, a session or a process really ends; it is for the
dictionary.

Properties conditional on a configuration or on what happened say so in their text: `BooksMatch`,
`SpareCount` and `ShutdownReachesAll` need `spare_childs <= max_childs`; `SpareCount` and half of
`SemaphoreSound` need that no child was killed; `PoolAtSleep` in addition that no `fork()` failed.
`ZombiesReaped` and `StopsUnlessDeaf` except that a killed child has taken the semaphore with it, and
`StopsUnlessDeaf` also that its SIGTERM reached a child where nothing acts on it.

These departures from the documents, and defects, are modelled without a run of their own, since
they can be read off one action each.  The daemon and the queue:

* preforking does not look at `max_childs` (`NeedsFork`);
* a failed `fork()` is entered in the books as a spare child for good (`ForkFails`, `AddChild`);
* a reload of the spool file drops the header edits that earlier modules made in memory
  (`InvokeRewrite`; `plugin.dox` speaks of merging), which `EditsDelivered` allows for;
* with `module_fail = 1`, "proceed and ignore" in `spmfilter.conf.5`, a failing module stops the
  queue without delivery and without an answer (`ProcessingError`), which `DataAnswered` excepts;
* `message_size` is summed over the messages of a session (`Read`, `smf_smtpd.c:436`).

The content of a message:

* a message that starts with an empty line and has no colon gets a blank line too many, and an
  empty one a header that ends in "(null)" (`AppendHeaders`);
* a line of MAXLINE - 1 characters or more loses a dot that happens to start one of its pieces
  (`TakeLine`).

The nexthop:

* a full disk: `fclose()` is not looked at, and a short write only noticed by a later write of
  nothing (`EndOfFile`, `smf_nexthop.c:108`), so that 250 is said although `spmfilter.conf.5:168`
  promises the failure code "if the delivery to the final destination fails for any reason";
* a nexthop that takes the message and refuses some recipients is a success, and without `debug`
  no log has the refusals either (`Transfer`); `Told` asks for them only with `debug`;
* the file of a delivery is opened with "w", so that each message replaces the one before; a name
  of a file that does not exist is taken for a host (`Find`);
* the envelope keeps the nexthop of an earlier message of the session (`FillEnvelope`), though "each
  message is processed in a new session" (`smf_modules.h:34`; `smf_session.h:21`); no property asks
  for that, and `HopNamed` leaves open where a later message goes for which no module names a nexthop;
* the early returns of `smf_smtp_deliver` leave the text of the message and the authentication
  context allocated, and some the session of libesmtp (`Returns`).

Lookups:

* with `lookup_persistent` the children of the daemon use copies of the parent's connections, with
  the same sockets (`Boot`, `Fork` in `Lookup`); `PrivateConnections` is about the other setting;
* "Failed connections will be also reconnected again automatically" (`smf_lookup.h:34`), but a
  persistent LDAP connection that is lost is not NULL and never opened again
  (`smf_lookup_ldap.c:227`, `LdapSearch`), and of an SQL pool the initial connections are never
  closed by the reaper: with the default of three, a persistent child whose database was restarted
  finds its pool full of dead connections, tries thirty times at each query, and then queries on a
  dead one or fails in the assertion (`Reapable`, `GiveUp`).  `SqlReconnects` and `AbortExplained`
  except these pools;
* an address that an SQL lookup does not find is local all the same, as an empty list is not NULL
  (`smf_internal.c:162`, `Result` in `UserData`; `smf_session.h:157` and `:169` say otherwise).

Settings and start-up:

* a syntax error is counted and the count never used (`SkipLine`); the test "line too long" and
  continuation lines cannot be reached;
* the scope that works is "onlevel", the one in `spmfilter.conf.5:250` "onelevel" (`CheckLdap`);
* a user without a group is not switched to (`SwitchUser`, `spmfilter.conf.5:155`);
* setters take what the file may not say (`CallText`, `CallNumber`); `smf_settings_group_get_integer` and
  `_list` read a key that is missing (`GroupGet`);
* `status == getaddrinfo(...)` in `smf_server_listen` (`smf_server.c:430`, `Unresolved`): an
  address that does not resolve is not noticed;
* the first process reports success as soon as its `fork()` worked, whatever fails afterwards
  (`ParentExits`); a pid file that cannot be written is only logged (`WritePidFile`);
* a relative `queue_dir` is checked before `chdir()` and used after it (`Chdir`).

For the dictionary: arrays of two stand for those of 128; with three keys they double once, and
afterwards have holes before, between and after the keys, also when `n` points past them.  Two
keys with one hash are the least to confuse.

For the user data: two messages show what one leaves to the next, in one session or two; the three
addresses are one that is part of another and one without a domain, and the directories are all
subsets of three entries, of which one mentions nobody.

For `Lookup`: two children are enough to share a connection or not; two hosts have a first one
that fails and a last one.  Eight sockets are more than three processes can have open, so
`Enough` never blocks a step.  With one initial connection, a pool of one
is one that the reaper never touches, like the default of three, and a pool of two is one that may
grow, like one of more than five.  A pool of one is exhausted by an exception, one of two by an
outage and an exception, and the second query meets the full pool.  Four tries with a reaper after
every second stand for 30 and 5: there is a try before the reaper, one that it follows, and two
after it.  Two outages can hit a connection and the one that replaced it, at any step, and the host
may come back each time; that is what it takes for the reaper to have more than one to close.

For `SmtpData`: with a MAXLINE of 7 there are lines that just fit, lines whose CR LF becomes a
piece of its own, and a line with a dot as the first character of its second piece; a read
buffer of 2 cuts CR LF in the middle.  The two longer messages have a header line in the body,
dots, and empty lines one after the other.

For `Nexthop`: with two recipients one may be refused by libesmtp and one by the nexthop; two
hosts tell what a module named from what is configured, for this message and the one before; a file of no block, one and two has no
write, a last one, and one before that; the second message meets what the first one left.

For `Startup`: each of the 19 files is made for one of the ways through the parser and the checks
(options twice, wrong choices before and after good ones, sections out of order, missing hosts, an
empty section name, limits too large).  Setters are independent of each other, so that one call per
session is enough.  The processes are as many as the code makes.

Fairness.  `SpmServer`: the parent's and each child's own steps are weakly fair (processes are
scheduled), and `Reap(p)` strongly, because `waitpid(-1)` takes the dead children in the order of
the kernel's list and the parent comes back to it.  Nothing is assumed about clients, the length
of sessions, or signals.  `SmtpSession`: the process's own steps are weakly fair; of those that
wait for the client inside DATA, for a module or for the nexthop it is only assumed that they
happen or else the alarm does.  Nothing is assumed of a session that waits for a command.
`Lookup`: every step of a connect or a query is weakly fair, as a host answers or the client
library times out; nothing is assumed of when a query starts, a child ends or a host fails.

## 4. Proofs

`SpmServerProofs` proves, for every set of pids and all limits:

* `TypeCorrect`: `Spec => []TypeOK`;
* `SemaphoreCorrect`: `Spec => []SemaphoreSound`.  The invariant `MutexInv` counts the processes
  between lock and unlock together with the semaphore; without a kill the sum is 1;
* `BooksCorrect`: `Spec => []BooksMatch`.  `BooksMatch` is not inductive: that a child is not
  registered twice and not removed before it is registered depends on where the parent is
  (`ControlInv`: which pid the parent holds, and that this process exists or was reaped), and that
  `childs[]` has a free slot when a pid is stored depends on the limit (`LimitInv`);
* `ChildLimitHolds`: under `PreforkCount <= MaxChilds`, at most `MaxChilds` processes exist;
* `SparesCounted`: `Spec => []SpareCount`.  A child announces its client and is taken off the
  books by two processes, in either order, so the invariant (`ActiveInv`) says who is in
  `childs_active[]` at each position of child and parent, and the count is moved by one on the
  side where the set changes;
* `EverybodyReached`: `Spec => []ShutdownReachesAll`.  `ShutdownInv` says that every child that
  lives is in `childs[]` when the SIGTERM loop starts, which follows from `BooksMatch`, and has its
  flag afterwards;
* `PoolReplenished`: under the same condition `Spec => PoolAtSleep`, an action property: the counters that the loop reads
  before it sleeps are those of `SpareCount`, and by `StoredInv` every child that told of its client
  is in `childs_active[]`.

`LookupProofs` proves, for every set of children, any number of hosts and all limits with
`ReapEvery < MaxTries`:

* `TypesHold`: `Spec => []TypeOK`, with idle and active connections of a pool disjoint;
* `ConnectionsPrivate`: `Spec => []PrivateConnections`.  What a process holds is not inductive: a
  connection that the reaper has taken out of the pool is still in `cur` and returns to the pool
  when the query on it ends, so the invariant (`PrivateInv`) is about `Known`, which includes
  `cur`.  `KnownGrows` shows that a process only gets to know free connections, for which
  `RootInv` is needed: without persistence the parent has nothing a child could inherit;
* `PoolBooksHold`: `Spec => []PoolBooks`, from `ProcInv`, which says where `cur` is set and that
  a connection in it has not been lost before;
* `FailoverIsComplete`: `Spec => FailoverComplete`.  The invariant `Tried` says that
  when the loop is at an element of the list, all hosts before it have been tried;
* `SqlReconnectsHold`: `Spec => []SqlReconnects`, and `AbortsExplained`: `Spec => []AbortExplained`.
  Both follow from `CalmInv`, about a process whose host was there since the query began and whose
  connections nobody closed: once the reaper has run, an idle connection is dead only in a pool that
  is down to its initial ones, and one more try then meets a dead one of those or finds the pool
  full.  `ServerInv` adds that a connection leads to the host of its pool or nowhere,
  and `SizeInv` that a pool keeps its size.  The reaper must run at least once within the tries,
  which is the assumption on `ReapEvery` (5 and 30 in the code).  `Undisturbed` says what the other
  processes may do to these connections;
* `ReaperThreadHolds`: `Spec => []ReaperThreadIdle`, which is why the reaper thread has no action.
  `OpenInv` says that a persistent child never connects, and the last part of `SizeInv` that everybody
  else never gets more idle connections than the pool began with.

For `Lookup`, `IndInv` is the conjunction of these parts.  A step is one process's own or one of the hosts
(`NextCases`), and a process changes only its own variables (`OwnOnly`), so that each part is
shown for the process that moves.

`EngineProofs` begins with the lemmas about `ModuleQueue` that both engines use.  `QueueInv` says
which files exist at each position (`FilesInv`), which marks the spool file, the temporary file and
the message in memory must have (`MarksInv`), and who answers for the message (`DecidedInv`).  Every
step of the queue keeps it, whatever the settings.  On it rest, for every set of modules,
recipients, sizes and any number of faults:

* for the smtpd engine `SessionTypesHold` (`[]TypeOK`), `EditsReachNexthop` (`[]EditsDelivered`),
  `SpoolIsClean` (`[]SpoolClean`) and `HandoverImplemented` (`Spec => ImplementsHandover`).  The
  invariant adds where the dialogue and the queue are at the same time (`PlacesInv`);
* for the pipe engine `FilesAreRemoved` (`[]FilesRemoved`) and `PipeHandoverImplemented`
  (`PipeSpec => PipeImplementsHandover`), with `LoadInv` for the steps of `load()`.

The refinements go through the actions one by one: each is a step of `MessageHandover` or leaves
its three variables alone.  That an answer is not given twice, and none before somebody has the
message, needs `DecidedInv`.

`NexthopProofs` proves, for every set of recipients and hosts: `ToldHolds` (`[]Told`, from
`ToldInv`: who is accounted for at each step of `smf_smtp_deliver`), `HopHolds` (`[]HopNamed`, from
`HopInv`: what the envelope holds at each position, before a module names a nexthop and after) and
`NothingStaysOpen` (`[]NothingOpen`, from
`OpenInv`: what is open at each position).

`UserDataProofs` proves, for every set of addresses and entries, every relation between them and
every directory:

* `EverybodyIsFetched`: `Spec => []EverybodyFetched`.  While the addresses of an envelope are
  fetched, whoever is expected is local already or still to be queried (`FetchInv`);
* `DataIsOwn`: `Spec => []OwnData`, from what `UserResult` chooses of a result;
* `AnswersAreStable`: `Spec => AnswersStable`, an action property: `local_users` only grows at its end
  while a session lasts, and the first entry for an address is the one that is found.

`StartupProofs` proves, for every file and all readings of texts: `ToldCorrectly`
(`[]StatusTold`) and `PreparedHolds` (`[]Prepared`).  The invariant has the types of the settings,
what the processes have done at each position (`ProcessInv`), and what of `Usable` the checks
passed so far have established (`UsableInv`): each check of the file is the only thing that lets
the next position be reached, and no later step undoes it.

On it rests what is proved of the settings, in the second half of `StartupProofs`:

* `LastRequestHolds`: `Spec => []LastRequestCounts`, where `LastRequestCounts` reads the file and the
  calls of setters without running the parser.  It is not inductive: before the checks that
  follow the last line no default is set yet (`TextRead` against `TextRight`), the value of an
  option of a fixed set may dangle after a wrong choice (`Dangles`), the section a line belongs to
  is that of an earlier line (`SectionInv`), and what is appended to a list by setters is found
  by counting the calls before it (`ListRight`).  The invariant also holds of a process that
  crashed, for which the property asks nothing: a step that may crash stores what it stores else;
* `CrashesExplained`: `Spec => []CrashExplained`.  A dangling value has more than one line of the file
  behind it and a wrong one among them; the other two reasons are read off the state the crash
  happens in;
* `StartupTypesHold`: `Spec => []TypeOK` of `Startup`.  That each option has its type follows from
  `LastRequestCounts`' invariant and the types of the lines; `ProcessParts` adds the processes.

`DataProofs` proves, for every set of messages over any tokens, both line ends, any required headers,
and every MAXLINE and size of the buffer: `DataTypesHold` (`[]TypeOK`), `BodyIsKept`
(`[]BodyKept`) and `HeadersAreOnce` (`[]HeadersOnce`).

* `ContentInv` follows the message line by line.  While lines are read there is a number k of lines
  that were taken whole: the spool file is those k as the client meant them, and the flags are what
  they hold (`Taken`); the characters after them, up to where the reader is in the stream, are in
  `buf` (`InLine`).  From the last dot on the spool file is `Whole`: up to its first blank line it has
  the client's header with each required header added where it was missing, and after it the body.
  `Whole` is kept by the headers that a module edits.
* That the stream has its lines where the model expects them is shown without recursion:
  `FlattenLeads` and `WrittenLeads` say that the first k lines are the first k - 1 and the k-th, and
  the rest follows from k to k + 1.  `AllNaturals` is what stands in for the library's induction
  theorem, which takes an operator: a set of naturals with 0 and every successor has no least
  number missing.
* A line is found in the stream by its end, as no token is one (`LineIsRead`); stuffing and
  unstuffing cancel, and only the last line is a dot alone (`StreamLine`, `TakeOne`).  That the header
  ends at the first blank line is `HeaderOf`; how often a header is in it is counted over the
  added lines and the client's (`CountAppend`, `AddedCounts`).

`SmfDictProofs` proves, for every set of keys and values, every hash function and every size:

* `CountHolds`: `Spec => []CountRight`, and `UniqueHolds`: `Spec => []KeysUnique`.  The inductive
  invariant adds `n <= size` and `EntriesRight` (the hash beside a key is its own, else the search
  would miss it).  `InsertEffect` shows that an empty slot exists and is found: fewer than `size`
  slots are in use;
* `MapImplemented`: `Spec => ImplementsMap`.  `ContentsAre` reads the map off the slots; each
  operation is then one of `DictMap` (`SetMaps`, `RemoveMaps`, `ReadsMap`).

The argument is the usual one in all modules: each invariant holds initially, each action keeps
it, one lemma per group of actions; counting uses the library's theorems on cardinality.
Assumptions are the named ones of the modules, which TLC evaluates in every run: `SpmServer` (pids
are finitely many and are not the parent or -1; limits are naturals), `Lookup` (the parent is no
child, sockets are finitely many and not 0, limits are positive, the reaper runs within the tries),
`SmfDict` (NULL is no key or value, the arrays start with at least one slot), `ModuleQueue` and
`SmtpSession` (bounds are naturals, settings have their types), `UserData` (sentinels are no
addresses or entries, entries are finitely many, an LDAP backend comes with LDAP), `Nexthop` (NULL
and the path are no hosts), `SmtpData` (`DataAssumption`: MAXLINE and the buffer have a size;
`TokensAssumption`: lines have no line ends within, required headers are names with a colon, different
ones and not `X-Module:`), `SmfSettings` (`SettingsAssumption`: texts are not NULL and not the freed
pointer, and are read as numbers, booleans and lists of texts; `FilesAssumption`: a file is a
sequence of lines; `KeysAssumption`: the reply codes are no names of other options, and the sections
of modules are not those of spmfilter).

Only model-checked: liveness (liveness under fairness is beyond this prover).  Every safety
property and every refinement that a passing run checks is also one of the theorems above.

## 5. Plan

1. Done: the daemon, the queue and both engines, the abstract promise, the content of a message, the
   nexthop, the lookups, the user data, the settings and the start-up, the dictionary; proofs of
   every safety property.
2. The `fclose()` of the spool file in `Flush`, with the properties made conditional on it.

Not modelled: the text of replies and log lines, and the conversions of texts to numbers; trace
(output only) and MD5 (third-party code); the wrappers around libcmime objects and lists; Berkeley
DB lookups, which open, use and close a file within one call; the POSIX variant of the semaphore;
helpers for strings and file names; the unloading of modules.  libesmtp, libzdb, libldap and
libcmime are external and only their outcomes appear.
