---------------------------- MODULE ScanReports ----------------------------
(***************************************************************************)
(* What the scanners of src/src/scanner.rs and scanner_extra*.rs report of *)
(* a machine: each asks Windows for some settings, gets a text of several  *)
(* lines and pushes messages about them.  A report is a set of messages,   *)
(* as baseline.rs makes one of it; the order does not matter there.        *)
(*                                                                         *)
(* An entry is a line of the text (or a file, a shortcut, an extension):   *)
(*   on     the scanner takes it into account: the kind of value, the      *)
(*          name, the extension it looks for                               *)
(*   bad    one of the rules or another pattern of the scanner matches     *)
(*   mark   a second distinction that some scanners make                   *)
(*   more   a third one                                                    *)
(*   failed what the scanner asks of it, or of all, gets no answer         *)
(*   group  the browser, profile, key or text it comes from                *)
(*   also   the part of it that something else than its line is about: the *)
(*          whole of a COM value, the address an extension comes from, the *)
(*          domain with its database                                       *)
(*   shown  what compact leaves of it in a message, with its label: two    *)
(*          texts that begin alike may be shown alike                      *)
(* The last two are numbers that keep the order of the texts.  The answer  *)
(* of a program that could not be asked is empty: the scanners do not tell *)
(* the two apart.  A message is a tag, which stands for its wording and    *)
(* begins with its bracket, and what is inserted.                          *)
(***************************************************************************)
EXTENDS Integers, Sequences, FiniteSets

CONSTANTS
  Cap     \* how many entries are listed: Cap[n] stands for the n of the code

(* Every list has room for an entry. *)
ASSUME CapAssumption ==
  /\ {4, 5, 6, 8, 12, 15, 20, 25, 30, 35} \subseteq DOMAIN Cap
  /\ \A n \in DOMAIN Cap : Cap[n] \in Nat \ {0}

TextEntries == [on : BOOLEAN, bad : BOOLEAN, mark : BOOLEAN, more : BOOLEAN, failed : BOOLEAN,
                group : Nat, also : Nat, shown : Nat]

OnOnes == {e \in TextEntries : e.on}
OffOnes == {e \in TextEntries : ~e.on}
BadOnes == {e \in TextEntries : e.on /\ e.bad}
GoodOnes == {e \in TextEntries : e.on /\ ~e.bad}
MarkedOnes == {e \in TextEntries : e.mark}
PlainOnes == {e \in TextEntries : ~e.mark}
MoreOnes == {e \in TextEntries : e.more}
OtherOnes == {e \in TextEntries : ~e.more}
FailedOnes == {e \in TextEntries : e.failed}
AnsweredOnes == {e \in TextEntries : ~e.failed}

(* The entries of a text that are in K, in their order.  It is what        *)
(* SelectSeq returns for membership in K, as a recursive function.         *)
Select(s, K) ==
  LET kept[i \in 0 .. Len(s)] ==
        IF i = 0 THEN <<>>
        ELSE IF s[i] \in K THEN Append(kept[i - 1], s[i]) ELSE kept[i - 1]
  IN  kept[Len(s)]

On(s) == Select(s, OnOnes)
Off(s) == Select(s, OffOnes)
Bad(s) == Select(s, BadOnes)
Good(s) == Select(s, GoodOnes)
Marked(s) == Select(s, MarkedOnes)
Plain(s) == Select(s, PlainOnes)
More(s) == Select(s, MoreOnes)
Others(s) == Select(s, OtherOnes)
Failed(s) == Select(s, FailedOnes)
Answered(s) == Select(s, AnsweredOnes)
Of(s, g) == Select(s, {e \in TextEntries : e.group = g})

Groups(s) == {s[i].group : i \in DOMAIN s}
First(s, n) == SubSeq(s, 1, IF Len(s) < n THEN Len(s) ELSE n)

Lines(tag, s) == {<<tag, s[i].shown>> : i \in DOMAIN s}
Sources(tag, s) == {<<tag, s[i].also>> : i \in DOMAIN s}
Counts(tag, s) == {<<tag, <<g, Len(Of(s, g))>>>> : g \in Groups(s)}
Says(tag) == {<<tag>>}
Message(tag, content) == {<<tag, content>>}
Totals(s) == Message("info totals", <<Len(On(s)), Len(Bad(s))>>)
When(condition, report) == IF condition THEN report ELSE {}

(* Bad entries, n of them at most, and how many there are of each kind. *)
Judge(s, n) == Lines("warn", First(Bad(s), n)) \cup Totals(s)
JudgeAll(s) == Lines("warn", Bad(s)) \cup Totals(s)

Readable(s, report) == IF s = <<>> THEN Says("info unread") ELSE report

-----------------------------------------------------------------------------
(* scanner.rs *)

(* failed: the file could not be read; one without entries is in order. *)
ScanHosts(s) ==
  IF Failed(s) # <<>> THEN Says("info unread")
  ELSE IF On(s) = <<>> THEN Says("ok")
  ELSE Lines("item", First(On(s), Cap[4])) \cup Message("warn", Len(On(s)))

(* on: the value ProxyEnable is 1; shown: the server. *)
ScanProxy(s) == IF On(s) = <<>> THEN Says("ok") ELSE Message("warn", On(s)[1].shown)

ScanDns(s) == IF On(s) = <<>> THEN Says("info none") ELSE Message("info", Len(On(s)))

ScanRegistryAutoruns(s) == JudgeAll(s)

(* bad: the path, or one of the script extensions at its end. *)
ScanStartupFolders(s) == JudgeAll(s)

ScanServices(s) == Readable(s, JudgeAll(s))

(* The first line is the title of the table and is not counted. *)
ScanScheduledTasks(s) ==
  LET total == IF Len(On(s)) > 0 THEN Len(On(s)) - 1 ELSE 0
  IN  Readable(s, Lines("warn", Bad(s)) \cup Message("info", <<total, Len(Bad(s))>>))

(* on: an extension of Chrome, Edge or Firefox, 0 to 2; mark: a value of   *)
(* one of the four policies that install one.                              *)
ScanBrowserExtensions(s) ==
  Message("info", [browser \in 0 .. 2 |-> Len(Of(On(Plain(s)), browser))])
    \cup Counts("check", Marked(s))

-----------------------------------------------------------------------------
(* scanner_extra.rs and scanner_extra2.rs *)

ScanServiceDlls(s) == Readable(s, JudgeAll(s))

ScanIfeoDebuggers(s) == IF s = <<>> THEN Says("ok") ELSE JudgeAll(s) \cup Lines("check", Good(s))

(* Every line counts. *)
Patterns(s, n) ==
  Readable(s, IF Bad(s) = <<>> THEN Says("info none")
              ELSE Lines("warn", First(Bad(s), n)) \cup Message("info", Len(Bad(s))))

ScanBitsJobs(s) == Patterns(s, Cap[5])
ScanWinsock(s) == Patterns(s, Cap[5])

(* The first entries, bad or not, after their number. *)
Inventory(s, n, other) ==
  Message("check number", Len(On(s))) \cup Lines("warn", Bad(First(On(s), n)))
                                      \cup Lines(other, Good(First(On(s), n)))

ScanWmiPersistence(s) ==
  IF On(s) = <<>> THEN Says("info none") ELSE Inventory(s, Cap[5], "item")

(* mark: a setting of Internet Explorer, which is only told. *)
ScanBrowserPolicies(s) ==
  IF On(s) = <<>> THEN Says("info none")
  ELSE Lines("check", Plain(On(s))) \cup Lines("info", Marked(On(s)))

(* mark: the logon script, and the Startup folder if its path is bad; both *)
(* are left out of the number.                                             *)
ScanEnvironment(s) ==
  LET values == Plain(s)
  IN  Lines("warn", First(Bad(values), Cap[8])) \cup Message("info", Len(Bad(values)))
      \cup Lines("warn logon", Bad(Marked(s))) \cup Lines("check logon", Good(Marked(s)))

ScanFileAssociations(s) == JudgeAll(s)
ScanUninstallEntries(s) == Judge(s, Cap[8])

(* mark: the shortcut has an address for an argument. *)
ScanBrowserShortcuts(s) == Judge(s, Cap[8]) \cup Lines("check", Marked(Good(s)))

ScanIeElevationPolicy(s) == Judge(s, Cap[6])

-----------------------------------------------------------------------------
(* scanner_extra3.rs and scanner_extra4.rs *)

ScanActiveSetup(s) == JudgeAll(s)

(* on: a value; the scan returns at the thirtieth bad one. *)
ScanUserCom(s) ==
  LET values == On(s)
      Stops(n) == Len(Bad(SubSeq(values, 1, n))) = Cap[30]
  IN  IF \E n \in DOMAIN values : Stops(n) THEN
        LET stop == CHOOSE n \in DOMAIN values : Stops(n) /\ \A k \in 1 .. n - 1 : ~Stops(k)
        IN  Lines("warn", Bad(SubSeq(values, 1, stop)))
            \cup Says("info more") \cup Message("info least", stop)
      ELSE JudgeAll(s)

(* on: a program with the attribute hidden; bad: the attribute system, too. *)
ScanHiddenExecutables(s) ==
  LET shown == First(On(s), Cap[20])
  IN  Lines("warn", Bad(shown)) \cup Lines("check", Good(shown)) \cup Totals(s)

(* on: a site that may notify, counted in its profile; failed: the folder  *)
(* of the profiles is not known.                                           *)
ScanBrowserNotifications(s) ==
  IF Failed(s) # <<>> THEN Says("info unknown")
  ELSE IF On(s) = <<>> THEN Says("info none")
  ELSE Counts("check", On(s)) \cup Message("info", Len(On(s)))

(* on: a process with the name of one of Windows; bad: started elsewhere. *)
ScanFakeSystemProcesses(s) == Readable(s, JudgeAll(s))

ScanNumericSystemFiles(s) == Lines("check", First(On(s), Cap[30])) \cup Message("info", Len(On(s)))

(* on: a file Registry.pol; bad: it contains a token of the rules. *)
ScanGroupPolicyRegistry(s) == Lines("check", Bad(s)) \cup Totals(s)

(* bad: an unusual identifier; mark: updated from elsewhere; more: it has  *)
(* a background page; failed: the folder of the profiles is not known.     *)
ScanExtensionMetadata(s) ==
  LET all == On(s)
  IN  When(Failed(s) = <<>>,
           Lines("check id", Bad(all)) \cup Sources("check url", Marked(all))
           \cup Message("info", <<Len(all), Len(Bad(all)), Len(Marked(all)), Len(More(all))>>))

-----------------------------------------------------------------------------
(* scanner_extra5.rs and scanner_extra6.rs *)

(* on: a service or driver with a path; bad: the path; mark: a driver that *)
(* is not in the folder of drivers; more: started by Windows itself.       *)
ScanServiceDrivers(s) ==
  LET all == On(s)
  IN  Readable(s,
        Lines("warn", Bad(all)) \cup Lines("check", First(Marked(all), Cap[20]))
        \cup Message("info",
                     <<Len(all), Len(Bad(all)), Len(More(Bad(all))), Len(Marked(all))>>))

(* on: an extension; bad: active and not signed; mark: from another site   *)
(* than Mozilla's.  Of the others, mark is a value of one of the two       *)
(* policies and more a profile.                                            *)
ScanFirefox(s) ==
  LET all == On(s)
      policies == Marked(Off(s))
      profiles == More(Off(s))
  IN  Lines("check", First(Bad(all), Cap[20]))
      \cup Sources("check url", First(Marked(all), Cap[20]))
      \cup Counts("check policy", policies)
      \cup Message("info", <<Len(profiles), Len(all), Len(Bad(all)), Len(Marked(all)),
                             Len(policies)>>)

(* failed: the folder of the profiles is not known. *)
ScanNotificationOrigins(s) ==
  When(Failed(s) = <<>>,
       Lines("check", First(On(s), Cap[30])) \cup Message("info", Len(On(s))))

(* The values found are a set, counted and ordered by their whole text. *)
ScanMachineCom(s) ==
  LET hits == {<<On(s)[i].also, On(s)[i].shown>> : i \in DOMAIN On(s)}
      n == Cardinality(hits)
      listed == {h \in hits : Cardinality({k \in hits : k[1] < h[1]}) < Cap[30]}
  IN  IF hits = {} THEN Says("info none")
      ELSE {<<"check", h[2]>> : h \in listed}
           \cup Message("check number", n) \cup When(n > Cap[30], Message("info more", n - Cap[30]))

ScanAppPaths(s) == Judge(s, Cap[25])

(* on: the file is there and a rule matches the command; more: it is gone  *)
(* when it is checked; failed: there is no answer; mark: signed; bad: the  *)
(* signature is not valid, neither marked nor bad: there is none.          *)
ScanFileSignatures(s) ==
  LET checked == Others(First(On(s), Cap[12]))
      answered == Answered(checked)
  IN  IF On(s) = <<>> THEN Says("info none")
      ELSE Message("info", Len(On(s)))
           \cup Message("info signed",
                        <<Len(checked), Len(Marked(answered)),
                          Len(Plain(Good(answered))), Len(Plain(Bad(answered)))>>)
           \cup Lines("info failed", Failed(checked))
           \cup Lines("valid", Marked(answered))
           \cup Lines("warn", Plain(Bad(answered)))
           \cup Lines("check", Plain(Good(answered)))

-----------------------------------------------------------------------------
(* scanner_extra7.rs and scanner_extra8.rs *)

(* on: a proxy setting; mark: AutoConfigURL or ProxyServer. *)
ScanProxyPac(s) ==
  IF On(s) = <<>> THEN Says("info none")
  ELSE Lines("warn", Bad(s)) \cup Lines("check", Marked(Good(s)))

(* on: a line that is not blank; mark: the one that says direct access. *)
ScanWinhttpProxy(s) ==
  LET first == First(On(s), Cap[4])
  IN  IF On(s) = <<>> THEN Says("info unread")
      ELSE IF Marked(On(s)) # <<>> THEN Says("ok")
      ELSE Message("check", [i \in DOMAIN first |-> first[i].shown])

ScanFirewallRules(s) == Judge(s, Cap[25])

ScanPolicyAutoruns(s) ==
  IF On(s) = <<>> THEN Says("info none") ELSE Lines("warn", Bad(s)) \cup Lines("check", Good(s))

(* group: one of the four keys. *)
ScanExecutionRestrictions(s) ==
  Counts("check", On(s))
    \cup UNION {Lines("warn", First(Bad(Of(On(s), key)), Cap[6])) : key \in Groups(On(s))}

(* on: a line that is not blank, as in the next two; group: its key. *)
ScanSaferPolicy(s) ==
  When(On(s) # <<>>, Lines("warn", First(Bad(s), Cap[20]))
                     \cup Message("info", <<Cardinality(Groups(On(s))), Len(Bad(s))>>))

ScanSafebootOverrides(s) ==
  When(On(s) # <<>>,
       IF Bad(s) = <<>> THEN Says("info none") ELSE Lines("warn", First(Bad(s), Cap[20])))

ScanMozillaPlugins(s) == When(On(s) # <<>>, Judge(s, Cap[20]))

(* mark: an origin in DOMStorage, whose key itself is not counted. *)
ScanIeSearchAndStorage(s) ==
  LET urls == Plain(s)
  IN  When(On(urls) # <<>>, JudgeAll(urls))
      \cup When(Len(Marked(s)) > 1, Message("info origins", Len(Marked(s)) - 1))

ScanIpsecPolicy(s) ==
  LET suspicious == First(Bad(s), Cap[8])
  IN  When(On(s) # <<>>, IF suspicious = <<>> THEN Says("info there")
                         ELSE Message("warn", Len(suspicious)) \cup Lines("item", suspicious))

ScanAppcertDlls(s) == When(On(s) # <<>>, Inventory(s, Cap[15], "check"))

(* How many domains of a text are told; the texts are numbered so that    *)
(* they are keys and tasks, profiles, and manifests of extensions by turns. *)
Room(text) ==
  IF text % 3 = 0 THEN Cap[20] ELSE IF text % 3 = 1 THEN Cap[35] ELSE Cap[25]

(* inspect_text, text after text, as a recursive function: a hit is told   *)
(* if the same one was not told before and its text has room for it.       *)
InspectTexts(hits) ==
  LET told[i \in 0 .. Len(hits)] ==
        IF i = 0 THEN {}
        ELSE IF \/ \E h \in told[i - 1] : h.also = hits[i].also
                \/ Cardinality({h \in told[i - 1] : h.group = hits[i].group})
                     >= Room(hits[i].group)
             THEN told[i - 1] ELSE told[i - 1] \cup {hits[i]}
  IN  told[Len(hits)]

(* on: a token of a text, bad: its domain is in an index (FeedIndex); its  *)
(* line has the name of the text, the domain and the database.  mark: a    *)
(* status line of a database.                                              *)
ScanDatabases(s) ==
  LET told == InspectTexts(Bad(s))
  IN  Lines("db", Marked(s)) \cup {<<"warn", <<h.also, h.shown>>>> : h \in told}
      \cup IF told = {} THEN Says("ok") ELSE Message("info", Cardinality(told))

-----------------------------------------------------------------------------

(* What each of the scanners makes of a text. *)
Reports(s) == [
  hosts |-> ScanHosts(s),
  proxy |-> ScanProxy(s),
  dns |-> ScanDns(s),
  registry_autoruns |-> ScanRegistryAutoruns(s),
  startup_folders |-> ScanStartupFolders(s),
  services |-> ScanServices(s),
  scheduled_tasks |-> ScanScheduledTasks(s),
  browser_extensions |-> ScanBrowserExtensions(s),
  service_dlls |-> ScanServiceDlls(s),
  ifeo_debuggers |-> ScanIfeoDebuggers(s),
  bits_jobs |-> ScanBitsJobs(s),
  winsock |-> ScanWinsock(s),
  wmi_persistence |-> ScanWmiPersistence(s),
  browser_policies |-> ScanBrowserPolicies(s),
  environment_and_logon |-> ScanEnvironment(s),
  file_associations |-> ScanFileAssociations(s),
  uninstall_entries |-> ScanUninstallEntries(s),
  browser_shortcuts |-> ScanBrowserShortcuts(s),
  ie_elevation_policy |-> ScanIeElevationPolicy(s),
  active_setup |-> ScanActiveSetup(s),
  user_com_persistence |-> ScanUserCom(s),
  hidden_executables |-> ScanHiddenExecutables(s),
  browser_notifications |-> ScanBrowserNotifications(s),
  fake_system_processes |-> ScanFakeSystemProcesses(s),
  numeric_system_files |-> ScanNumericSystemFiles(s),
  group_policy_registry |-> ScanGroupPolicyRegistry(s),
  extension_metadata |-> ScanExtensionMetadata(s),
  service_driver_combinations |-> ScanServiceDrivers(s),
  firefox_extensions |-> ScanFirefox(s),
  notification_origins |-> ScanNotificationOrigins(s),
  machine_com_targets |-> ScanMachineCom(s),
  app_paths |-> ScanAppPaths(s),
  suspicious_file_signatures |-> ScanFileSignatures(s),
  proxy_pac |-> ScanProxyPac(s),
  winhttp_proxy |-> ScanWinhttpProxy(s),
  firewall_rules |-> ScanFirewallRules(s),
  policy_autoruns |-> ScanPolicyAutoruns(s),
  execution_restrictions |-> ScanExecutionRestrictions(s),
  safer_policy |-> ScanSaferPolicy(s),
  safeboot_overrides |-> ScanSafebootOverrides(s),
  mozilla_plugins |-> ScanMozillaPlugins(s),
  ie_search_and_storage |-> ScanIeSearchAndStorage(s),
  ipsec_policy |-> ScanIpsecPolicy(s),
  appcert_dlls |-> ScanAppcertDlls(s),
  databases |-> ScanDatabases(s)]

Scanners == DOMAIN Reports(<<>>)
=============================================================================
