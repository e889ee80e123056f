---------------------------- MODULE UpdateCheck ----------------------------
(***************************************************************************)
(* The search for an update (src/src/network/update_check.cpp) and the     *)
(* banner that announces one (src/src/media/renderer.cpp): the window's    *)
(* thread starts a worker, at launch or because the user asks, and draws   *)
(* what it left; a latch admits one worker at a time.                      *)
(*                                                                         *)
(* A version's name is a sequence of numbers, which are not negative, and  *)
(* of the characters below.                                                *)
(***************************************************************************)
EXTENDS Integers, SequencesExt, FiniteSetsExt

CONSTANT MaxChecks   \* times the program looks for an update

Dot == -1  SmallV == -2  CapitalV == -3  Other == -4
Huge == -5  \* a number no int holds

VARIABLES
    in_progress,  \* update_check_in_progress_
    workers,      \* the worker threads there have been
    latest, url,  \* update_latest_version_ and update_release_url_
    banner,       \* update_banner_active_
    drawn,        \* <<>>, or what the banner's textures say
    cached,       \* update_line1_cached_ is what they say
    toast,        \* the toast shown last
    opened,       \* <<>>, or the link the user has opened
    gone          \* the renderer has been destroyed

updateVars == <<in_progress, workers, latest, url, banner, drawn, cached, toast, opened, gone>>

-----------------------------------------------------------------------------
(* update_check.cpp                                                        *)

Current == <<0, 6, 2>>

\* parse_semver(): numbers between dots, after a v, up to what is neither; none is
\* zero, as is one that is too large for std::stoi().
Unprefixed(name) ==
    IF name # <<>> /\ name[1] \in {SmallV, CapitalV} THEN Tail(name) ELSE name
Numeric(s) ==
    LET ends == {i \in DOMAIN s : s[i] \in {SmallV, CapitalV, Other}}
    IN  IF ends = {} THEN s ELSE SubSeq(s, 1, Min(ends) - 1)
Slot(s, k) ==
    LET at == {i \in DOMAIN s : s[i] # Dot /\ Cardinality({j \in 1 .. i - 1 : s[j] = Dot}) = k}
    IN  IF at = {} \/ s[Min(at)] = Huge THEN 0 ELSE s[Min(at)]
ParseSemver(name) ==
    LET s == Numeric(Unprefixed(name)) IN <<Slot(s, 0), Slot(s, 1), Slot(s, 2)>>

\* Mutant: any number that is larger makes the version newer.
IsNewerSomewhere(a, b) == \E i \in 1 .. 3 : a[i] > b[i]

\* is_newer()
IsNewer(a, b) ==
    \/ a[1] > b[1]
    \/ a[1] = b[1] /\ a[2] > b[2]
    \/ a[1] = b[1] /\ a[2] = b[2] /\ a[3] > b[3]

\* Mutant: the last field of the name.
LastField(body, key) ==
    LET at == {i \in DOMAIN body : body[i][1] = key}
    IN  IF at = {} THEN <<>> ELSE body[Max(at)][2]

\* extract_string_field(): the first one of the name, at any depth; or nothing.
ExtractField(body, key) ==
    LET at == {i \in DOMAIN body : body[i][1] = key}
    IN  IF at = {} THEN <<>> ELSE body[Min(at)][2]

\* What https_get() may return: no answer, a status that is not 200, or the list
\* of releases, which is empty or in which the newest comes first and every
\* release names its page before its author's and its tag.
Page(tag) == <<"page", tag>>
Release(tag) ==
    <<<<"html_url", Page(tag)>>, <<"html_url", <<"author">>>>, <<"tag_name", tag>>>>
Tags ==
    {<<SmallV, 0, Dot, 6, Dot, 2>>, <<SmallV, 0, Dot, 6, Dot, 3>>, <<CapitalV, 0, Dot, 10>>,
     <<1, Dot, 0, Dot, 0, Other, 2>>, <<SmallV, 0, Dot, 5, Dot, 9, Other, 9>>,
     <<SmallV, Huge, Dot, 7, Dot, 0>>, <<Other, 2>>}
Answers ==
    {[status |-> 0, body |-> <<>>], [status |-> 403, body |-> <<<<"message", <<"limit">>>>>>],
     [status |-> 200, body |-> <<>>]}
        \cup {[status |-> 200, body |-> Release(t)] : t \in Tags}

\* check_for_update(): the name loses its v, if it is a small one.
Failure == [ok |-> FALSE, latest |-> <<>>, url |-> <<>>, available |-> FALSE]
CheckForUpdate(answer) ==
    LET tag == ExtractField(answer.body, "tag_name")
        html == ExtractField(answer.body, "html_url")
    IN  IF answer.body = <<>> \/ answer.status # 200 \/ tag = <<>> THEN Failure
        ELSE [ok |-> TRUE, latest |-> IF tag[1] = SmallV THEN Tail(tag) ELSE tag,
              url |-> IF html = <<>> THEN <<"latest">> ELSE html,
              available |-> IsNewer(ParseSemver(tag), Current)]

-----------------------------------------------------------------------------
(* Renderer                                                                *)

Init ==
    /\ in_progress = FALSE /\ workers = <<>>
    /\ latest = <<>> /\ url = <<>>
    /\ banner = FALSE /\ drawn = <<>> /\ cached = FALSE
    /\ toast = "" /\ opened = <<>> /\ gone = FALSE

bannerVars == <<latest, url, banner, drawn, cached, toast, opened>>

\* Mutant: the latch is not asked.
CheckAnyway(manual) ==
    /\ ~gone /\ Len(workers) < MaxChecks
    /\ in_progress' = TRUE
    /\ workers' = Append(workers, [at |-> "ask", manual |-> manual, result |-> Failure,
                                   told |-> FALSE])
    /\ UNCHANGED <<bannerVars, gone>>

\* check_for_update_async(): with a worker at work nothing happens.
Check(manual) ==
    /\ ~gone /\ ~in_progress /\ Len(workers) < MaxChecks
    /\ in_progress' = TRUE
    /\ workers' = Append(workers, [at |-> "ask", manual |-> manual, result |-> Failure,
                                   told |-> FALSE])
    /\ UNCHANGED <<bannerVars, gone>>

\* At launch.
Launch == workers = <<>> /\ Check(FALSE)
\* The link of the version panel, or the button of the info panel.
ClickCheck == workers # <<>> /\ Check(TRUE)

Step(w, from, to) == workers[w].at = from /\ workers' = [workers EXCEPT ![w].at = to]

\* The worker has an answer.
Answer(w) ==
    /\ workers[w].at = "ask"
    /\ \E answer \in Answers :
        workers' = [workers EXCEPT ![w].at = "store", ![w].result = CheckForUpdate(answer)]
    /\ UNCHANGED <<in_progress, bannerVars, gone>>

\* Mutant: the link is kept if the check had none.
StoreKeeping(w) ==
    /\ Step(w, "store", "tell")
    /\ latest' = workers[w].result.latest
    /\ url' = IF workers[w].result.available THEN workers[w].result.url ELSE url
    /\ UNCHANGED <<in_progress, banner, drawn, cached, toast, opened, gone>>

\* Under update_check_mutex_.
Store(w) ==
    /\ Step(w, "store", "tell")
    /\ latest' = workers[w].result.latest
    /\ url' = workers[w].result.url
    /\ UNCHANGED <<in_progress, banner, drawn, cached, toast, opened, gone>>

\* Mutant: only the launch is silent about a version that is not newer.
TellAll(w) ==
    LET r == workers[w].result IN
    /\ workers[w].at = "tell"
    /\ workers' = [workers EXCEPT ![w].at = "release", ![w].told = r.ok \/ workers[w].manual]
    /\ banner' = (banner \/ r.ok) /\ cached' = (cached /\ ~r.ok)
    /\ toast' = IF ~r.ok /\ workers[w].manual THEN "failed" ELSE toast
    /\ UNCHANGED <<in_progress, latest, url, drawn, opened, gone>>

\* The worker shows the banner, or a toast if the user has asked.
Tell(w) ==
    LET r == workers[w].result  found == r.ok /\ r.available IN
    /\ workers[w].at = "tell"
    /\ workers' = [workers EXCEPT ![w].at = "release", ![w].told = found \/ workers[w].manual]
    /\ banner' = (banner \/ found)
    /\ cached' = (cached /\ ~found)
    /\ toast' = IF found \/ ~workers[w].manual THEN toast
                ELSE IF r.ok THEN "up to date" ELSE "failed"
    /\ UNCHANGED <<in_progress, latest, url, drawn, opened, gone>>

\* The worker ends.
Ends(w) ==
    /\ Step(w, "release", "off")
    /\ in_progress' = FALSE
    /\ UNCHANGED <<bannerVars, gone>>

\* Mutant: the textures are those of the first time.
DrawOnce ==
    /\ ~gone /\ banner
    /\ drawn' = IF drawn # <<>> THEN drawn ELSE <<latest>>
    /\ cached' = TRUE
    /\ UNCHANGED <<in_progress, workers, latest, url, banner, toast, opened, gone>>

\* draw_update_banner(): the textures are made again if the text is another.
Draw ==
    /\ ~gone /\ banner
    /\ drawn' = IF cached /\ drawn = <<latest>> THEN drawn ELSE <<latest>>
    /\ cached' = TRUE
    /\ UNCHANGED <<in_progress, workers, latest, url, banner, toast, opened, gone>>

\* The cross, and the link; where they are is known from the last drawing.
ClickClose ==
    /\ ~gone /\ banner /\ drawn # <<>>
    /\ banner' = FALSE
    /\ UNCHANGED <<in_progress, workers, latest, url, drawn, cached, toast, opened, gone>>
ClickLink ==
    /\ ~gone /\ banner /\ drawn # <<>>
    /\ banner' = FALSE
    /\ opened' = IF url = <<>> THEN <<"home">> ELSE url
    /\ UNCHANGED <<in_progress, workers, latest, url, drawn, cached, toast, gone>>

\* main() has returned; the worker is detached and nobody waits for it.
Quit == ~gone /\ gone' = TRUE /\ UNCHANGED <<in_progress, workers, bannerVars>>

Next ==
    \/ Launch \/ ClickCheck
    \/ \E w \in DOMAIN workers : Answer(w) \/ Store(w) \/ Tell(w) \/ Ends(w)
    \/ Draw \/ ClickClose \/ ClickLink \/ Quit

-----------------------------------------------------------------------------
(* Properties *)

TypeOK ==
    /\ {in_progress, banner, cached, gone} \subseteq BOOLEAN
    /\ toast \in {"", "failed", "up to date"}
    /\ Len(drawn) <= 1
    /\ \A w \in DOMAIN workers : workers[w].at \in {"ask", "store", "tell", "release", "off"}

\* The last check that has told its result, or 0.
LastTold ==
    LET told == {w \in DOMAIN workers : workers[w].at \in {"release", "off"}}
    IN  IF told = {} THEN 0 ELSE Max(told)

\* One worker is at work at a time: update_check_in_progress_ is the latch that
\* renderer.cpp:8702 relies on.  What a worker writes without a lock has one writer
\* among the workers; the window's thread shows toasts too (8748-8750), so that the
\* toast has two, against the comment at 8701-8703.
OneWriter == Cardinality({w \in DOMAIN workers : workers[w].at # "off"}) <= 1

\* The page and the version are always those of one check.
PageOfVersion ==
    \/ latest = <<>> /\ url = <<>>
    \/ url # <<>> /\ url[1] = "page" /\ latest \in {url[2], Tail(url[2])}

\* There is a banner only if a check has found a version that is newer; as long as
\* no later check has looked, it is about that one, and if it is drawn it says so.
BannerOfFound ==
    banner =>
        /\ \E w \in DOMAIN workers : workers[w].result.available
        /\ (LastTold = Len(workers) /\ workers[LastTold].result.available) =>
              /\ IsNewer(ParseSemver(latest), Current)
              /\ (drawn # <<>> /\ cached) => drawn = <<latest>>

\* A release whose tag begins with three numbers is announced exactly if it is later.
Later(tag) ==
    LET v == IF tag[1] \in {SmallV, CapitalV} THEN Tail(tag) ELSE tag
    IN  10000 * v[1] + 100 * v[3] + v[5] > 602
FoundIfLater ==
    \A w \in DOMAIN workers :
        LET r == workers[w].result IN
        (r.ok /\ Len(r.latest) >= 5 /\ Huge \notin ToSet(r.latest)) =>
            (r.available <=> Later(r.latest))

\* Whoever asks is told, once the check is over.
AskerTold ==
    \A w \in DOMAIN workers : workers[w].at = "off" /\ workers[w].manual => workers[w].told

\* Violated: the banner is always about a version that is newer; a later check
\* that fails takes its name away.
BannerAlwaysNewer == banner => IsNewer(ParseSemver(latest), Current)

\* Violated: no worker outlives the renderer it writes to.
NoWorkerLeft == gone => \A w \in DOMAIN workers : workers[w].at = "off"
=============================================================================
