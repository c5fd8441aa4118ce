---------------------------- MODULE CandleCache ----------------------------
(***************************************************************************)
(* The candles the API serves (api/data.py) and the files they are cached  *)
(* in by BybitHistoricalFetcher (data/bybit_fetcher.py) and                *)
(* BinanceHistoricalFetcher (data/historical_fetcher.py), one of which     *)
(* CacheStore takes from fetcher_factory.get_fetcher.  The endpoints are   *)
(* plain functions, so that requests for the same range run in threads of  *)
(* a pool, beside the forced ones of /data/prefetch and a deletion.        *)
(*                                                                         *)
(* One key is modelled: the bars 0..End of one symbol.  Bar `now` is the   *)
(* one still open, and what is downloaded of it will differ from the       *)
(* finished bar.  A frame is the bars a download brought, those of them    *)
(* that were open, the clock when it began, and whether it has outlived    *)
(* the TTL on disk.  A file under a writer's hands is Torn, and stays so   *)
(* when the process dies; a half-written CSV can still be read, as a Part. *)
(*                                                                         *)
(* MaxPage stands for the exchanges' 200 and 1000 bars per request and     *)
(* LastBar bounds the clock.                                               *)
(***************************************************************************)
EXTENDS Integers, FiniteSets, FiniteSetsExt

CONSTANTS Threads, End, MaxPage, LastBar, None, Torn, Part, Raised

VARIABLES
  exchange,   \* which fetcher serves the key
  endOpens,   \* the requested end is the very opening of bar End
  now,        \* the bar still open
  disk,       \* what the key's files hold
  meta,       \* the key's .meta.json: none, stale or unreadable, or fresh
  writers,    \* the threads with an open handle on a file
  mixed,      \* the files several handles write
  twofold,    \* both files have existed at once
  pc, frame,  \* where each request is and what it has downloaded
  answer      \* what this step has returned to a request, if it has

vars == <<exchange, endOpens, now, disk, meta, writers, mixed, twofold, pc, frame, answer>>
files == <<disk, meta, writers, mixed, twofold>>
setting == <<exchange, endOpens>>

Files == {"parquet", "csv"}
Bars == 0..End
Frame == [bars : SUBSET Bars, open : SUBSET Bars, began : 1..LastBar, old : BOOLEAN]
Since(clock) == [bars |-> {}, open |-> {}, began |-> clock, old |-> FALSE]
Nothing == Since(1)

TypeOK ==
  /\ exchange \in {"bybit", "binance"} /\ endOpens \in BOOLEAN
  /\ now \in 1..LastBar
  /\ disk \in [Files -> Frame \cup {None, Torn}]
  /\ meta \in {"none", "stale", "fresh"}
  /\ writers \in [Files -> SUBSET Threads] /\ mixed \subseteq Files /\ twofold \in BOOLEAN
  /\ pc \in [Threads -> {"idle", "load", "page", "save", "parquet", "fallback", "csv", "stamp",
                         "stamping"}]
  /\ frame \in [Threads -> Frame]
  /\ answer \in Frame \cup {None, Part, Raised}

Init ==
  /\ exchange \in {"bybit", "binance"}
  /\ endOpens \in BOOLEAN /\ (endOpens => exchange = "binance")
  /\ now = 1
  /\ disk = [f \in Files |-> None] /\ meta = "none"
  /\ writers = [f \in Files |-> {}] /\ mixed = {} /\ twofold = FALSE
  /\ pc = [t \in Threads |-> "idle"]
  /\ frame = [t \in Threads |-> Nothing]
  /\ answer = None

\* A request goes on, or returns: nothing is answered by any other step.
Goto(t, l) == pc' = [pc EXCEPT ![t] = l] /\ answer' = None
Return(t, a) == /\ pc' = [pc EXCEPT ![t] = "idle"]
                /\ frame' = [frame EXCEPT ![t] = Nothing]
                /\ answer' = a

\* Mutant: the TTL is not looked at.
AnyFile == \E f \in Files : disk[f] # None

\* _cache_is_fresh: a data file and a readable meta younger than the TTL.
IsFresh == meta = "fresh" /\ \E f \in Files : disk[f] # None

Fetch(t, force) ==
  /\ pc[t] = "idle"
  /\ Goto(t, IF ~force /\ IsFresh THEN "load" ELSE "page")
  /\ frame' = [frame EXCEPT ![t] = IF ~force /\ IsFresh THEN Nothing ELSE Since(now)]
  /\ UNCHANGED <<setting, now, files>>

\* _load_cache prefers parquet; what it raises the endpoint answers with 502.
Loaded == IF disk["parquet"] # None THEN "parquet" ELSE "csv"
LoadCache(t) ==
  /\ pc[t] = "load"
  /\ \E a \in IF disk[Loaded] = None THEN {Raised}
              ELSE IF disk[Loaded] # Torn THEN {disk[Loaded]}
              ELSE IF Loaded = "csv" THEN {Part, Raised} ELSE {Raised} :
       Return(t, a)
  /\ UNCHANGED <<setting, now, files>>

-----------------------------------------------------------------------------
(* One request to the exchange per step, the clock running meanwhile.      *)

Newest(hi) == Max({0, hi - MaxPage + 1})..hi
Oldest(lo, hi) == lo..Min({lo + MaxPage - 1, hi})

\* Mutant: the next page ends before the bar that was due.
SkipsOne(got) == Newest(Min({now} \cup (IF got = {} THEN {End} ELSE {Min(got) - 2})))

\* The exchange serves the range asked for as far as it has come.
BybitPage(got)   == Newest(Min({now} \cup (IF got = {} THEN {End} ELSE {Min(got) - 1})))
BinancePage(got) == Oldest(IF got = {} THEN 0 ELSE Max(got) + 1, Min({End, now}))

\* Bybit's pages go backwards from the end, Binance's forwards to it.
BybitStops(page)   == Cardinality(page) < MaxPage \/ 0 \in page
ReachesEnd(page)   == Max(page) + 1 > End \/ (endOpens /\ Max(page) + 1 = End)
BinanceStops(page) == Cardinality(page) < MaxPage \/ ReachesEnd(page)

Download(t) ==
  LET got  == frame[t].bars
      page == IF exchange = "bybit" THEN BybitPage(got) ELSE BinancePage(got)
  IN /\ pc[t] = "page"
     /\ frame' = [frame EXCEPT ![t].bars = got \cup page, ![t].open = @ \cup (page \cap {now})]
     /\ Goto(t, IF (IF exchange = "bybit" THEN BybitStops(page) ELSE BinanceStops(page))
                THEN "save" ELSE "page")
     /\ UNCHANGED <<setting, now, files>>

\* A request that fails raises, and nothing downloaded so far is kept.
DownloadFails(t) ==
  /\ pc[t] = "page"
  /\ Return(t, Raised)
  /\ UNCHANGED <<setting, now, files>>

-----------------------------------------------------------------------------
(* _save_cache: parquet, or else CSV, and the meta when the data is there. *)

\* Opening a file truncates it, whoever else has it open.
Create(t, f) ==
  /\ disk' = [disk EXCEPT ![f] = Torn]
  /\ writers' = [writers EXCEPT ![f] = @ \cup {t}]
  /\ mixed' = IF writers[f] = {} THEN mixed ELSE mixed \cup {f}
  /\ twofold' = (twofold \/ \A g \in Files \ {f} : disk[g] # None)
  /\ Goto(t, f)
  /\ UNCHANGED <<setting, now, meta, frame>>

CreateParquet(t) == pc[t] = "save" /\ Create(t, "parquet")
CreateCsv(t) == pc[t] = "fallback" /\ Create(t, "csv")

\* Without an engine for parquet (requirements.txt names none), or when the frame
\* cannot be converted, no file was touched.
NoParquet(t) ==
  /\ pc[t] = "save"
  /\ Goto(t, "fallback")
  /\ UNCHANGED <<setting, now, files, frame>>

\* A path is unlinked: handles that are open no longer reach it.
Remove(f) == /\ disk' = [disk EXCEPT ![f] = None]
             /\ writers' = [writers EXCEPT ![f] = {}]
             /\ mixed' = mixed \ {f}

Released(f, t) == /\ writers' = [writers EXCEPT ![f] = @ \ {t}]
                  /\ mixed' = IF writers[f] \subseteq {t} THEN mixed \ {f} ELSE mixed

\* The last to close leaves its frame, unless several wrote over one another.
Written(t) ==
  /\ pc[t] \in Files
  /\ \E c \in IF t \notin writers[pc[t]] THEN {disk[pc[t]]}
              ELSE {frame[t]} \cup IF pc[t] \in mixed THEN {Torn} ELSE {} :
       disk' = [disk EXCEPT ![pc[t]] = c]
  /\ Released(pc[t], t)
  /\ Goto(t, "stamp")
  /\ UNCHANGED <<setting, now, meta, twofold, frame>>

\* A write that fails leaves a torn file, but for a parquet file its writer may
\* remove; after the CSV nothing is left to try.
WriteFails(t) ==
  /\ pc[t] \in Files
  /\ \E gone \in BOOLEAN :
       IF gone /\ pc[t] = "parquet" THEN Remove("parquet")
       ELSE Released(pc[t], t) /\ UNCHANGED disk
  /\ IF pc[t] = "parquet" THEN Goto(t, "fallback") /\ UNCHANGED frame ELSE Return(t, Raised)
  /\ UNCHANGED <<setting, now, meta, twofold>>

\* The meta is truncated before it is written; unreadable, it counts as stale.
OpenMeta(t) ==
  /\ pc[t] = "stamp"
  /\ meta' = "stale"
  /\ Goto(t, "stamping")
  /\ UNCHANGED <<setting, now, disk, writers, mixed, twofold, frame>>

SaveMeta(t) ==
  /\ pc[t] = "stamping"
  /\ meta' = IF meta = "none" THEN "none" ELSE "fresh"
  /\ Return(t, frame[t])
  /\ UNCHANGED <<setting, now, disk, writers, mixed, twofold>>

-----------------------------------------------------------------------------
(* DELETE /data/cache lists the paths and unlinks them one by one: what    *)
(* existed when it listed can go at any later moment, in any order.        *)

DeleteCache(p) ==
  /\ IF p = "meta" THEN meta # "none" /\ meta' = "none" /\ UNCHANGED <<disk, writers, mixed>>
     ELSE disk[p] # None /\ Remove(p) /\ UNCHANGED meta
  /\ answer' = None
  /\ UNCHANGED <<setting, now, twofold, pc, frame>>

-----------------------------------------------------------------------------
(* Time and the process.                                                   *)

Tick ==
  /\ now < LastBar
  /\ now' = now + 1
  /\ answer' = None
  /\ UNCHANGED <<setting, files, pc, frame>>

\* The TTL passes, a day in which whatever was under way has ended.
Expire ==
  /\ \A t \in Threads : pc[t] = "idle"
  /\ meta = "fresh"
  /\ meta' = "stale"
  /\ disk' = [f \in Files |-> IF disk[f] \in {None, Torn} THEN disk[f]
                              ELSE [disk[f] EXCEPT !.old = TRUE]]
  /\ answer' = None
  /\ UNCHANGED <<setting, now, writers, mixed, twofold, pc, frame>>

\* The process dies and is started again: the files are as they were left.
Restart ==
  /\ pc' = [t \in Threads |-> "idle"]
  /\ frame' = [t \in Threads |-> Nothing]
  /\ answer' = None
  /\ writers' = [f \in Files |-> {}] /\ mixed' = {}
  /\ UNCHANGED <<setting, now, disk, meta, twofold>>

Next ==
  \/ \E t \in Threads :
       \/ \E force \in BOOLEAN : Fetch(t, force)
       \/ LoadCache(t) \/ Download(t) \/ DownloadFails(t)
       \/ CreateParquet(t) \/ NoParquet(t) \/ CreateCsv(t) \/ Written(t) \/ WriteFails(t)
       \/ OpenMeta(t) \/ SaveMeta(t)
  \/ \E p \in Files \cup {"meta"} : DeleteCache(p)
  \/ Tick \/ Expire \/ Restart

Spec == Init /\ [][Next]_vars

-----------------------------------------------------------------------------
Answers == {answer} \ {None, Part, Raised}

\* A bar downloaded open that closed a full page of Binance's: the next
\* request starts after it, so that it stays unfinished among later ones.
ClosesPage(b) == exchange = "binance" /\ (b + 1) % MaxPage = 0

\* What the fetchers answer has no hole, reaches as far as the exchange had
\* come when its download began (but for a last bar that opens at Binance's
\* very end), and only its last bar may be unfinished: whichever requests,
\* deletions, failed writes and restarts crossed.  A CSV read while it is
\* written, or left half-written, is the exception (Part).
CandlesAreWhole ==
  \A a \in Answers :
    LET k == Max(a.bars)
    IN /\ a.bars = 0..k
       /\ k >= Min({End, a.began}) - (IF exchange = "binance" /\ endOpens THEN 1 ELSE 0)
       /\ \A b \in a.open : b = k \/ ClosesPage(b)

\* An answer is never older than the TTL, unless both kinds of files of the
\* key existed at once: the meta is written after the data, so that it vouches
\* for what was saved with it or after.
CandlesAreFresh == twofold \/ \A a \in Answers : ~a.old
=============================================================================
