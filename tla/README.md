# A TLA+ model of the weather station

The repository is the firmware of a desk weather station: an AT32F403A
microcontroller with a serial touch screen on USART3, an ESP8266 Wi-Fi module
on USART2 and a battery-backed clock, programmed in C over the RT-Thread
kernel.  These modules model the parts of it that are hard to get right by
testing: what its interrupts and threads do to each other, what a lost or a
late answer leads to, and the arithmetic of its calendar and its memory pool.

Paths below are relative to `src/Rt-thread AT32/`; the program's own code is in
`at32f403a-proj/Source/`, and file names without a directory are in it.

## 1. The system

| Component | Code | State | Operations |
|---|---|---|---|
| Serial receive FIFO | `Rt-thread/components/drivers/serial/serial.c` | ring buffer, put and get index, full flag | receive interrupt puts, device read gets |
| Screen command intake | `Dev/Task.c`, `Dev/Usart.c`, `HMI/HMI.c` | `s_sUsartBuf3`, `RECPos3`, two semaphores | callback posts, thread `serial3` stores and announces, `HMI_RePrecess` handles and clears, screen updates clear too |
| Memory pool | `malloc/malloc.c` | the table `memmap`, `memrdy` | `mymalloc`, `myfree`, `myrealloc` |
| Wi-Fi driver | `WIFI/BspEsp8266.c` | frame buffer `strEsp8266_Fram_Record`, `WIFI_connect_Sign` | command exchanges, USART2 interrupt |
| Weather fetch | `WIFI/WeatherInfo.c` | `weather_data` | `GetTest`, `GetNowWeather`, `GetDailyWeather`, `GetLifeSuggestion` and their parsers |
| Network time | `WIFI/NtpExample.c` | none that lasts | `GetNtp`, `AccessNTP` |
| Station threads | `Dev/Task.c`, `HMI/HMI.c` | `GetWea_sem`, `espwifi_getweath`, `g_city` | threads `GetWeather`, `UpdateHMI`, `HMIRePrecess`; the commands of the screen |
| Calendar and clock | `Dev/HMIrtc.c` | RTC counter, `calendar_t`, `daycnt` | `RTC_Get`, `RTC_Set`, `RTC_GetWeek`, the interrupt of every second |
| Screen output | `HMI/HMI.c`, `Dev/Task.c` | `g_page`, and what the screen shows | draws of a page, the Wi-Fi icon, the loading icon, the time |
| Start-up and watchdog | `Dev/system.c` | watchdog | `SysInit`, idle hook, restart |
| Kernel | `Rt-thread/src/` | ready lists and group, timer list, tick, semaphores, mutexes | `rt_schedule`, the tick, `rt_sem_take`, `rt_sem_release`, `rt_mutex_take`, `rt_mutex_release`, sleep, yield |

How they interact.  `SysInit` sets everything up and creates four threads of one
priority, so that they preempt each other when a time slice ends; the shell is a
fifth.  The screen sends lines; the serial interrupt, the thread `serial3` and
the thread `HMIRePrecess` hand them on through two buffers and two semaphores.
A command may fetch the weather through the Wi-Fi module, in the thread
`HMIRePrecess` itself; joining an access point posts `GetWea_sem`, on which the
thread `GetWeather` runs the same functions.  When it has data it posts
`espwifi_getweath`, on which `UpdateHMI` draws `weather_data`.  The RTC
interrupt updates `calendar_t` and draws it.  No lock is used anywhere: the
semaphores only signal.

What is hard, and the property that makes each component correct:

- *FIFO*: two parties, two indexes and a flag.  It must be a FIFO that loses
  only the oldest byte.
- *Command intake*: one post stands for several bytes, and four threads clear
  and fill one buffer.  No byte may wait for the next one, no complete command
  may stay unannounced, and the buffer must stay terminated.
- *Memory pool*: any sequence of calls must keep the table exact and the
  allocations apart, and two threads call it.
- *Wi-Fi exchanges*: answers that come early, late or never, refused links, two
  threads on one module.  The module must be given back in command mode, and
  nothing may be taken for data that is not.
- *Threads*: every post must lead to the fetch or the update it asks for.
- *Screen output*: two threads and an interrupt write lines in two parts to one
  port while the data change.  When the draws are over each line must show what
  it is for, from data there have been since they began.
- *Kernel*: calls, time-outs, posts from interrupts and changes of priority move
  threads between lists.  The lists must agree with the states of the threads,
  no suspended thread may be beyond waking, no token may be lost or given twice.
- *Clock*: dates must be right at every boundary, and the interrupt must not
  disturb a setting of the time.

## 2. The modules

| Module | What it models |
|---|---|
| `LossyFifo` | abstract: a bounded queue that gives up its oldest element |
| `RxFifo` | the ring buffer of `serial.c`; implements `LossyFifo` |
| `SerialRx` | the way of a byte from the interrupt to the command handler; extends `RxFifo` |
| `SerialRx_proofs` | the invariants of `RxFifo` and `SerialRx`, and that `RxFifo` implements `LossyFifo`, proved |
| `Heap` | abstract: a memory pool |
| `MemPool` | `malloc.c`, one visit of the table per step; implements `Heap` for one thread |
| `MemPool_proofs` | its table, and the implementation, proved for one thread |
| `Esp8266` | the module, from the commands sent and the answers looked for (external), and the frame buffer |
| `Station` | the threads and the fetches over `Esp8266` |
| `Station_proofs` | its invariants, proved |
| `WeatherInfo` | the parsers: the pool memory they take and lose, and what they store |
| `WeatherInfo_proofs` | its invariants, proved |
| `Calendar` | the calendar arithmetic of `HMIrtc.c`, as functions |
| `Gregorian` | reference: the Gregorian calendar; extends `Calendar` |
| `CalendarDays` | the Gregorian calendar walked day by day, and what `Calendar` computes on each of them |
| `Kernel` | scheduler, threads, their timers and the tick of the kernel, as functions of its state |
| `KernelIpc` | semaphores, mutexes, sleep and yield over `Kernel`, as actions of threads and interrupts |
| `Kernel_proofs` | what the functions of `Kernel` do to lists, states and timers, as lemmas |
| `KernelHistory` | `KernelIpc` with three history variables, for what it promises of priorities |
| `KernelIpc_proofs` | the invariants of `KernelIpc` and `KernelHistory`, and that a semaphore implements `CountingSem`, proved |
| `CountingSem` | abstract: a semaphore that serves in order and loses no token |
| `KernelNap` | `KernelIpc` with the RTC interrupt, which sleeps |
| `Screen` | the lines the threads and the interrupt write, and what the screen shows |
| `Screen_proofs` | its types and bounds, and that the lines of a page show what they are for, proved |
| `RtcClock` | the counter, the interrupt and the settings of the clock; extends `Calendar` |
| `RtcClock_proofs` | what the interrupt and the thread do to the date, and that the loops of the calendar are right on every day, proved |
| `ClockToday` | what the comments of `HMIrtc.c` say of the date, for the run that refutes it |
| `MC*` | small instances for the model checker, with history variables where a property needs them |

`Station` and `SerialRx` take from the kernel what `MCKernel` checks of it: a
semaphore is a value and a blocked thread, and a thread that is ready runs.  The
sleep in the RTC interrupt breaks this (`KernelNap`) and is left out of the other
modules.  `RtcClock` and `CalendarDays` are composed in `MCClock`, and the proofs
about the calendar are about this composition.

A definition has the name of the function or the variable it models where there
is one.  Operators named `Mutant of ...` in their comment are plausible mistakes
in the definition after them; they are not part of the specifications.

### SerialRx

Each statement of `serial3_thread_entry` that reads or writes `RECPos3` or the
buffer is an action (`S3Check`, `S3Store`, `S3Test`, `S3Terminate`), as are the
two statements that clear them (`HrWipe`, `HrReset`, `ClearBegin`, `ClearEnd`).
The interrupt takes one byte after the other (`IsrByte`) and then calls the
callback once (`IsrIndicate`); while `isr` holds no thread takes a step.
A semaphore is its value and the fact that the one thread that takes it is
blocked.  What a command says is not modelled: any of them may be the one that
clears the buffer half-way (`HrParse`), and two of them, `update:` and `place:`, end
in `AccessNTP`, which is a step of its own (`HrNtp`) since it need not return.
A `memset` is one step.  The read of
`s_sUsartBuf3[-1]`, when the buffer has been cleared between the store and the
test, may give any byte.

### MemPool

A call is a sequence of steps: entering, the initialisation on the first call,
each entry visited by the search, each entry marked or cleared.  The bytes of
the blocks are not modelled.  `myrealloc` is called by nobody and modelled all
the same, as it is part of the module's interface.

### Esp8266 and Station

An exchange is: send (`Send`), perhaps reset the frame buffer after sending
(`Reset`), sleep, look at the buffer (`Wake`).  `job` is the list of functions a
thread still has to run, `step` the exchange within the function.  An answer is
one element of `air`, then of `rx`; its text is reduced to what the driver
looks for in it.  The driver sleeps for fixed times and looks once; an answer may
still be on its way then, and be found by a later exchange.  A failure is a refused
link, a refused join, a server whose answer gets lost or is an error, or an answer
that is not there when the sleep is over (`Woken`); `MaxLost` bounds them all.
The ESP8266 is external: in command mode a line is a command, in
transparent mode it is data for the other end, `+++` leaves that mode.

The timer of six hours is a hard timer, so that its callback runs in the tick
interrupt (`GetNTPSoftTimer_CallBack`): no answer can be received there, every
sleep returns at once, and `AccessNTP` calls itself until the watchdog, which
only the idle hook feeds, restarts the program.  `hung` is this state, in which
nothing but `WatchdogRestart` happens.  The restart is a crash at any point of
any exchange: it resets the variables of the program and, through
`ESP8266_Init`, the module; the screen keeps its icon, the clock its time.
`TimerRuns` says whether this happens; it counts as one of the `MaxLost` faults.

`MCStation` adds two history variables.  `crossed`: an answer was on its way that
the thread waiting for data had not asked for, or another city was chosen while
it waited.  `disturbed`: both threads have fetched at once, or one of them went
on while an answer to it was still on its way.
Its bound `Alongside` lets a command that fetches while the thread `GetWeather` does,
or is about to, be only one that chooses another city: with the same city the
exchanges are the same, and the two answers cannot be told apart.

### WeatherInfo

The three parsers have one shape and three differences: which parts they store,
that `cJSON_LifeSuggestionParse` goes on without `"results"` (a stray semicolon,
line 492), and that it never deletes the tree.  A call of the pool is a step
(what happens inside one is in `MemPool`), and so is the storing of one answer.
`MCWeatherInfo` has the history variable `foreign`: a parser has freed what the
other had got.  `utf8str` is the set of blocks it points at: its own, or the one of a text in
the tree.  A write through `NULL` may be ignored or end in the fault handler,
after which the watchdog restarts the system.  The 64 bytes that `memset`
clears from a text of the tree on are not modelled: the blocks have no content.

### RtcClock

The interrupt runs `RTC_Get` as one step, the thread statement by statement.
The counter is split into days and seconds; the constants are those of the
code.  The arguments of `RTC_Set` are read in two groups, in any order, since C
does not fix one.  `MaxInGet` bounds how many interrupts fall into one
`RTC_Get` of the thread.  In `MCClock` the station is off while the battery
carries the clock through the days, which `CalendarDays` counts beside it, and
is switched on in the evening of some of them: the end of a month, of a common and
of a leap year.  It adds two history variables.  `disturbed`: an interrupt has
come since the thread has read the counter.  `torn`: the interrupt has computed the
date of another day while the thread was between remembering its day (`Compare`)
and storing the date (`StoreYear`, `StoreDate`), and the thread stores its own over
it; the next date that is computed ends this.  `RTC_GetWeek` is checked on every
day as a function; `calendar_t.week` is not a variable of `RtcClock`, as nothing but
the display reads it.  `PastTheTable` is the result of a search for the month that
runs past the twelve of `mon_table`; no day
leads to it.

### Kernel, KernelIpc, CountingSem, KernelNap

`Kernel` has the functions of the kernel that run with interrupts disabled, each
as a function from its state `k` to the next; they call each other as in C.  `k`
is a record: `ready` and `waiting` are the lists, `group` the bit map
`rt_thread_ready_priority_group`, `yield` the threads with
`RT_THREAD_STAT_YIELD`, `timers` the timer list in its order.  A thread's node
is in one list, so that `Unlink` takes it out of all.  The skip list of the
timers is a list.  Ticks are taken modulo `TickRange`, and compared as in the
code.

`KernelIpc` has the calls.  One is split where the code enables interrupts: after
the thread has queued itself and before `rt_schedule` (`pc = "schedule"`), and
after `rt_schedule`, before it looks at `thread->error` (`"check"`).  Posts from
interrupts and ticks come at all these points.  Interrupts are not nested.
`held` is a history variable: what the threads know they own.

`MCKernel` gives each thread a program, a set of calls it makes in any order; the
five programs make up time-outs against posts, a mutex wanted by three, two
mutexes, tries and repeated takes, and a mutex wanted by three whose threads wait
in their order.  `KernelHistory` adds three history
variables: `nested`, a thread has held a mutex while it wanted another, for which
the code's priority inheritance promises nothing; `lowered`, a release has lowered
a priority without scheduling; and `behind`, for a mutex of `RT_IPC_FLAG_FIFO`, the
threads that were waiting when it was handed to its owner and still do.

`KernelNap` adds `RTC_IRQHandler`: `DisplayRTCTime` calls `rt_thread_mdelay`, in
the interrupt, for the thread that was interrupted.

### Screen

What a thread has still to do is a sequence `todo` of steps, made by the
operators with the names of the functions: copying a part of `weather_data` (the
argument is passed by value, part by part as the copying can be interrupted),
comparing `g_page`, writing a text, writing the end of a line, storing a part,
clearing.  A text is the version of the data it was made from and the day it is
about.  Lines that the code treats alike stand as one: one icon and one text per
kind of source on each page.  The screen (external) does what a line says if it
holds one text for the page it shows; a line with two texts is lost, as is the
text the interrupt of the RTC cuts.  `MCScreen` adds three history variables: `held`,
the versions each part of the data has had since the last draw that began while
nobody drew; `lost`, the lines that got into another, or were cut off, since then;
and `drawn`, whether a draw has begun since the page was turned.  `Wanted` is the
lines of a page with the day that the comment beside each of them says, not the
one the code writes.

## 3. The runs

| Run | Shows | Bounds |
|---|---|---|
| `serial_rx` | `FullMeansFull`, `FifoSpec`, `NoLostWakeup`, `Terminated`, `Announced`, `Drained`, `CommandLeaves` | ring of 3 slots, command buffer of 3, 3 bytes of 3 values: both overflow, the ring wraps, the buffer is cleared at every point |
| `mem_pool` | `TableIsExact`, `HeapSpec`, `FailsOnlyWhenFull` | 5 blocks, requests of 0, 1, 2 and 4 blocks: the pool fragments and fills |
| `station` | `ModuleReleased`; `OneCityUnlessCrossed`, `ClockFromNtpUnlessCrossed` | two commands out of a join, a refresh and a change of the city, one failure at any point (a refusal, a lost, wrong or late answer, or the timer of six hours); both threads fetch at once, then for two cities (`Alongside`); frame buffer of 2 answers, 3 on their way |
| `weather_info` | `KeepsWhatItUsesTillThen`, `LostIsAccountedAlone` | a pool of 9 blocks; one thread with four answers of two versions, or two threads with two answers: both can fill it |
| `clock` | `WrongOnlyOnLastOfLeapYear`, `WeekIsRight`, `SetIsRight`, `DateOfDaycnt`, `ShowsTheDay`, `SetsOneFieldAlone` | every day from 1970 to 2099, the range of `RTC_Set`; from each of three evenings three seconds over midnight, two settings by the user to 0 or 59, any number by the network, to the end of a month, and one interrupt in each `RTC_Get` of the thread, between any two of its steps |
| `kernel` | `QueuesAgree`, `Wakeable`, `MutualExclusion`, `NobodyWaitsInVain`, `RunsHighestUnlessLowered`, `Inheritance`, `WaitsForAToken`, `SemaphoreCounts`, `TimersFire`, `SlicesAreShared` | three threads of two priorities and the idle thread, five programs; two mutexes with `RT_IPC_FLAG_PRIO` and one with `RT_IPC_FLAG_FIFO`; waits of one and two ticks and without limit, slices of one and two ticks, one token, a mutex held twice; a tick counter of 7 values wraps, with a half range of 3, longer than the waits |
| `screen` | `ShowsTheData` | two pages with seven lines, one fetch, three actions of the user, one interrupt: two draws and a fetch, or a turn of the page, overlap in every order |

The other five runs each refute one statement of a comment in the code; the
comment and the cause are under `findings` in `PROJECT.json`:

- `mem_pool_disjoint`: two threads that allocate at once get the same memory;
- `station_load_icon_closes`: a lost or late answer of the time server keeps the command
  handler in `AccessNTP` for ever;
- `weather_info_stores_the_answer`: a text stored over a longer one keeps the end
  of that one; after 12 degrees, 9 degrees reads 92;
- `clock_today`: on the last day of a leap year the calendar shows the first of
  month 13 of the next year;
- `kernel_nap`: a thread that waits for a semaphore without a limit returns
  without a token, as the RTC interrupt has put it to sleep before it waits, or
  while no other thread was ready.

Other behaviours of the code that the modules have and no run refutes:

- the byte `serial3_thread_entry` tests for the end mark need not be the one it
  has stored (`S3Test` after a `ClearEnd`), and the handler can be woken for a
  command that a screen update has cleared meanwhile; the properties of
  `serial_rx` hold all the same;
- an answer that comes before the frame buffer is reset is thrown away
  (`Reset`), and nothing asks again;
- an error object of the server makes the parsers return 1 (`ParsesAsJson`), so
  that the screen is updated without data, although `Task.c:162` says
  "received and parsed successfully";
- the thread `GetWeather` does not fetch "once every ten minutes", as
  `Task.c:164` says (十分钟访问一次): after the delay it takes `GetWea_sem` again, which
  only the joining of an access point posts (`GwTake`);
- in month 13 `RTC_GetWeek` reads behind `table_week`, and a setting of the time
  moves the clock by a year;
- an interrupt just after midnight (or after the network has set the clock to
  another day), between the thread's `daycnt = day_num` and the end of its stores
  (`HMIrtc.c:148-187`), has its date overwritten with that of the day the thread
  has read; `daycnt` is the new day, so that no later second corrects the date
  until the next midnight (`torn`);
- an interrupt at midnight between the thread's reads of `calendar_t` puts the
  date of one day together with the time of another, so that a setting of the
  minute moves the clock by a day (`SetsOneFieldAlone` excludes this window and the
  one before, as well as month 13 and the years past 2099, which `RTC_Set`
  refuses);
- the command `update:` fetches data but draws nothing; the page shows the old
  data until it is turned or the thread `GetWeather` fetches;
- a line that gets into another is lost, or shows a part of both, until the next
  draw; a draw with an older copy of the data writes over a newer one; and a
  page command that comes during a draw is cleared with the receive buffer;
- the line `AfterTorTemp` of the forecast shows tomorrow's temperatures
  (`HMI.c:193`), where the comment above it says those of the day after
  (`HMI.c:192`: 后天 气温范围); `ShowsTheData` leaves this line out by name;
- the timer of six hours always ends in a restart by the watchdog, which forgets
  the city and the data;
- `rt_thread_yield` sets no flag, so that a thread that yields goes on against
  others of its priority;
- mutexes released in another order than the reverse one leave an owner with a
  wrong priority, and inheritance is not passed on from a mutex to the next
  (`Inheritance` excludes threads that hold or want two);
- a mutex with `RT_IPC_FLAG_FIFO`, as the one mutex this configuration builds has it
  (`dfs.c:66`), is handed to the thread that has waited longest, and this one is not
  raised to the priority of those that waited behind it (`ipc.c:833-855`);
  `Inheritance` excepts them by name;
- a release of a mutex that nobody waits for lowers the owner's priority without
  scheduling (`RunsHighestUnlessLowered` excludes the time until the next
  scheduling);
- with two threads on the module an `OK` to one is taken by the other (`Found`),
  so that `WIFI_connect_Sign` can be set when the join has failed.

What the passing runs do not say.  `OneCityUnlessCrossed` and
`ClockFromNtpUnlessCrossed` say what must have happened before data about two cities
are shown or the clock is set from something else than the packet of the time
server; the code excludes neither an overlap of the two threads nor a late answer,
and when one of them puts a stranger's answer before a thread that waits for its own,
the code keeps no promise.  `Announced` says that a complete command is not left
waiting, not that it is handled: a clear of the buffer (`HMI.c:215`, `573`) can wipe
a command that came since the last one was taken, and the code does lose it.
`LostIsAccounted` says what the parsers lose, not that they lose nothing: each
call that stores a text loses its first text block (64 or 200 bytes), one that
finds no JSON loses both, and `cJSON_LifeSuggestionParse` loses its tree.  With
some 30 nodes of 40 bytes and as many names in the tree of the suggestions, the
1280 blocks of the pool last for about ten refreshes.  With
two threads `myfree(utf8str)` can free what the other has taken since the tree
was deleted; `KeepsWhatItUsesTillThen` says that nothing else can, and promises
nothing after it.
`DateOfDaycnt` and `ShowsTheDay` say that the window `torn` is the only one in which
interrupt and thread spoil the date, not that there is none.  In `clock` the user
sets nothing before the first second has been shown.  `ShowsTheData` allows a line
to show any data there have been since the draws began: when something is stored
during a draw the page may mix old and new data, and of two draws at once the
one with the older copy may write last; no later draw is sure to come.
`CHECK_DEADLOCK FALSE` stands where the system may come to rest: the bound on
commands, ticks or days is used up and the threads wait.

**Fairness.**  The threads have one priority and RT-Thread slices the time among
them, so each that stays ready runs: weak fairness of each thread in `SerialRx`
and `Station`.  An interrupt that has begun ends (`IsrIndicate`), and an answer
on the wire is received (`Receive`).  Of the call of `AccessNTP` nothing is assumed
(`HrNtp` has no fairness), as it calls itself until it succeeds, which after one lost
answer it never does (`station_load_icon_closes`): `CommandLeaves` says that a
command leaves the buffer if each of these calls returns (`NtpReturns`).  A watchdog that is not fed restarts the
program (`WatchdogRestart`).  In `KernelIpc` nothing is assumed of the threads:
only that the hardware timer goes on (`TimePasses`), from which `TimersFire` and
`SlicesAreShared` follow by what the tick interrupt does.  Nothing makes
the screen send, and nothing makes a clearing thread begin.

## 4. The proofs

A theorem holds for every value of the constants that satisfies the assumption
named in the module that declares them: `RxFifoAssumption`,
`SerialRxAssumption` (a ring and a command buffer of at least two bytes, an end
mark that is not 0), `MemPoolAssumption`, `Esp8266Assumption`,
`StationAssumption`, `WeatherInfoAssumption`, `RtcClockAssumption`,
`ScreenAssumption` (the bounds are natural numbers), `KernelAssumption` (finitely many threads, the idle thread of the lowest
priority) and `KernelIpcAssumption` (waits shorter than half the range of the
tick counter).  What a theorem assumes beyond these is in its `ASSUME`, and
below.  In each module one step lemma per action shows that the inductive
invariant is kept; the theorems follow from it.  Every invariant of a passing run
is a theorem, and so is every action property and both implementations
(`FifoSpec`, `HeapSpec`); only the liveness properties are not.  Most theorems are
about the specification with the history variables (`MCSpec`, `HistorySpec`), or
about the one without them, which allows the same steps.

**Receive path** (`SerialRx_proofs`)

- `RxFifoInvariant`: `RxTypeOK /\ FullMeansFull` is inductive.  The second part
  is needed for the first step of the implementation: a ring whose flag is set
  holds `bufsz - 1` bytes, so that a read makes the flag false exactly when
  there is room again.
- `RxFifoImplementsLossyFifo`: `RxSpec => FifoSpec`, with the sequence of the
  unread bytes as the abstract queue.  The lemmas compute how `RxLength` and the
  slots change when an index advances, with and without a wrap.
- `SerialRxTypeOK`: types and ranges of all variables.  That `RECPos3` stays in
  the buffer rests on `pos <= RECBUF_MAX - 2`, the test of `S3Check`, although
  `RECPos3` may change between the test and the store.
- `SerialRxNoLostWakeup`: strengthened by where a token may be: while the FIFO
  holds a byte and no interrupt is being served, the semaphore has a token or
  the thread is not about to sleep.
- `SerialRxTerminated`: strengthened by the same bound on `pos`.
- `SerialRxAnnounced`: strengthened by `Owed`: each end mark below `RECPos3`, and
  each below the position at which the thread `serial3` is about to store, has
  been told of by a token, or by a handler that has still to clear the buffer.
  `Announced` alone would be lost when the buffer is cleared between the load of
  `RECPos3` and the store, which moves `RECPos3` on over cells it did not count.
- `SerialRxImplementsLossyFifo`, `SerialRxFullMeansFull`: the same two results for
  the whole receive path.  Each of its steps is a step of `RxFifo` or leaves the
  ring as it is, so that `Spec => RxSpec`.

**Memory pool** (`MemPool_proofs`), each with one client, as all of them are
false for two (`mem_pool_disjoint`)

- `MemPoolTyped`, `MemPoolTableIsExact`, `MemPoolFailsOnlyWhenFull`,
  `MemPoolImplementsHeap`, from `PoolInv`: the allocations are disjoint runs of
  the pool (`LiveOK`); the table is that of the allocations except where a loop
  has already marked or cleared it (`TableOK`); the search has counted the free
  blocks right above the one it looks at, and has passed no run that would have
  done (`ScanOK`); the loop counters are in range (`LoopOK`).  `TableIsExact`
  speaks only of the time between calls and says nothing of the half-written
  table in one, so that it is not inductive.

**Wi-Fi exchanges** (`Station_proofs`)

- `StationTyped`, `StationModuleReleased`, from `StationInv`: when the module is
  in transparent mode some thread still has `+++` before it (`Leaves`), when a
  link is open some thread still has that or the close (`Closes`), and the
  threads are in steps their functions have (`JobsOK`).  It holds for any number
  of lost and late answers and restarts.
- `StationOneCityUnlessCrossed`, `StationClockFromNtpUnlessCrossed`, of `HistorySpec`
  (`MCSpec` without the bound `Alongside`), from two invariants, one for each
  condition.  `FetchedAloneOK`: as long as nothing was `disturbed`, nothing is on its way when a thread sends, and every answer in the
  air or in the frame buffer, that a thread may still parse, is about the city asked
  about (`AloneOK`).  `NotCrossedOK`: as long as no answer has `crossed` a request,
  however the two threads overlap, what a thread that waits for data finds in the
  frame buffer is its own (`CleanOK`), since each request leaves that buffer empty.

**Parsers** (`WeatherInfo_proofs`)

- `WeatherInfoTyped`; `WeatherInfoKeeps`: each call has a number of its own and
  all it has got bears that number (`CallsOK`, `OwnsOK`), so that only a free
  through `utf8str`, which points elsewhere by then, can hit another's blocks.
- `WeatherInfoLosesAlone`: every block marked as used is of a call that still
  works with it, or is lost in one of the ways `LostIsAccounted` allows (`GbkOK`,
  `JsonOK`, `TextOK`).  `TextOK` contains the reason why a call that got no first
  block gets no second one: no free run was long enough, and none has come since.

**Calendar** (`RtcClock_proofs`), for any `LastDay`, however far the calendar is
walked

- `ClockWrongOnlyOnLastOfLeapYear`, `ClockSetIsRight`.  The loops are recursive functions, and
  what they compute is shown in two halves: the number of days before a year and
  before a month has a closed form (`DaysBefore`, `MonthsBefore`), and the year
  and the month of a day are those whose closed forms enclose it (`YearAt`,
  `MonthAt`; they exist by induction and are unique because the forms grow).
  Then `CountYears` and `CountMonths`, `DaysToYear` and `DaysToMonth` agree with
  the closed forms, by induction over the days (`SetInduction`, an induction
  over sets of natural numbers, from the library's theorem that they are
  well-founded).  The inductive invariant `WalkInv` says that the Gregorian walk
  of `CalendarDays` has come to the date of its day in the same closed form.
  `WrongOnlyOnLastOfLeapYear` alone is not inductive: it also holds of a walk that
  is itself in month 13, and fails on the next day.
- `ClockWeekIsRight`, for `LastDay <= LastOf2099` (day 47,481, where the range of
  `RTC_Set` ends): `RTC_GetWeek` takes every century after 1999 for the one
  from 2000, so that 2100 has the week days of 2000.

**Clock** (`RtcClock_proofs`), for any days and settings, and any number of
interrupts in the `RTC_Get` of the thread

- `ClockDateOfDaycnt`, `ClockShowsTheDay`, `ClockSetsOneFieldAlone`, from `SetInv`,
  which holds the walk and: the thread stores the date of the day that is
  remembered unless the interrupt has found another, and counts the months in the
  year of this day (`StoringOK`); the calendar shows the date of `daycnt` outside
  the stores, or at the start none (`DateOK`); and as long as no interrupt has come
  since the thread read the counter, the calendar shows the counter it read and the
  arguments of `RTC_Set`, those already evaluated as well as those still to be,
  are what it read (`TakenOK`).  That `RTC_Set` then writes back
  the same day is `ThereAndBack`: `DayOf(DateOf(n)) = n` unless `DateOf` gives
  month 13.  `ShowsTheDay` excepts day 0, which `daycnt` means at the start: on it
  the code shows no date until the next midnight.

**Kernel** (`Kernel_proofs`, `KernelIpc_proofs`)

- `KernelTyped`, `KernelQueuesAgree`, `KernelWakeable`,
  `KernelMutualExclusion`, `KernelNobodyWaitsInVain`, from `IpcInv`.  Its first
  part, `KInv`, is about the state of `Kernel` alone: which list a thread is in
  follows from its state and priority, no list has a thread twice, the ready
  group has exactly the priorities with a ready thread, and only a suspended
  thread has a timer.  `Kernel_proofs` shows of each function of the kernel that
  it keeps this and what it does to the threads: nothing, wake them, or wake them
  with `ETIMEOUT`.  The second part relates this to the calls: a thread in a list is in the
  call that put it there with its error still `EOK` (`ThreadsOK`); a semaphore
  with a token has no waiter (`SemsOK`), a mutex without an owner none either
  (`MutexesOK`); what threads have got, or will count on their return since it
  was handed to them, is what `hold` says of the owner (`HeldOK`).  Without
  `ThreadsOK` a release could hand a mutex to a thread whose time-out has just
  run, which would then neither own it nor give it back.
- `KernelWaitsForAToken`, an action property of `KernelIpc`, follows from the
  same invariant.  It is what the run `kernel_nap` refutes for `KernelNap`: it
  is the sleep in the RTC interrupt, and nothing else, that breaks it.
- `KernelSemaphoreCounts`, `KernelImplementsCountingSem`: under the mapping of
  `Promise(s)` the initial state of a semaphore whose threads wait in their order
  is one of `CountingSem`, and each step of the kernel is one of its steps or
  leaves its state as it is.  Waking several threads in one tick is one step of
  the abstract semaphore (`Expire`), so that no step of the kernel needs to be
  cut in two.
- `KernelRunsHighest`, for `KernelHistory`.  The inductive invariant `RunInv` says
  the same of a thread that has been scheduled and is about to look at its error;
  only between the queueing of a thread and `rt_schedule` is nothing said.
- `KernelInheritance`, for `KernelHistory` and both kinds of mutexes.  The inductive
  invariant adds that a mutex remembers its owner's own priority (`OriginalsOK`),
  that the waiting list of one with `RT_IPC_FLAG_PRIO` is in the order of the
  priorities, which is why its next owner is of the highest, and that an owner is
  at least at the priority of each waiter that has not been left behind (`LineOK`).
  A thread that begins to wait raises the owner, so that only those that waited
  before it became the owner can be above it.

The loops of the kernel, over the timers that are due and over the threads that
are started, are recursive functions over the number of turns.  A statement
about all turns is proved by taking the least turn for which it fails, as the
natural numbers are well-founded.

**Screen** (`Screen_proofs`)

- `ScreenTypeOK`, from `TypeInv`: the steps a thread has before it are a rest of
  one of its functions (`TodoOK`); the counters are bounded since a fetch, a post
  and a command that are still to come are counted with those that have been
  (`CountsOK`); the serial port holds one text for each drawing thread that is
  between a text and its end (`LineOK`); data, copies and the screen (`DataOK`).
- `ScreenShowsTheData`, of `MCSpec`: each line still to be written is made from a
  copy of data there have been since the draws began, or of a part still to be
  copied (`Copied`); so is what the serial port holds (`LineFrom`); and each line of
  the page is shown, or lost, or in the port, or still to be written by a drawing
  thread (`Pending`).  When nothing is to be written any more, this is the property.

Checked only by the model checker: liveness (`Drained`, `CommandLeaves`,
`TimersFire`, `SlicesAreShared`), as fairness and ENABLED are outside what the
proof system handles; and the five runs that refute a statement.

## 5. What is not modelled, and the plan

Not modelled: vendored code other than the kernel and the receive path of the
serial device (board support, the unused parts of RT-Thread, cJSON, the
packages: by far the most of the repository's lines, which this program does not
call), the character conversion tables, register access.  Of the kernel: the
deletion of threads and objects, `rt_enter_critical`, the timer thread, signals,
events, mailboxes and message queues, which the program does not use; nested
interrupts.  Of the program: transmission by polling byte by byte, the numbers
of the icons, the conversion of the NTP packet, the shell's commands, the frame
buffer byte by byte, the order of `SysInit` (which runs in one thread before the
others exist).

What is left: `WeatherInfo` over `Heap` instead of its own account of the pool,
with the theorem of `MemPool` between them; and of the liveness properties, the
steps of their arguments that are safety.

Nothing is planned for the frame buffer byte by byte: of `FramLength` the
interrupt makes only increments and the threads only resets, which no order of
the two can spoil, and `FramFinishFlag` in the same word is read by no function
that is called.
