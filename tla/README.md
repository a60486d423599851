# TLA+ models of libguestfs-common

libguestfs-common is the code that the libguestfs tools (virt-customize,
virt-edit, virt-sysprep, virt-v2v, virt-df, guestfish, ...) share: C
mini-libraries (`edit/`, `options/`, `parallel/`, `progress/`, `qemuopts/`,
`utils/`, `visit/`, `windows/`) and OCaml ones (`mlcustomize/`, `mldrivers/`,
`mlpcre/`, `mlstdutils/`, `mltools/`, ...).  This directory holds TLA+ models of
it, TLC configurations that check them on small instances, and TLAPS proofs of
their most important properties for every instance.

    tlasany M.tla                     parse a module
    tlc -config X.cfg M               check the instance X of module M
    tlapm M_proofs.tla                check the proofs about module M

`PROJECT.json` lists the components, the runs, the theorems, the source lines
behind every definition, the hazards that the properties are for, and for each
property of a passing run a mutant: a plausible mistake in the code under which
the property fails.

Each component has its own specification, and the theorems are about that.  Where
components share no state, one run explores several of them, one in each
behaviour: `MCTools` is the instance of the command line and mounting
(`Session`), the file editor (`FileEdit`) and the qemu command line (`Qemuopts`),
and `MCPrograms` that of `Customize` and `Bindings`.  A variable `part` says which
one is at work; the others stay in one initial state, and so the run has the sum of
their states.

| Run | Instance of | It shows |
|---|---|---|
| `ParallelPool` | worker pool | in order, honest, no lost wakeup, no hang unless a worker died |
| `ParallelHang` (violated) | worker pool | a worker that cannot start makes the pool hang |
| `OnExitSafety` | exit actions and commands | all attempted, in order; exit codes and processes |
| `OnExitOnce` (violated) | exit actions and commands | an interrupted pass performs an action twice |
| `FirstbootBoots` | firstboot | each script runs, in order, over crashes |
| `FirstbootPowershell` (violated) | firstboot | two Powershell scripts of one name share their code |
| `Tools` | command line, file editor, qemu command line | the properties of the three below |
| `FileEditUnchanged` (violated) | file editor | an edit is taken for none |
| `QemuConfigId` (violated) | qemu command line | `idle=1` is taken for an id |
| `Programs` | customizing, bindings | the properties of the two below |
| `PcreSubi` (violated) | bindings | `subi` returns -1 where `sub` raises `Not_found` |
| `XmlDangling` (violated) | bindings | a result leads to a node that has been freed |

## The system and its parts

Almost all of this code is sequential and acts on a *guest*: a disk image that
the libguestfs appliance serves, one call at a time.  Every call can fail, the
tool can be killed between two calls, and what it has written stays.  Real
concurrency is in three places: the worker threads of `parallel/`, the signal
handlers of `mltools/on_exit.ml`, and the commands that
`mltools/tools_utils.ml` runs in parallel.

| Part | State | Operations | Hard about it | What makes it correct |
|---|---|---|---|---|
| worker pool, `parallel/parallel.c` | two counters with a mutex each, a condition variable, a result per thread | `start_threads`, `worker_thread` | threads, wakeups, a worker dying, one failing item of many | output in order, each domain once, honest answer, no hang |
| domain list, `parallel/domains.c` | global array | `get_all_libvirt_domains`, `add_domain` | libvirt's domains come and go between two listings | no duplicates, sorted, none missed |
| exit actions, `mltools/on_exit.ml` | list of actions, two flags | register, push, `do_actions`, signal handlers | handlers nest on the cleanup they interrupt | all attempted, in order of priority, the process ends |
| file editor, `edit/file-edit.c` | files of guest and host | `edit_file_editor`, `edit_file_perl` | failures and crashes between download and rename | the file is never partial, links and attributes survive |
| firstboot, `mlcustomize/firstboot.ml` | counter; scripts, service and sentinel in the guest | `add_firstboot_script`, `_powershell`; the guest's `firstboot.sh` and `.bat` | power failures, retries, programs one after the other | each script runs, once, in order |
| options, `options/options.c` | lists of drives and mountpoints | `-a`, `-d`, `-m`, `add_drives`, `mount_mps`, `free_drives` | order, device numbering, recursion | device names and mounts match the command line |
| inspection, `options/inspect.c` | roots, mountpoints | `inspect_mount_handle`, `inspect_mount_root` | some mounts fail and are ignored | parents mounted before children, `/` or nothing |
| keys, `options/keys.c`, `decrypt.c` | key store, mapped devices | `key_store_add_*`, `get_keys`, `inspect_do_decrypt` | several keys per device, names unescaped in place, LVM on LUKS on LVM | each device tried with its keys only, mapped once |
| tool helpers, `mltools/tools_utils.ml` | running pids, log files | `run_commands`, `with_timeout`, parsers | children end in any order, signals, strangers' pids | one exit code per command |
| planner, `mltools/planner.ml` | - | `plan` | search with a depth limit | a shortest plan, or none |
| small tools, `mltools/{checksums,curl,urandom,registry,regedit,...}.ml` | temporary files, an open hive | verify, run, random numbers, hive edits | failures half-way | nothing written on failure, nothing left over |
| customize, `mlcustomize/customize_run.ml` and the operations it calls | the guest's files, the passwords and virtio-win handle of this program | seed, machine ID, one operation after the other, passwords, relabelling, log | a failure between two calls that belong together, the retry of a whole program, one user named twice | nothing half done unless a failure did it, passwords as asked, labels right |
| virtio-win, `mlcustomize/inject_virtio_win.ml` | driver directories, hives, firstboot scripts | copy of drivers, agent and balloon service, block driver, stubs | several sources, a registry that names a file which was not copied | the next boot finds every file that the registry asks for |
| drivers, `mldrivers/*.ml` | detected bootloader and kernels | detection, default kernel | several kernels, boot loader variants | the chosen kernel exists and is bootable |
| regular expressions, `mlpcre/` | last match of each thread | `matches`, `sub`, `subi`, finalisers | another thread's match in between, a regexp that is collected meanwhile | `sub` refers to the thread's own last match, and no match leaks |
| utilities, `mlstdutils/`, `utils/`, `mlutils/` | - | strings, lists, files | boundary cases, a file that grows while it is read | equal to their reference definitions |
| `qemuopts/` | list of options | add, set, serialise | nesting, escaping | the parsed output is what was added |
| directory visitor, `visit/visit.c`, `mlvisit/` | a frame of lists for each directory under way | `visit`, `_visit`, the visitor's callback | failures and exceptions inside a recursion through two languages, attributes cut out of one long list, files that the visitor removes | each file once with its own attributes, every failure reported as itself |
| Windows paths, `windows/windows.c` | what is mounted | `windows_path`, `mount_drive_letter` | several drives and mappings, names that differ in case | the file is the one that Windows would open |
| XML bindings, `mlxml/` | documents, contexts, results, and who keeps whom | parse, query, finalisers | a collection that finds several of them unreachable at once | none is freed while something leads to it |
| `progress/` | a bar | draw | terminals | not modelled |
| other bindings and generated code: `structs/`, JSON, URI, libosinfo, getopt | - | marshalling | - | not modelled |

Interactions: a tool's option parser builds the drive list and the key store,
adds the drives to the handle, launches it, decrypts, inspects and mounts; then
it calls one of the libraries above on the mounted guest.  virt-df and its like
run one handle per domain from the worker pool.  virt-customize calls
`customize_run`, which calls the operations, among them firstboot and the file
editor.  Every temporary file of the OCaml tools is registered with the exit
actions.

## What is modelled

### Worker pool: `InOrder`, `Parallel`, `Parallel_proofs`

`Parallel` has one program counter per worker and one for `start_threads`; a
step is one pthread call, one access to a shared variable or one piece of local
code, so `next_domain_to_take++` is two steps (`Take`, `Bump`) and the
condition variable is the set of workers at "waiting" (no wakeup at all for a
worker that is not yet there).  The failures of the code are actions of their
own: `OpenFails` (open_memstream, guestfs_create), `MutexFails`, `WaitFails`,
`CreateFails`, and `SpuriousWakeup` for what POSIX allows.  The constants are
the inputs of `start_threads` and three bounds on bad luck.  `InOrder` is what
the caller is promised; `ImplementsInOrder` is the refinement.

* `ParallelPool` checks it with three workers and three domains: three is the
  smallest number where a broadcast and a signal differ, and where a worker
  waits for one that waits itself.  One failure of each kind is enough, since a
  second one finds the pool in a state that the first one could have left.
  Fairness: weak fairness of each thread, which is what the kernel's scheduler
  gives; nothing is assumed about failures.
* `ParallelHang` shows a defect: a worker whose handle cannot be created
  returns without retiring its domain, and all later domains wait for ever.

Proved for any number of workers, domains and failures: `TypeCorrect`,
`OutputCorrect`, `OwnershipCorrect` (no two workers own one domain, which the
runs only check by its consequences), `WakeupCorrect` from the inductive
invariant `IInv` (who owns the mutexes, that taken domains lie below
`next_domain_to_take` and are held once, that the output is as long as
`next_domain_to_retire` says); `AnswerCorrect` and `RefinesInOrder` from the
stronger `AInv`, which also accounts for each domain below
`next_domain_to_take`: retired, held, or lost together with a recorded error.
Liveness stays with TLC.

### Exit actions and commands: `OnExit`, `Commands`, `MCOnExit`, `OnExit_proofs`

The program registers and pushes actions, calls exit, or gets a signal.  A
handler runs on top of anything, `do_actions` included, with its own signal
blocked, and ends in `_exit`; a pass takes the list in the order of `ComesFirst`
and performs it action by action.  `OnExitSafety` uses three actions, two of
one priority, and three signals, so that a handler interrupts a handler that
interrupted `at_exit`.  Fairness: a pass that has begun keeps running.
`AttemptsAccountedFor` says that every action has been attempted when the
process is gone, and how often: an interrupted pass starts over, so it is once
more for each interruption at most.  `OnExitOnce` shows that this is not what
the comment in the code says, that the actions are performed only once: the
flag that is to ensure it is set when the pass is over, and a signal before that
has its handler begin with the first action again.

`Commands` is `run_commands` of `tools_utils.ml` in a tool that has started a
helper process, such as nbdkit, and registered an exit action that kills it
(`On_exit.kill`).  The commands are started one by one (one that is not found
counts as exit code 127; any other failure exits) and collected by a wait for
any child, which collects the helper, too, if that has ended; from then on its
number is free, and the kernel may give it to a stranger before the kill is
performed.  A signal or a failure at any step of this goes over to the exit
actions (`Leave`) with the commands still running.  `MCOnExit` is the instance
of both.  `ProcessesAccountedFor`: each command gets its own exit code, whatever
ends first, none is left, and the kill reaches no stranger unless
`run_commands` had waited for the helper: an excuse that stands for a hazard of
the code, which is listed.  Two commands and three process numbers: one number
for each process that can live at once, the least with which a number is given
again to a later command.

The safety properties of the exit actions are proved for any sets of actions
and signals: the invariant relates the index set `todo` to the attempts made.
`ToolImplementsOnExit` is the refinement: a step of the tool is a step of
`OnExit` or leaves its variables alone, so that all of those theorems hold of the
tool (`ToolAttemptsCorrect` states the most important one).  `ProcessesCorrect`
is proved for any number of commands, exit codes and process numbers.  Its
invariant says that `pids` and the processes that run commands are two views of
one thing until the program leaves (each number in `pids` is that of the command
with that index, no index is there twice, no command is missing), that a
command's place in the array holds its outcome once it is not in `pids` any
more, and that the helper keeps its number until somebody waits for it.

### File editor: `FileEdit`, `FileEdit_proofs`

One action per call that `edit_file_editor`, `edit_file_perl` and `do_upload`
make, each of which may fail (`Fail`), the upload after a part of the content
(`UploadFails`), and `Crash` anywhere.  The guest's directory maps four names
to what they refer to.  Contents are members of a set, with sizes, because the
code compares sizes and times to find out whether the file changed.
The run `Tools` uses three contents, two of one size, and three seconds: with
fewer the test for a change would always be right.  `FileEditUnchanged` shows
that it is not: the code sets `st_mtime` back but compares `st_ctime`.
The safety properties are proved for any set of contents and any duration, from
an invariant that says what the directory holds at each step, and so is the
action property `ReplacedOnce` (`ReplacedCorrect`): the guest's name changes
only by the renames, and only to what the temporary file holds.

### Firstboot: `Firstboot`, `Firstboot_proofs`

The host's calls and the guest's services in one module, since they meet in the
guest's directories.  The guest's loop is modelled command by command because
a power failure (`Crash`) may come between any two.  A script's file name is
its record of priority, number and name; writing it replaces a file of the same
name.  The host adds a script in steps, each a call that may fail and after which
the program may be killed (`Abandon`): the sentinel of an earlier run goes, the
service is installed, the script is written and, on Linux, made executable,
before which firstboot.sh does not run it.  Numbers of a file name have four
digits and sort as such up to 9999, which bounds priorities and scripts
(`FirstbootAssumption`); a larger number would come before a smaller one, and a
program that adds ten thousand scripts is not considered.  `FirstbootBoots` lets two programs add two scripts, with two names and
two priorities, to a guest of either kind, with a power failure, a retry
(exit code 249) and a failing move; two scripts are enough for every order
property, which are about pairs.  Fairness: the guest keeps being booted, its
service keeps running; retries are bounded, as a script that asks for a retry
for ever blocks the others, by design of the batch file.
`FirstbootPowershell` shows that two Powershell scripts of one name share their
code.

Two things that the properties excuse: a script whose file another program
replaces (`overwritten`), because each program begins to number at 1, is not lost
for `NoScriptLost`; and `RunsInOrder` speaks of the scripts of one program, so that
the mixture of two is not caught.  Nothing in the code or its documentation
speaks of scripts of several programs; the hazard is listed with that note.

Proved for any names, priorities and number of scripts, programs, power
failures, retries and failing moves: all safety properties of `FirstbootBoots`,
the action property `RunsInOrder` (`OrderCorrect`) among them.  None is
inductive as it stands.  The invariant `IInv` adds: where the guest is, what it
has in hand there (`PhaseInv`: a script that firstboot.sh runs has left its
directory, one that the batch file runs has not); that the script which is being
added is newer than all others, and that the sentinel is gone and the service there
before it is written (`AddingInv`); that the numbers in the names
of the files grow with the calls that wrote them, within one program
(`FileInv`); that a script which is still in its directory has been run only
as often as something went wrong (`RunsInv`), and not at all on Linux; and that
what the loop of the batch file has left behind has finished and could not be
moved (`LeftInv`), without which the sentinel might come too early.  Only
`EveryScriptRuns`, a liveness property, stays with TLC.

### From the command line to the mounted guest: `Options`, `Mounts`, `DeviceNames`, `Decrypt`, `Session`

`Options` has an action per option, which puts a record in front of a list as
the macros do, and one per return of the recursion of `add_drives_handle`; its
variables are those of the tools (`drvs`, `mps`, `read_only`,
`format_consumed`), and `args` keeps what was given.  `AsChar` is what happens
to the index of a drive on its way through the return type of that function.
`Mounts` is `inspect_mount_root` and `mount_mps`, a mount per action.
`DeviceNames` has the pure functions on names: the loop that unescapes
`/dev/mapper/VG-LV` as a function of the characters read so far, with
device-mapper's own escaping beside it, and `make_mapname`.  `Decrypt` is the
key store and `inspect_do_decrypt`; a device's content says which keys open it,
`Opens` is the answer of cryptsetup or clevis, and the appliance lists
partitions and volumes in any order.  `Session` puts them together in the order
in which a tool calls them.

* `Tools` checks all command lines of three options: the properties
  relate at most three of them (a format, a drive and --ro; two drives or
  mounts; -i and two keys).  The guests have two partitions with a logical
  volume on each; their names differ in the place of one hyphen only, so that
  the escaped forms are nearly equal and the node names are equal.  They cover
  LUKS below and above LVM, BitLocker, a copied disk with one UUID twice, and
  devices whose type or UUID cannot be read.  `CHAR_MAX` is 3, so that three
  drives go beyond it.  The run ends without deadlock checking, as a session
  ends.  No liveness: each loop goes over a finite list.
* `DriveIndexes` says what holds as long as the index fits into a `char`; the run
  goes beyond, and what becomes of the index there is excepted and a listed hazard.
* `NothingHidden` is about the mounts that `-i` makes: none is made over one made
  before, since shorter paths come first and every guest's table has `/`
  (`MountsAssumption`).  A `-m` above one of them is the user's wish, and is in
  `HandleMatchesCommandLine` as such.
* A key that cannot be read (`GetKeysFails`), or a listing of the guest that fails,
  ends the program; a feature test that fails counts as no LVM.

Proved for any options, any guest and any number of each, which is every
property of the run: `TypeCorrect`, `NothingHiddenCorrect`,
`DriveIndexesCorrect`, `CommandLineCorrect` and `DecryptionCorrect`.  The
invariant `IInv` has a part for the types, one for the order of the phases (no
option is parsed after the launch), one for the mounts (no path that is left is
shorter than one that has been mounted, and the root comes first because every
other path lies below it), and one for the drives (the list is in descending
order of arguments, so the disks that are added next have the largest argument
so far, and the index is the number of disks while that fits into a char).

`CommandLineCorrect` adds `MatchInv`, which compares the state with what the
arguments say so far: `read_only` says whether --ro was given or configured,
`format` is that of the last --format and `format_consumed` whether a drive has
come after it; the list of drives has those of the command line, each once and
with its format, and the disks of the handle are those of the drives that have
been added; the k-th entry of `mps` is the k-th -m from the end; the mounts of
-i come first, and the n-th after them is the n-th -m.

`DecryptionCorrect` rests on `MatchesMeans`: a key of the store matches a device
if and only if its selector denotes the device, for all the names that LVM
allows (`NamesAssumption`: a volume's name is not empty and does not begin with
a hyphen; no partition, UUID or "all" has the form of a mapper name).  One
direction says that a name that is not found malformed is what has been read of
it, escaped (`ScannedIsRead`); the other that the loop reads back what
device-mapper has escaped (`LvRead`); both are inductions over the characters
(`NamesInduction`).  `DecInv` then says that the appliance was launched with
the network that the keys require; that what was tried was given for the device
or typed for lack of such a key, and all of it was tried when the program gives
up; that open devices have distinct names; and that an encrypted device of the
phase is waiting in the list or open.  A device that becomes reachable while
volumes are opened would break the last part: it does not, as volumes lie on
partitions.

### Customizing a guest: `Guest`, `RandomSeed`, `Password`, `SshKey`, `Hostname`, `AppendLine`, `SELinuxRelabel`, `GuestPackages`, `VirtioWin`, `Customize`, `Customize_proofs`

`Guest` holds what the operations share: the guest as inspection describes it,
the program counter `step`, whether the files have their SELinux labels
(`Created` says that a call of the appliance makes a file without one), and
`Call`, one call of libguestfs.  Each operation that takes several calls has a
module of its own with an action per call: the seeds (`RandomSeed`, with the
fallback file of each distribution), the passwords (`Password`: the choice of
the encryption, and /etc/shadow, whose attributes are kept in a temporary file
while Augeas replaces it), the ssh keys, the hostname with its three ways to be
set and the names in /etc/hosts, the appended line with the guess of the line
ends, and relabelling with the repair of a malformed specfile (moved away, written
anew, and then given the attributes of the old one: three calls, between which the
guest has no specfile or a "bare" one).  `GuestPackages`
is the choice of the command of the package manager.  `VirtioWin` has one
action per copied file, per stub driver file that is removed, per hive that is
committed (a hive is written back as a whole or not at all), and per first boot
script.  A text is a sequence over
CR, LF and one other character; a driver is its name with the architecture and
the version of Windows it was built for.

`Customize` is `Customize_run.run`: seeds, machine ID, then operations in any
order, passwords, relabelling, and the log.  `Die` is a call that fails or a
kill, possible at every step; `NewProgram` runs virt-customize again on what
was left, having forgotten everything but the guest.  `cut` is a history
variable: what a failure has cut short (`CutAt`).

The run `Programs` takes nine guests, one of each family that the operations
tell apart, with the files that make it interesting (old seeds, an empty
machine ID, a key file without a last line end, a malformed specfile); two programs with two operations between them: two are
what a pair property needs (a user named twice, a retry after a failure, two
sources of drivers), and `PREAD_SIZE` is 2, so that a line end lies across it.
A customization ends, so a deadlock is not an error.  No liveness: every loop
goes over a finite list.

* `NothingHalfDone`: a program that comes to its end leaves every file that is
  made in several calls complete, unless `cut` says that a failure, of this
  program or an earlier one, has been in the way.  What it excuses is listed
  among the hazards and not caught: a retry finds the directory of the ssh keys
  and leaves it to root, and an interruption of the password change leaves
  /etc/shadow without its attributes.
* `PasswordsAsAsked` has an exception that the code has: Rocky Linux before 9
  gets MD5, and so do the distributions that `default_crypto` does not know
  (for these the code prints a warning).
* `LinesApart` is about files whose first `PREAD_SIZE` bytes show their kind: a
  wrong guess for another file is not caught, and a listed hazard.
* `LabelledOrMarked` and `NextBootFindsFiles`, which holds at every step of
  every program, so that a Windows guest boots whenever the tool dies.

Proved for any guests, operations, drivers, texts and number of programs: every
property of the run (`TypeCorrect`, `NothingHalfDoneCorrect`,
`PasswordsCorrect`, `LabelsCorrect`, `BootCorrect`, `LinesCorrect`).  The
argument rests on two lemmas: `Steps` says from which steps to which each
operation leads, and `Frames` what it leaves alone, so that an invariant about
the ssh keys needs to look only at the actions of `SshKey`.  Each part of `NothingHalfDone` has an
invariant of its own that says what its file looks like between its calls
(`HalfInv` is their conjunction); `LabelInv` says from which step on files are
labelled or marked; `VirtioInv` that what is registered has been copied.
`PasswordInv` follows a password on its three ways: from what was asked for to
the table of this program, from the table to what Augeas holds (in any order of
the users), and from there to /etc/shadow, where nothing that comes later
changes it.  `LinesCorrect` is about one step, but about every text: the last
line end of the part that is read is of the kind guessed (`GuessesTheKind`), a
file of one kind keeps it when the line and its ends are added
(`AppendedShape`, `SameKind`), and no line end arises where two parts meet
(`OnItsOwn`).

The assumptions are that a seed has a size (`SeedAssumption`), that a specfile is
fine, malformed or missing (`SpecfileAssumption`), that texts are
sequences of three symbols (`TextAssumption`), that the bounds are numbers
(`BoundsAssumption`), that the machine ID is one of the three the code tells
apart (`MachineIdAssumption`), and that a guest whose C library knows SHA-512
is no older than the first release of its distribution after glibc 2.7
(`CryptoAssumption`), which is what the comment on `default_crypto` says of the
distributions it lists.

### qemu command lines: `QemuQuoting`, `Qemuopts`, `Qemuopts_proofs`

`QemuQuoting` has the three quotings of `qemuopts.c` as functions on sequences
of characters, and beside them, as references, how a shell and qemu's option
parser read such a sequence.  `Qemuopts` has an action per call of the builder
(`Extend` is `extend_options` with the array behind it: `nr_alloc` is what the
code believes, `allocated` what realloc gave it), and one per call of the
writers (`Fopen`, `WriteChannel`, `Fchmod`, `Fclose`), with their failures.
`calls` remembers what the client asked for; what the readers make of the
output is compared with it (`MeantByAll`).  The readers go through a string from
left to right (`Run`), one step per character (`ShStep`, `QemuStep`) or word
(`OptionStep`).  The layout of a configuration file is left
out: it is a sequence of sections.

* `Tools` checks any four calls with one failure: a list needs a start
  and two elements before two of them can be confused, and four options make
  the array grow three times.  The values have a character of each kind that a
  reader treats specially.
* `QemuConfigId` shows a defect: the id of a section is found by a comparison
  of two characters, so `idle=1` is taken for it.  `ReadersSeeWhatWasAsked` is
  therefore about configuration files whose elements have no other name that begins
  with id.  An element that is exactly `id` makes the code read on behind its end:
  `PastTheEnd` is what may be there.  Empty values, which nothing in the output
  marks, are excepted too; both are listed hazards.

Proved for any flags, values and elements, any number of calls and any failures:
`TypeCorrect` (no write outside the array without a failure before, and the
assertions of the list calls hold), `FileCorrect`, from an invariant that
relates the size of the array, the phase of the client and the state of the
file, and `ReadCorrect`: whatever was asked for is what qemu reads
(`ReadersSeeWhatWasAsked`).  Its argument has four parts.

* A reader is a function that is defined by recursion over the positions of a
  string.  `Recursion` and `SameRun` show that there is such a function and only
  one; from that `ReadsMore` and `ReadsOn` give what a reader makes of one more
  character, and of one string after another, for the shell (`ShReads`), for
  qemu's commas (`QemuRunFacts`) and flags (`OptionReads`), and for the list of
  the calls (`AskedMore`).  `FlattenAppend` does the same for the `FlattenSeq`
  that the quotings are made of.
* Each quoting is undone by its reader, by induction on the string
  (`StringInduction`): `ValueReadBack` and `ListReadBack` for the commas,
  `ShShellQuote`, `ShCommaQuote` and `ShJoin` for the shell.  The induction on a
  list needs to say where qemu's reader stands after its first elements: inside
  the last one, which the comma before the next element ends since no element
  is empty or begins with a comma.
* An option is read independently of what comes before it: the shell stands
  between two words after every line (`Stands`, `LineRead`, `ScriptRead`), and
  what begins with a flag begins another option for qemu (`OptionsOn`,
  `OptionsApart`).
* The invariant `WInv`: until something is written outside the array, the
  options are exactly the calls that succeeded (`AskedInv`), and what is
  reported as written is the form of these options (`ContentInv`).  The step
  that needs care is the append to a list, which changes the last option and
  must change the last call in the same way (`AppendedAsAsked`).

Assumed (`QemuoptsAssumption`, `StringsAssumption`): an element of a list is not
empty and begins neither with a comma nor with an equals sign; flags consist of
safe characters; no value begins like a flag (the reader finds options by their
flags, since `qemuopts.c` knows no more of qemu than that; qemu itself knows
which of its options have a value); the name of the binary is not empty; and
what the client quotes itself ("not quoted") is quoted to its end, and begins with a
flag when it is a whole option.  `Characters` are any that include those of the
quoting.

### Programs that walk, match and query: `Appliance`, `Visit`, `WindowsPath`, `Pcre`, `Xml`, `Bindings`, `Bindings_proofs`

Helpers that keep state between calls or across callbacks.  They share nothing,
so `Bindings` is a program that uses one of them: it walks a guest, matches
regular expressions or queries documents.  `Appliance` is the part of
libguestfs that the first two need, the device that is mounted and the tree of
files on it.

`WindowsPath` has an action per call of `mount_drive_letter`; a path is its
drive letter and a sequence of names and separators, and `SameName` relates
names that differ in case.  `Visit` keeps the recursion of `_visit` as a stack of
frames with the lists that the C function holds: names, types, and the
attributes of all files in one list, which it goes through with `xattrp`.
`ListDir`, `VisitEntry` and `EndDir` are the parts of its loop, the visitor's
callback returns, fails, raises (if it is a closure of OCaml) or removes a file,
and `Unwind` passes a failure up; `VisitReturns` is the end of the stub in
`visit-c.c`.

`Pcre` has an action per function of `pcre-c.c` with the thread that calls it;
`heap` holds the structures that are allocated, `matched` remembers each thread's
last match.  A function holds the lock of the OCaml runtime, but where it
allocates, finalisers may run: `sub` is two steps for that reason, `Sub` that finds
the length of a group, and `CopyText` that copies it.  The match data keep a
pointer to the regexp, where the C library looks up how many groups there are;
when a finaliser has freed it the answer is arbitrary (`Misread`), so that `sub`
may raise `Not_found` or `Error` for a group that took part.  Since `matches`
promises nothing of the regexp's life, `OwnLastMatch` excepts these answers, and
the hazard is listed.  The result of `pthread_setspecific` is ignored by the code,
after the match before has been freed; it is taken to succeed, which it does but
for a thread's first match in lack of memory.

`Xml` has the OCaml values with the C pointers in them, `Drop` for a value that
the program forgets, `UnlinkNode` for `unlink_node`, which frees the node and all
below it, `Collect` for a collection that finds some of the values unreachable,
and `Free` for one finaliser: OCaml runs the finalisers of one collection in the
reverse order of their registration, and those of an earlier collection first.
Nodes that a program adds are objects; those it only finds are not told apart
from their document, which frees them, nor the namespace nodes of a result from
the result.

* `Programs` checks two trees, one three levels deep with attributes
  whose values look like counts, the other with two names that Windows does not
  tell apart and a file whose attributes cannot be read; two drives, of which
  one is mapped twice; one file removed by the visitor; two threads, three
  matches of one regexp with two groups; and four objects of XML in any number
  of collections.  Three levels are the least where a failure is passed through
  a frame that is neither the first nor the last, two threads and two matches
  the least where one overwrites the other's, and a document with a context, a
  result and an added node that it has found are four objects.  No liveness: each loop goes over
  a finite list.  A program ends, so a deadlock is not an error.
* `OwnLastMatch` says of `subi` that the indexes of a group which took part are
  given, and those of another group only below the last that did.  `PcreSubi`
  shows what that means: such a group has -1 and -1, while the documentation says
  that `subi` is the same as `sub` and raises `Not_found`.
* `OwnersOutlive` is about the garbage collector: no value of the program holds a
  pointer that has been finalised, nor a node of its own document that has, and an
  object is freed before its document and that document's nodes.  It leaves out
  what a value does not keep: a current node of another document, the result whose
  namespace node a value is, and a node that `unlink_node` has freed.
  `XmlDangling` shows the last of these: the program drops an unlinked node, as it
  is told to, but a result has the node in its set, returns it, and reads it when
  it is itself freed.

Proved for any trees, attributes, removals, drives, threads, regular expressions
and documents: `TypeCorrect`, `VisitCorrect`, `FailureCorrect`, `FileCorrect`,
`MatchCorrect`, `OwnersCorrect`.  The only assumptions are that a file system
is a tree (`FilesystemsAssumption`), that a path is a sequence
(`PathsAssumption`) and that the values which stand for nothing
are none (`VisitAssumption`, `PcreAssumption`, `XmlAssumption`).  The
invariant has one part per helper.

* `WalkInv`: what a frame's lists say is what the tree was when the visit began,
  and `xattrp` is the length of the attributes of the files before
  (`ListsOf`); the visitor has been called for the entries before the frame's
  position and for no other, while the list has every file that is left
  (`NamesOf`); and as long as nothing has failed, a directory for which the
  visitor has been called has been gone through, or is on the stack or next
  (`CompleteInv`).  The last one is what `NothingLeftOut` needs at the end, where
  the stack is empty: it follows by induction on the depth of a file.
* `PcreInv`: the structures that are allocated are those the threads' variables
  point to, no two threads share one, what a thread has been told is true of
  its own, and a call of `sub` that is under way has found a group of it.
* `XmlInv`: no object is found unreachable after its document, since the value
  of an object holds that of its document; a finaliser has run only after those
  of the objects of earlier collections and, within a collection, of those
  registered later; an added node is freed with its document, unless it has been
  unlinked before.

The list of attributes is a `FlattenSeq`, and the module proves what its
prefixes are.  Those proofs, and the one on depths, are inductions: the library's
induction theorems have an operator as a parameter, which the provers cannot
instantiate, but a *set* of numbers that has 0 and is closed under successor can
be given to a lemma (`Induction`, from the well-foundedness of `<`).
That the path which `windows_path` returns has the names of the one it was given
needs no induction: the functions that collect the names between slashes, after
backslashes have become slashes, and between separators of both kinds are the
same function (`SameComponents`).

## What is not modelled, and the plan

Not modelled for good: bindings and generated code (no state), the drawing of
the progress bar (floating point and terminals), what the guest's programs do,
and libguestfs itself, which appears as calls that succeed or fail.  Liveness
under fairness is only model-checked, since TLAPS has no rules for it here.

Planned, in this order:

1. `Domains` (libvirt's domains change between the two listings and between
   the count and the listing), as what the worker pool is given; `Planner`,
   `Bootloaders` and `Kernels`; the file reader of `whole-file.c`; the registry
   editor, with the sequence of download, edit and upload that `FileEdit` has.
2. The pure functions of `std_utils` and `tools_utils` against reference
   definitions over bounded inputs.
3. Composition of `Customize` with `Firstboot`, whose scripts are one of its
   operations: today `Customize` only knows that a script was added.
