# A formal model of dgr

dgr builds, tests, signs and publishes container images (ACI) and groups of
them (pods) with the help of rkt.  This directory holds TLA+ modules
translated from its source, TLC configurations that check them on small
instances, and TLAPS proofs of what matters most for every instance.

Paths below are relative to the repository; `dgr/x.go` is the main program.

## 1. The system

### Components

| Component | Code | State it keeps | Modelled by |
|---|---|---|---|
| ACI target and commands | `dgr/aci*.go`, `dgr/command.go`, `dgr/main.go` | files in `target/`: `image.aci`, `image.aci.asc`, `image.gz.aci`, `image.gz.aci.asc`, `tests-result/`; images and pods in rkt | `Aci`, `Builds` |
| rkt client | `dgr/common/rkt-client.go`, `exec.go` | one `globalArgs` slice used by all goroutines | `RktClient` |
| Pod commands | `dgr/pod*.go` | one target per app, result and error slices, `pod-manifest.json` | `Pod`, `PodBuild` |
| Internal images | `dgr/rkt.go` | `importMutex`, `builderImported`, `testerImported` | `Pod` (builder) |
| Dependency checks | `dgr/aci.go:147-175`, `aci-build.go:125-134` | `checkWg` | `Pod` (goroutines), `Lookups` (what they find) |
| Builder stage1 program | `aci-builder/bin-run/*.go` | the build pod's rootfs, `image.aci` | `Builder`, `BuildRun`; a few steps of `Aci` and `Pod` |
| Builder scripts | `aci-builder/files/dgr/**` | run levels in both roots, the mount point between them | `Builder`, `BuildRun` |
| Tester | `aci-tester/files/dgr/**` | `/dgr/tests-result` | `Aci` (loop and results), `Builder` (the test image), `Container` (the wait for the service) |
| Upload | `dgr/push.go` | one upload session per push, at the server | `Uploader`, `Publication` |
| Discovery | `dgr/discovery/*.go` | none: a walk over the prefixes of a name | `Uploader` (the walk of a push) |
| Configuration and home | `dgr/home.go`, `env-map.go` | `config.yml` | `Lookups` |
| Names and versions | `dgr/common/acfullname.go`, `version*.go` | none | `Lookups` |
| Manifests | `dgr/common/*-manifest.go` | none | presence in `Aci`, failure of the template in `Builder` |
| Templater | `bin-templater/template/*.go` | rendered files | `Container` |
| Attributes | `bin-templater/merger/merger.go`, the vendored `mergemap` | the merged attribute map | `Attributes`, used by `Container` |
| Graphs, version and config output, file helpers, release scripts | `dgr/*-graph.go`, `command-init.go`, `common/files.go`, `gomake` ... | none of their own | not modelled: formatting and I/O |

### How they interact

A cobra command (`command.go`) makes an `Aci` or a `Pod` out of the working
directory and calls its method.  The methods of `Aci` call each other:

    Push -> EnsureBuilt, Test (under --test), EnsureZipSign, upload
    Install -> EnsureSign, Test (under --test), rkt fetch
    Test -> Install, buildTestAci, runTestAci, checkResult
    EnsureX -> nothing when the file of X exists, else what makes it
    Build, Try, Init -> Clean, RunBuilderCommand

`RunBuilderCommand` starts rkt with the builder as stage1; the builder program
runs the run levels of the ACI and tars the result into the target.  In the
builder, `builder.sh` runs part of the run levels in the root of the builder and
part in the root of the image, and copies others into the image, where other
ACIs inherit them.  When a container of the image starts, `prestart` merges the
attributes the image holds and renders its templates before the app is run.
Between two dgr processes only the files of the target, rkt's store and the remote
storage carry information.  `Pod` calls the same methods for every app; with
`--parallel` each app has a goroutine, and the goroutines share the rkt client,
the import of the builder, two WaitGroups and the result slices.

### What is hard

* Files are trusted because they exist, and some exist before they are complete
  (`image.aci`, `image.gz.aci`, and what gpg writes).  Nothing records which build a file
  comes from or whether it is complete, so every error path, kill and early
  return in one command is the initial state of the next one.
* Install, Push and Test are mutually recursive, and one mutable flag
  (`aci.args.Test`) ends the recursion.
* Clean-up is in deferred calls that are registered at different points, are
  skipped by `logs.Fatal` and by a kill, and only log their own failures.
* The goroutines of `--parallel` append to slices of one array.
* The verdict of a test run is read back from files a container wrote.
* Which scripts of a run level run, and where, follows from the presence of
  directories in two roots and from copies between them.
* What an app is configured with follows from the order of files, two parts in
  each of them, the environment and references between attributes; errors of
  the templater are passed over in some places and end it in others.

`PROJECT.json` lists every hazard with its line and the properties about it.

### What makes each component correct

* ACI target: all files stem from one build; a signature that gpg completed is
  one of the file beside it; a push sends the parts of one build; `clean X` works on a fresh
  build, `X` alone keeps the one that is there; nothing is pushed under
  `--test` without a complete, successful test run; nothing temporary stays in
  rkt after a success, and after an error only two images whose clean-up is
  deferred too late; every command returns.
* rkt client: rkt is started with the words the caller asked for.
* Pod: the manifest lists the image of every app or does not exist; nothing is
  delivered before every app is built; no error of an app is lost; no goroutine
  is left behind.
* Builder: every script that is in its root under its name runs once, in the
  documented order; the image holds the run levels others inherit, and the mount
  point of the build only where the ACI put something into it; success means
  that the image is there.
* Container: the app only starts on complete templates which show the values
  the layers of attributes give, read as YAML where they are templates.
* Tester: tests wait for the service under test as long as they say.
* Upload: the server is told how each upload ended; success means it has
  published; the request goes to the push endpoint of the longest prefix that
  answered completely and has one.
* Lookups: the first entry for the domain gives the keyring, or else, where the
  list has a default, its last entry; among versions of up to four numbers below
  100 a newer one is reported exactly when there is one.

## 2. The modules

### Aci

Models one ACI directory under any sequence of dgr commands.  A command is a
stack of pending method calls (`calls`): a method that only calls others is
replaced by its body (`Expand`), an error empties the stack (`Fail`), as every
caller of these methods returns it at once; only `Init` has something left to
do (`Unwind`).  `RunBuilderCommand`, gzip, gpg and the test container are followed
step by step by `phase`, because they write files or leave things in rkt while
they run.  So is gpg: `SignFile` creates the file of `--output`, with the content
`cut`, and `Gpg` completes it, takes it away, or leaves it; a kill between the
two leaves a file that later commands take for a signature.  `at` tells whether the builder works on the ACI or on the test ACI
that `buildTestAci` makes below the same target.

| Variable | Code |
|---|---|
| `target` | the four image files; each with the build it stems from, the builder command and whether it is complete |
| `results`, `ended` | `target/tests-result/*` and `end-of-tests` |
| `temps`, `installed` | rkt's store: what dgr put there for itself, the image under test (`tested`) included, and what the user asked for |
| `remote` | what the storage received: name from `image.aci`, payload, signature |
| `command`, `testFlag` | the parsed flags; `aci.args.Test`, which Push and Install reset |
| `calls`, `phase`, `at`, `failed` | the Go call stack |
| `nextTest`, `testRun` | the loop of `test.sh`, and how the last test container ended |

The constant `Faults` names what may go wrong beyond the errors that the code
reports and that are always possible: `kill` (at any point; a removal under way
stops in the middle), `tar` and `gzip` (a truncated file), `gpg` (a signature
that is cut off), `rm` (`os.RemoveAll`
removes only part), `imageRm` (rkt keeps an image), `stop` (the test container
ends early with a status rkt reports as a success).

`Builds` is what the directory promises without its files: one current build,
made by the running command on an empty place, and only the current build is
pushed.  `Promised` in `Aci` is the refinement mapping.

`AciInvariants` says why the properties hold: what is true at every step of a
command, told from the calls that are still pending.  Section 5 goes through
it.

### RktClient

Go's `append` on `rkt.globalArgs[1:]`.  `room` is the part of the shared array
behind the global arguments; a goroutine's slice either still lies in it or has
been copied.  `Capacity` is the capacity that growing by single appends gives,
so the room depends on the number of configured options (2 to 7 elements).
`AppendInPlace`, `AppendCopy` and `Exec` are separate steps, so goroutines
interleave between them.

### Pod

`main` and `next` are the main goroutine's loop in `processAcis`, `pc[i]` the
goroutine of app i in `processAci`.  The build of one ACI is reduced to the
steps that touch shared state: the target directory, the import under
`importMutex`, rkt, the result slices and the two WaitGroups.  `FailImport` is
`logs.Fatal` and ends the process; `PanicInCheck` is the panic on a dependency
whose name cannot be parsed (`acfullname.go:30`), which ends it from the
goroutine of a check.  Apps in
`OwnBuilder` name a builder image in their manifest and skip the import.  Without `--parallel`, `Spawn` waits until
the previous app is done; `mode` is chosen from `Modes` at the start.

`PodBuild` is the same command without goroutines.

### Uploader

One call of `Upload` (`push.go:64`) and the server it talks to.  `pc` is the
client: `open` (files, manifest, name), `walk` (the walk of `discovery.go` over
the prefixes of the name), `initiate`, `part`,
`success` or `failure` (the two reports), `done`.  The constant `Depth` is the
number of prefixes; `site` is what each of them offers and is chosen freely.
A turn of the walk gets no answer (`NoAnswer`), a page (`Discover`), or part of
one (`DiscoverPart`): `extractACMeta` stops at any ErrorToken and returns what it
has, and nothing tells the client that there was more.  `cut` remembers these
prefixes for the properties only.

`Send` puts a request on the network, the server handles it at some later time
and the client reads the reply (`Initiated`, `PartDone`, `SuccessReported`,
`FailureReported`), or sees it fail at any time before (`RequestFails`), also
when the server has handled it, or will.  A status 200 is `accepted`, a status
400 or a negative body `refused`, anything else `error`; `performRequest` hands
a 400 on like a 200, so a refused initiation leaves the client without URLs and
a refused part counts as uploaded.

The server is not part of dgr.  It opens one session, stores parts, and
publishes or cancels when it is told to; it may turn down every request.  With
`ServerChecks` it publishes only what is complete.  Both the run and the
theorems need of it only that it answers `accepted` to a report of success when
it has published.

`Publication` is what Push relies on: success implies published, an error
implies nothing.  `UploadAci` of `Aci` is that in one step; a server that
publishes after the client has given up is left to `Uploader`.

### Builder

One run of the builder: `Build` of `aci-builder/bin-run/builder.go` and the
scripts it starts.  `pc` is the root in which it is (`program` for the Go
program, `builder` and `rootfs` for the two roots of the scripts, `home` for the
commands try and init) and what it does there: a run level, or a command
between two levels.  `todo` holds the scripts of the running level, as
`execute_files` expands them; `EndBuilderLevel` and `EndRootfsLevel` are the
lines of `builder.sh` and of `step-build.sh` and `step-build-late.sh` that lead
to the next level.

| Variable | Code |
|---|---|
| `input` | the command, the run levels in the home of the ACI (for a test ACI its `tests` directory), those of the dependencies and of the builder's image, what the ACI's builder scripts put into the image, and whether scripts or files put something below the mount point (`below`) |
| `upper` | `$ROOTFS/dgr/runlevels` in the layer that is tarred; `Rootfs` lays it over what the dependencies bring |
| `staged` | `/dgr/builder/runlevels` |
| `mount` | `$ROOTFS/dgr/builder`, the mount point of the bind: `none`, `empty` or `used` (`Bind` makes it, `Fill` puts something into it, `MountGone` is the rmdir whose failure is ignored) |
| `done` | history: what was run and copied, where, in which order |
| `image`, `result` | `image.aci` and the exit of the program |

A script is told from another one by level and name only, because `cp -Rf` and
the overlay do: `Layer` is both.  Each command may fail (`set -e`, `onError`,
the errors of the Go program), and tar may also make no file without an error.

`BuilderAssumption` says what a directory is: finitely many files, each with a
name of its own; and that what the ACI, its dependencies and its builder scripts
bring is told apart.

`BuildRun` is the run without directories: it does a list of work in order.
`Plan` in `Builder` gives that list from the scripts alone.

### Attributes, Container

`Attributes` holds the operators of `merger.go`.  A tree is a function from
paths, sequences of the constant `Keys`, to values, with `"map"` for a node that
has children and `"nil"` for an empty one.  `IsTree`: what is above a path is a
map.  A value of `References` is a template that names one other path;
`AttributesAssumption` says that `"map"` and `"nil"` are none.  What the
template prints is read as YAML (`merger.go:200-206`): `Yaml` gives the tree
that becomes of a text (`"1.10"` the number 1.1, `"null"` nothing, `"{x: 1}"` a
map) and `Malformed` the texts that are an error; `Parsed` and `Became` put
them into `Templated`.  `Merge` is the vendored mergemap without its panic beyond 32
levels.

`Container` is the start of one container: `prestart` with the templater, and
the script of `test.tmpl` in a test container; with mode `try` it is the
templater as `dgr try` runs it, with `-c` and no scripts.  `tree` grows file by
file below `default` and `override` (`MergeFile`), then goes through
`Override`, `Environment` and `TemplateAttributes`.  Each file template goes
through `Render` in any order, as `Readdir` gives them; `file` tells whether its
target is still the old one, truncated, or what it shows.  The search for `<no
value>` (`NoValueFails`) does not see what is in or behind a line too long for
the Scanner of `file.go:103`: the templates of `LongLines`.  `InputAssumption` says
that attribute files are trees, and that no value in them is one of the words
(`"old"`, `""`, `"<no value>"`) with which `file` tells these cases apart.  Each
step may fail.
`Service` is the app under test, which comes up or ends at any time.

### Lookups

What a dgr process asks outside of the ACI: `Start` compares the version of rkt
(`NewRktClient`), `NextEntry` is one turn of the loop of `GetSignKeyring`, whose
`keyring` points to the loop variable itself, and `SkipUnversioned`, `BadName`
and `Lookup` are the turns of `CheckLatestVersion`.  A version is the sequence
of its parts, with `Text` for one that `Atoi` cannot read.

### MC modules

`MCAci`, `MCRktClient`, `MCPod`, `MCBuilder`, `MCContainer` and `MCLookups` only
define the values the .cfg files use; `Uploader` needs none.

In every module a definition directly above another one that differs from it in
one detail (`FlagKept` above `FlagAfterTest`) is a mutation of the code; it is
not used by the specification but shows that a property notices the change.

## 3. The runs

| Run | Instance | What it shows |
|---|---|---|
| `aci_commands` | 3 commands out of 17, every reported error, truncated tar and gzip, partial rm, 1 test file | each command keeps its promise after any two others, and returns |
| `aci_faults` | 4 commands out of 8, kill, truncated tar and gzip, an interrupted gpg, images rkt keeps, early end of tests | files, signatures and uploads never mix two builds, and a signature that is none is one gpg was stopped in; clean commands are fresh; the test gate on a clean target; `Builds` is implemented |
| `aci_try_push` | try, push | finding: see section 6 |
| `aci_stale_end` | two test commands; stop fault | finding |
| `rkt_sequential` | 2 goroutines, 5 global arguments, `--store-only` | calls that use the room are right when they do not overlap |
| `rkt_options` | 2 goroutines, 3 global arguments, overlapping | finding |
| `pod_goroutines` | 3 apps, one with its own builder, `push` with and without `--parallel`, errors everywhere and a panic in a check | manifest, deliveries, import, clean-up, the refinement of `PodBuild`, termination with the mutex and both WaitGroups |
| `upload_server` | 3 prefixes with every combination of endpoints, each of which answers, does not, or breaks off, a signed ACI, a server that checks | success, errors and endpoint of an upload; the refinement of `Publication` |
| `builder_runlevels` | every subset of five run levels of an ACI with two scripts in build, of three scripts of a dependency, with and without scripts of the builder and of builder scripts; something below the mount point or not; the test build with empty directories; try and init | order, place and completeness of the run levels; what the image holds; the refinement of `BuildRun`; the run ends |
| `builder_inherited` | an ACI with one inherited script, every subset of three of a dependency | finding |
| `container_templates` | two attribute files out of 28 each, three environments, two templates, and smaller trees for tests and try, where a file may not be listed; 3 tries of `wait.sh` | apps start on the right values; how long tests wait; the start ends |
| `lookups_versions` | all lists of up to 3 sign entries over 2 domains; all lists of up to 2 dependencies with 8 versions; 3 releases of rkt | the keyring of a domain; which newer versions are reported |

Why the bounds are enough.

* `MaxCommands`: the only memory between commands is the target, rkt and the
  remote storage.  Two commands make any mixture of old and new files, the
  third and fourth use it.  The proofs of section 5 have no bound.
* `NumTests = 1`: a run then ends before, or after, all results are written;
  more files add no other verdicts.
* Two goroutines make every overlap of two appends.  Three apps, two of which
  need the import, make every order of lock, import, failure and Done; the
  theorems of `PodProofs` hold for any number of apps.
* Three prefixes make a walk with a first, a middle and a last turn; three parts
  likewise.  Every request is sent at most once, so the network has no bound.
* `NestingBounded` states depth 10: the deepest legal nesting, push --test on an
  empty target, needs fewer, and a recursion that does not end passes it.

* Run levels: a level with no script, one or two, and a script of one name in two
  places, make every case of the conditions and copies in `builder.sh`; each
  condition reads at most three levels, and all subsets of five are tried.
* Attributes: two files give every order of two layers, with a value, a map or
  nothing at one path, and one reference to a text that YAML changes; the third
  layer is the environment.  One of the two templates has a long line.
* Sign entries: the first, the last and one between; versions: one part more,
  one less, equal parts, 9 before 10 and a part that is no number.

Deadlock is only checked in `RktClient`: everywhere else the last command, the
upload, the run or the start ends.

### Fairness

`LiveSpec` of `Aci` asks for weak fairness of the steps of the running command
only: the process has one thread there and goes on whenever it can, provided
that rkt, gpg, gzip and the upload return, which is assumed.  Typing a command
and a kill are never forced.  `LiveSpec` of `Pod` asks
that some goroutine runs as long as one can, which the Go scheduler grants;
every goroutine only moves forward, so it does not matter which one.  `LiveSpec`
of `Builder` is the same for its one process and the scripts it waits for:
scripts are assumed to return.  `LiveSpec` of `Container` asks it of the
program and not of the service, which may never come up.
No fairness chooses between success and error of a step.

## 4. Properties

The ones a test would hardly reach, with the code they are about:

* `SameBuild`, `SignaturesVerify`, `RemoteConsistent` (Aci): the Ensure methods
  (`aci-build.go:237-275`) look only at existence.  It works because
  `RunBuilderCommand` never starts on a target that is not empty and every
  file is derived from another one of the same target.  It does not work for a
  signature gpg was stopped in: the two properties say that this is the only
  way to a signature that is none, on disk and in what is pushed.
* `GatedByTests` (Aci): under `--test`, and for `dgr test`, no upload and no
  success without a complete successful run of the test container of this very
  command.  When the container may stop early with a success it needs the clean
  target `aci_faults` starts these commands on; see `aci_stale_end` for the other
  case.
* `FreshAfterClean`, `AlreadyBuiltKept` (Aci): README.md:48-54.
* `InstallPersists` (Aci): `install --test` runs `Test`, which installs and then
  removes the same image from rkt; only the order in `aci-install.go:13-20`
  leaves it there.
* `CleanedUp` (Aci): after an error only two images may stay (`Leaked`), because
  their clean-up is deferred too late: the stage1 image (`aci-build.go:58-69`),
  and the image under test when no test container was started, as `cleanupTest`
  is deferred by `runTestAci` (`aci-test.go:33-36`, `91`).
* `NestingBounded`, `Terminates` (Aci): the recursion through `--test`.
* `CommandsIntact` (RktClient).
* `ManifestMatchesImages`, `DeliveredWhenComplete`, `ImportedOnce`,
  `FatalLeavesOnlyOwn`, `QuietAtEnd`, `Terminates` (Pod).
* `SuccessIsPublished` (Uploader): although a refused part goes unnoticed, and
  any request may be handled after the client saw it fail, nil means published:
  everything hangs on the answer to the last report (`push.go:258-268`).
* `ErrorIsKnown` (Uploader): a session is left open, or published after an
  error, only if a request that opens or closes it failed, and the error says
  so; a failed part alone never does (`push.go:145-155`).
* `EndpointIsClosest` (Uploader): the walk accumulates what the prefixes offer
  and stops at the first that offers anything; the endpoint used must still be
  that of the longest prefix with one, unless a longer one could not be asked or
  its page broke off.
* `ImplementsBuildRun` (Builder): each script that is in its root under its name
  runs once, in its place, although it is the presence of directories in two roots that decides whether
  `builder.sh` enters the image at all (`builder.sh:92`, `129`), and success comes
  only after a complete image.  Of two inherited scripts with one name only the
  ACI's is there: what README.md:128 and 130 say of the other one is
  `InheritedExecuted`, see section 6.
* `ImageComplete` (Builder): the layer that is tarred holds the run levels
  others inherit.  The mount point of the build stays in it exactly when the
  ACI put something below it, since `rmdir` ignores its failure
  (`builder.sh:138`), and never because one bind made it after the removal of
  another, on every way through the script.
* `AppConfigured` (Container): whatever fails on the way, an app only starts
  when every template shows the value of the last layer that has its
  attribute, or what YAML makes of the text where that value is a template; with
  `-c` this holds for the templates that were not passed over.  A `<no value>`
  stays only where a line too long for the Scanner hides it.  Stated without
  merging, for files that agree on what is a map and leave neither default nor
  override empty.
* `WaitedForService`, `Terminates` (Container): tests start when the service is
  up, or after all the tries and not one earlier; the start ends either way.
* `KeyringForDomain` (Lookups): the loop variable that `keyring` points to goes
  on changing.  The first entry that lists the domain wins; when none does, a
  default anywhere in `config.yml` makes the result the last entry, whatever that
  is for; and it is an error exactly when there is neither.
* `WarnedIffOlder` (Lookups): `compareTo`, part by part, against the order of
  the numbers the versions stand for, where these are up to four numbers below
  100.
* `ImplementsBuilds`, `ImplementsPodBuild`, `ImplementsPublication`: the
  other refinements.

## 5. What is proved

All theorems are checked by TLAPS for every value of the constants that the
named assumptions allow; a theorem that needs more says so in its `ASSUME`.
Each of the inductive invariants was found with TLC on the instances of section 3
before it was proved.

`AciProofs`
* `TypeCorrect`: `Spec => []TypeOK`.  The main work is that every method body is
  a sequence of calls and every error path leaves one.
* `BuildInvCorrect`: `BuildInv` is inductive, if `"rm" \notin Faults`.
  `SameBuild` alone is not: from an arbitrary state in the middle of a build,
  tar could write beside an old signature.  The strengthening adds that a
  builder at work on the ACI has an empty target (`EmptyBeforeTar`), that tar has
  its file (`TarHasImage`), and that files are numbered by commands that were
  typed (`Numbered`).
* `SameBuildCorrect`: what follows from it.  With `rm`, a failed
  `os.RemoveAll` that is only logged (`aci-clean.go:9-15`), it is false.
* `BuildsImplemented`: `Spec => ImplementsBuilds`, step by step from `BuildInv`.

`AciInvariantsProofs`, for all commands, tests and command lines
* `StackInvCorrect`, `NestingCorrect`: `StackInv` gives every pending call the
  room its body needs (`Depth`), which is inductive where a bound on the length of
  the stack is not: a body is replaced by one that needs no more.  It also says that
  at most one pending call leads to a test container, since Push and Install
  reset the flag before they call Test, and that the bodies of Push and Test
  stay in their order.
* `FailInvCorrect`: after an error only the deferred clean-ups, and the `Clean`
  of `Init`, are still called.
* `SignInvCorrect`, `SignaturesCorrect`, `RemoteCorrect`, if
  `"rm" \notin Faults`: `SignInv` adds to
  `SignaturesVerify` that while a call that writes `image.gz.aci` is pending or at
  work the file has no signature, and the same for `image.aci`; and that a
  signature that is cut off is the one gpg is at, or one gpg was stopped in
  (`CutBy`).  A kill and an interrupted gpg are among the faults: what is proved
  is that every signature gpg completed is one of the file beside it and of the
  payload it is pushed with, and, where nothing can stop gpg, that each one it is
  not at work on was completed.  With `rm` both are false, see section 6.
* `GateCorrect`: `GateInv` says that a command which promises tests has passed
  them, or has a call pending that sees to them, and only one; that only such a
  command tests; and on which results `checkResult` is called.  It needs
  `GateAssumption`: where the test container may end early with a success (`stop`),
  commands that test clean first and `os.RemoveAll` does what it reports.
  Without it `GatedByTests` is false: that is the finding `aci_stale_end`.
* `CleanedUpCorrect`, if `"imageRm" \notin Faults`: `TempsInv` says for every image
  and pod during which phases it may be in rkt.  That the image under test only
  stays when no test container was started needs `OnceInv` (`OnceInvCorrect`):
  a command starts at most one, and has built the ACI that tests before.
* `InstallCorrect`: `FetchInv` says that the last pending call of an install is
  Install or the fetch it ends with.
* `FreshCorrect`, if `"rm" \notin Faults`: from `ImageInv` (a command that is to end
  with an image has one, is making one, or has a call pending that will) and
  `FreshInv` (what is there was made by this command).
* `KeptCorrect`: `KeptInv` says that a command without clean only ever reaches
  `CleanAndRun` when there is no image.

`RktClientProofs`
* `TypeCorrect`.
* `CommandsIntactWhenSafe`: for any number of goroutines, when `globalArgs` has
  2 or 4 elements (the defaults, or two more options), or calls do not overlap.
  `Inv` says that the content a goroutine sees of its slice is what it has
  appended; an append of one goroutine preserves it for the others because
  there is no room, or because no other one is between append and exec.

`PodProofs`, for any number of apps with different names (`Distinct`); the
panic of a check goroutine is among the steps (`PanicInvariant`)
* `PodInvCorrect`: `Inv` = the types, `LockInv` (who holds the mutex and what it
  guards), `AppInv` (what each stage of a goroutine implies about its image, its
  results and rkt), `LoopInv` (which goroutines exist), `CountInv` (the
  WaitGroups equal the goroutines and checks that run) and `EndInv` (what the
  end established).  No part is inductive alone: that the main goroutine may
  read the results after Wait needs `CountInv`, which needs `LoopInv`.
* `TypeCorrect`, `ManifestCorrect`, `DeliveryCorrect`, `ImportCorrect`,
  `FatalCorrect`, `QuietCorrect` follow from it.
* `PodBuildImplemented`: every step of the goroutines is a step of `PodBuild` or
  a stutter.

`UploaderProofs`, for names of any length, signed or not, and any server
* `IInv` = the types, `Walked` (no request before an endpoint is found, and what
  the walk passed over: a longer prefix with a push endpoint gave no answer or
  a page that broke off), `Told` (a reply to a report tells a final state of the
  session) and `Ended` (why the client returned).  `SuccessIsPublished` needs
  `Told`: that a reply of `accepted` is one to the report of success, and not to
  an earlier request handled late.
* `TypeCorrect`, `SuccessCorrect`, `ErrorCorrect`, `EndpointCorrect` follow from
  it, and with it `PublicationImplemented`.

`LookupsProofs`, for lists of any length
* `KeyringInv` = the types and `LoopInv`: no entry the loop has passed lists the
  domain, and `keyring` is set when one of them was a default.
* `TypeCorrect` and `KeyringCorrect` follow from it.
* `WarnedCorrect`: `LessThanWeight` shows that the comparison part by part is the
  order of the numbers two versions stand for, for all versions of up to four
  numbers below 100; `WeightIs` unrolls the recursive function of the reference.
  `WarnedIffOlder` itself is then inductive.  Longer versions have no weight of
  `Width` digits, and the property says nothing of them.

`BuilderProofs`, for every set of run levels and scripts
* `GlobType` is the lemma the rest hangs on: the place of a script in the order of
  its level is taken by exactly one, so that `execute_files` has a next script as
  long as one is left.
* `TypeCorrect`: `TypeInv` and `LayerInv`, which says for each place of `pc` what
  has reached the layer by then.  `ImageComplete` talks about the end only; what
  makes it inductive is the record of the copies done so far.
* `ImageCorrect` follows from them.  `LayerInv` says for the mount point that it
  is used exactly when something was put below it, and empty otherwise until the
  rmdir that follows the last bind.
* `BuilderImplements`: `Spec => ImplementsBuildRun`.  `PlanInv` says that what was
  done, followed by the scripts still to run in this level and the plan of the
  levels still to come, is the plan of the run; each step then takes its head or
  stutters.  The conditions of `builder.sh:92` and `129` read directories the run
  itself has changed, and `PlanInv` says that they decide as the plan does.

`ContainerProofs`, for any number of attribute files, templates, keys and tries
* `TypeCorrect`: merging, going below a key and resolving references each make a
  tree of trees (`MergeTree`, `BelowTree`, `TemplatedTree`).  What YAML makes of a
  text is a tree of its own in the place of a value; `PlacesApart` says that no two
  of them meet, and `OnTheWay` that what is above one is a map.
* `ConfiguredCorrect`: `Shows` says that a tree is what a sequence of layers
  amounts to, without a merge.  `MergeShows`: a merge appends the layers, if the
  two sides have their maps in the same places, which `ShowsAgree` gets from the
  layers and these from `Consistent`.  `BelowMerge`: merging and going below a key
  commute, so the files can be read below `default` and `override` although the
  code merges them whole.  `MergeInv` says for each step of the templater which
  layers the tree shows by then, and `TemplatedShown` that resolving references
  keeps it showing them, read as YAML (`Resolved`); `RenderInv` what the rendered targets hold.
  Without `Consistent` the second half is false: a file that has a value where
  an earlier one has a map cuts off what is below, and a later map does not
  bring it back, while the layers still have it.  Of a template with a line too
  long for the Scanner the theorem leaves open whether it shows a `<no value>`.
* `WaitCorrect`: from the types, for every `MaxTries`.

Only model-checked: `Terminates` of `Aci`, `Pod`, `Builder` and `Container`, as
fairness and ENABLED are outside of TLAPS; and the runs that find a violation.

## 6. Findings

* `aci_stale_end`: `tests-result` is never emptied (`aci-test.go:89`), so a
  second `dgr test` whose container stops early with a success is accepted.
* `aci_try_push`: `dgr try` leaves an `image.aci` in the target of `dgr build`,
  and `dgr push` takes it for a built one.
* `builder_inherited`: README.md:128 and 130 say that inherited scripts are
  "executed while used as a dependency", but one of the same name as a script of
  the ACI is replaced (`builder.sh:76`, `81`) before it could run, and `dgr init`
  gives the scripts of every ACI the same names.
* `rkt_options`: with `--parallel` and, for example, one configured option, two
  goroutines overwrite each other's sub-command.

More that the models contain, or leave out as section 7 says, and no run singles
out; the properties of section 4 allow for the ones they meet:

* A kill, or an interrupt of gpg, leaves a `.asc` that is empty or cut
  (`aci-sign.go:37`).  It exists, so the next `dgr push` uploads it, and
  `dgr install` trusts it as well.
* The check behind the wait for a service compares a constant word
  (`test.tmpl:23`), so the tests run against a service that is not up; the branch
  that says "WAIT FAILED" is never taken.
* A `<no value>` in or behind a line too long for a `bufio.Scanner` is not seen
  (`file.go:102-114`), and the app starts on it.
* A templated attribute is read as YAML once more (`merger.go:200-206`): a name
  that refers to `"1.10"` has the value 1.1.
* The comment of `DiscoverEndpoints` (`discovery.go:223-225`) says that it goes on
  until it has "found an image discovery"; the walk stops at the first prefix with
  any kind of endpoint, so a push fails when a shorter prefix has the push
  endpoint.  A page that breaks off counts as read (`discovery.go:96-99`).
* When `buildTestAci` fails, the image under test stays in rkt
  (`aci-test.go:33-36`, `91`).
* The directory of the mount point stays in the image when something of the ACI
  is below it (`builder.sh:138`).
* `zipAci` drops the errors of both deferred Close calls (`aci.go:137-140`); a
  truncated `image.gz.aci` is signed and pushed.  A build killed while tar writes
  `image.aci` in place leaves such a file as well.
* With `rm`, `FreshAfterClean` and `SameBuild` fail: `Clean` only logs
  (`aci-clean.go:9-15`).  With two apps of one name, `ManifestMatchesImages`
  fails (`pod.go:81` has the check as a TODO).
* `GetSignKeyring` returns the last entry of `config.yml` for the default
  (`home.go:45`), which may be the keyring of another domain, and not the error of
  `home.go:55`.
* Versions that dgr generates are compared by their date only: the part with the
  time and the hash is not a number (`version.go:25-29`).
* A dependency whose name cannot be parsed ends dgr with a panic
  (`acfullname.go:30`), and so does an attribute that cannot be templated, before
  the Fatal that is meant for it (`bin-templater/main.go:85`).
* Attribute directories are merged in the order of their names, "pod" among them
  (`merger.go:63`), while README.md:32 says that a pod comes after its ACIs.

## 7. Not modelled

* Two dgr processes on one target at once, and two tars writing one file: the
  code has no lock and promises nothing.
* Contents of images, manifests and scripts; names are identities.  Of a template
  the one attribute it prints; the template functions and the clean-up of
  template text (`templating.go`) are text, and the partials and `define`s that
  share one namespace are left out.
* The files, templates and attributes `builder.sh` copies are one step
  (`CopyFiles`); the pod's attributes in the builder, the shells that
  CATCH_ON_ERROR and CATCH_ON_STEP open and the command line of nspawn are left
  out.  Directories of attribute files are a flat list.
* Ownership, logging, exit codes beyond success and failure.
* The Maven upload of the pod manifest; pod sign, test, try (loops over the
  ACI's methods); `dgr init` of a pod (only logs).
* What rkt, gpg, tar and gzip do inside.  rkt is one step with the outcomes the
  code can see; gpg, tar and gzip are two, between which their file is there and
  not complete, and a fault leaves it so.
* The 32 levels after which mergemap panics; texts of attributes other than
  those `Yaml` and `Malformed` stand for.
* The errors of reading `tests-result` (`aci-test.go:52-55`, `64-67`) are the error
  of `CheckResult`, as a failed test is.
* Redirects, headers and the progress bar of an upload; the upload with curl to
  Maven, which `UploadAci` covers as a step that succeeds or fails.  The
  templates of the endpoints, and whether a page was fetched with HTTPS or HTTP.
* Graphs, version output and release scripts.

## 8. Plan

1. Proofs: what of the gate and of the signatures holds with `rm`; which layers an
   attribute has in files that are not consistent.
2. Pod sign, test and try, and `Pod` with `Aci` for each app.
3. `Discovery` beyond the walk of a push: keys and images.
