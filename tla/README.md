# TLA+ models of gitbundle/modules

This directory has TLA+ specifications of the parts of `src/` that have state,
protocols or arithmetic a model checker can explore. It also has the TLC
configurations that check them. `PROJECT.json` is the machine-readable index. It
holds the components, the runs, the mutants, the map from every modelled definition
to the source lines it translates, the findings and the hazards.

## The system and its parts

`gitbundle/modules` is a library of Go packages for a git forge. Most of it is
configuration loading and wrappers around I/O, such as `setting/*`, `git/*`,
`highlight`, `markup` and `graceful`. Eight parts hold real logic:

| part | source | what it does |
|------|--------|--------------|
| secret encryption | `encrypt/aesgcm.go`, `encrypt/none.go` | An `Encrypter` strategy (`None` or `Aesgcm`) seals stored values. `Aesgcm.Compat` lets it read plaintext left from before encryption was turned on. `AesGcmKey32Encrypt/Decrypt` are raw helpers that only accept a 32-byte key. |
| hybrid encryption | `encrypt/ssh.go` | `EncryptWithSshKey` encrypts a payload to an `ssh-rsa` authorized key. Payloads of up to 256 bytes take RSA-OAEP directly. Larger ones get a random AES-256 key: the key is sealed with OAEP and the payload goes into a SHA-256-checked AES-CBC envelope (`encryptAES256`). `DecryptWithSshKey` and `decryptAES` reverse this. |
| license encryption | `encrypt/license.go` | Derives an AES key from `(sourceKey, shiftKey, shiftArray)` with `transferBytes` and `transformBytes`, then uses AES-GCM and base64. |
| RubyGems Marshal encoder | `packages/rubygems/marshal.go` | Writes Ruby Marshal 4.8 streams (gem specs). It keeps a symbol table for symbol links. |
| structured log entries | `log/logrus.go`, `log/multichannel.go` | `Entry.WithField/WithFields/WithError` make new entries with more fields. They reuse spare entries through a `sync.Pool`. `Info`, `Error`, ... and `Fatal` format an entry's fields and hand them to the `MultiChannelledLogger`, which gates on the level and builds the event. |
| options directory cache | `setting/options.go` | `Dir(name)` lists `<custom>/options/name` and `<static>/options/name` and caches the listing in a package-level map with no lock. `Locale`, `Readme`, `Gitignore`, `License` and `Labels` read one file, custom first. |
| LFS filesystem client | `lfs/filesystem_client.go` | An LFS endpoint that is a directory: `Upload` writes each object to `lfsdir/oid[0:2]/oid[2:4]/oid` in place (`MkdirAll`, the caller's content callback, `os.Create`, `io.Copy`), and `Download` opens that file and hands it to the caller's callback. |
| npm package parser | `packages/npm/creator.go` | `ParsePackage` decodes an `npm publish` document, validates the name, version and homepage, and checks the tarball against `dist.integrity`. |

These parts interact only through their callers. A license and a hybrid envelope
both end in AES, and the Encrypter is the store they would be kept in. Each part is
therefore a module of its own, and no module composes another. The one place
where goroutines share state are the options cache and the LFS object directory,
which are modelled with one process per goroutine.

## Modules

Every module keeps the control of the code: each guard, early return, error path
and panic, in the code's order. Data is abstracted to what the properties tell
apart. Each base module has an `MC*` module that gives the constants for TLC.

* **`Encrypter`** (`aesgcm.go`, `none.go`). The state is the active strategy
  `enc` (none, or AES-GCM with a key and a compat flag) and a store of slots. The
  actions are:
  * `UseNone` and `New`. `New` is not under `src/` and is modelled from the spec.
  * `EncryptNone`, `EncryptAesgcm` and `Key32Encrypt`.
  * `DecryptNone`, `DecryptAesgcm` and `Key32Decrypt`.
  * `Corrupt`, the environment flipping a stored byte.

  AES-GCM is symbolic: a sealed value opens only when it is intact and under its
  own key. Lengths are kept exact, because `Decrypt` branches on
  `len(ciphertext) < NonceSize`.
* **`SecretStore`** is the abstract specification of what the store promises,
  with no cryptography: slots hold the texts last written, a write stores or is
  refused, an authenticated read returns the slot's text or an error, and
  everything else (`Other`) promises nothing. `Encrypter` instantiates it with
  `contents <- written` and `reply <- StoreReply`, which maps an encrypt call to
  a write and a strict decryption (`Aesgcm.Decrypt` without compat,
  `AesGcmKey32Decrypt`) to a read; every other call maps to `Other`.
* **`HybridCipher`** (`ssh.go`). The state is the wire, which holds the messages
  sent, plus the next fresh AES key and the last call. The actions are:
  * `Send` (`EncryptWithSshKey`) and `Receive` (`DecryptWithSshKey`).
  * `Tamper`, `Splice` and `Craft`: an attacker who knows the public key and
    builds an envelope.

  Lengths are exact. They cover OAEP capacity (`ModBytes − 66`), the 8-byte length
  header, the padding (`PadLen`), the IV and the digest, because every branch of
  the code is a length test. The key texts are the formats
  `GenerateSshKeyPairs` makes (`ssh-rsa`, PKCS#1). Other formats a caller may
  pass are included too: junk, `ssh-ed25519`, PKCS#8 and non-PEM.
* **`License`** (`license.go`). The state is the set of issued licenses. The
  actions are `EncryptLicense`, `Verify` (`DecryptLicense` with any parameters)
  and `Damage`. The key derivation is concrete. `GoRem` is Go's truncating `%`,
  and byte sums wrap at 256.
* **`RubyMarshal`** (`marshal.go`). The state is the encoder's symbol table and
  the last `Encode`. `Encode(v)` runs the `marshal*` helpers: a recursive group of
  operators that writes a token sequence. Every Go map order of object members is
  tried (`Orders`). `Load` is a reference loader for Marshal 4.8 and is the
  model's oracle. It reads `r_object` as a pushdown machine: `Run` steps a load
  state with a stack of partly read arrays, objects and `_load` payloads. `IntLen` copies the code's range table, bug included: the
  three-byte negative case starts at −0x100000 where the two-byte case ends at
  −0x10000, so `Encode` rejects −1048576..−65537, which Ruby writes in three
  bytes. One unit test shows it; the hazard at `marshal.go:164` records it.
* **`LogEntry`** (`logrus.go`). Entries are numbered, and entry 0 is the package
  entry. The state is each entry's fields, the pool, the entries callers hold, and
  a ghost `origin` with the fields each entry may rightly carry. The actions are:
  * `WithFields`, `WithField` and `WithError`. These two include the deferred
    `releaseEntry`.
  * `Drop`: `sync.Pool` may discard an item at any time.
  * `Forget`: a caller drops an entry and it is garbage-collected.

  * `EntryLog(e, lvl)` for `Trace` .. `Critical`: `Entry.log` turns the fields
    into the line and calls the package `Log`, which is `Dispatch`:
    `MultiChannelledLogger.Log` and `SendLog` return early below `LogLevel`,
    look up the caller unless `NoCaller`, and add a stack from `StackLevel` on.
    `sent` is the event handed to `LogEvent` in that step.
  * `Fatal(e)`: the same at `FATAL`, then `os.Exit(1)`; no step follows it.

  Each call is one atomic step. Spare entries are private to a call between `Get`
  and `Put`, and the receiver's `Data` is one word. The message text, the caller's
  name and the stack text are left out: the event records whether they are there.
* **`Options`** (`options.go`). One process per goroutine calling `Dir`, with a
  program counter `pc[c]` over the steps of `Dir` and `directorySet.Add`. Every
  map access is a step of its own, and a map assignment is a begin/end pair
  (`writing`), since Go's runtime marks a map as being written in between. An
  access that overlaps another goroutine's assignment may throw (`Throw`: the
  process dies) or go through; `Restart` starts the process again with an empty
  cache. The state is the file system `fs` (each directory missing, failing
  `IsDir`, failing `StatDir`, or a set of entries: `StatDir(dir, true)` lists
  subdirectories as `sub/` beside the files), the cache `set`, and each
  caller's name, partial `result` (`acc`), the slice `append` read (`base`) and
  its last result (`out`). The actions are `Call`, `FilledCheck`, `CachedGet`,
  `ScanCustom`, `ScanStatic`, `AddOk`, `MakeBegin`/`MakeEnd`, `AppendRead`,
  `AppendBegin`/`AppendEnd`, `AddGet`, and the environment's
  `ChangeFs` and `Restart`. `util.IsDir`, `IsFile` and `StatDir` are not under
  `src/`; `StatDir` lists a directory's files in a fixed order (`FileOrder`).
* **`LfsClient`** (`filesystem_client.go`). One process per goroutine calling
  the client, with one object per call (`BatchSize` is 1). The state is each
  object's file (`absent`, `empty`, `partial` or `full`), each process's step
  and object, and what its last `Download` handed over (`got`). `Upload` is
  `StartUpload`, `MkdirAll`, `UploadCallback`, `Create` (truncates the file),
  `CopyStart` and `CopyRest` (`io.Copy` in two parts, so a reader can come
  between them); `Download` is `StartDownload`, `Open` (fails on a missing file)
  and `DownloadCallback`. Every step can return its error (`Fail`), and `Crash`
  restarts the process with the files as they are.
* **`NpmParse`** (`creator.go`). One variable, the outcome of the last
  `ParsePackage`; the action is one call on one of the `Uploads`. A name is a
  sequence of character classes, enough for `validateName`'s expression; a
  version is its parse; base64 text is what it decodes to; digests are symbolic.
  `versions` and `_attachments` are Go maps and `ParsePackage` returns from its
  first iteration, so the version and attachment checked are chosen with `\E`.
  `User.UnmarshalJSON` is part of the decode: a wrong-typed object fails it.

## Runs

| run | expect | what it shows |
|-----|--------|---------------|
| `encrypter` | pass | The strategies implement the abstract `SecretStore` (`SecretStoreRefined`): a write reports success exactly when it stored its text, and a strict read returns the text last written to the slot or fails, even after corruption, key changes and mode changes. A compat read returns both legacy plaintext and sealed values (`CompatReadsBothFormats`). Only 32-byte keys ever seal through `Key32Encrypt` (`TypeOK`). |
| `hybrid` | pass | Every payload length class round-trips between matching key pairs (`RoundTrip`). Under flips, dropped or added blocks, short texts, bad base64 and splices, a received AES envelope never yields a wrong payload without an error (`NoSilentCorruption`). |
| `hybrid_cut` | violation | If a hybrid message is cut to its first 256 bytes, decryption returns the AES key as the plaintext. |
| `hybrid_panic` | violation | An envelope that anyone with the recipient's public key can build, with a length field of its choosing and a correct digest, makes `decryptAES` panic in `make` (`NoPanic`). The run leaves out the texts that panic in one call, so this is the counterexample TLC shows. Those are an `ssh-ed25519` key in `EncryptWithSshKey` (`ssh.go:57`) and a non-PEM private key (`ssh.go:98`), and they are recorded as hazards. |
| `license` | pass | The Go derivation equals spec §4.3's formula (`DerivedKeyMatchesSpec`). This includes indexes past `len(sourceKey)` and shifts that wrap a byte. Intact licenses decrypt under their own parameters (`LicenseRoundTrip`). |
| `npm_integrity` | violation | A publish whose `dist.integrity` is `x-` (an unknown algorithm, empty hash) is accepted with any tarball: `bytes.Equal(nil, [])` is true (`IntegrityVerified`). |
| `marshal` | pass | Every stream from a fresh encoder, in every map order, loads back to the value encoded (`StreamLoads`). The symbol table stays a numbering 0..n−1 (`TypeOK`). |
| `log` | pass | Chains of calls with pool reuse, drops and collection, interleaved with logging and `Fatal`: pooled entries are never held by a caller and are always empty (`TypeOK`), and no entry carries a field from another chain (`NoFieldLeak`). |
| `log_fields` | violation | `l := WithField(..); l.WithField(..); l.Info(..)` logs a line without `l`'s fields, because `WithField` empties its receiver (`LoggedLineHasFields`). The entry `l.WithField` returns lacks `l`'s fields too: it is built on a spare from the pool, not on `l` (`logrus.go:59`). |
| `options` | pass | Two goroutines calling `Dir` over a changing file system, with throws and restarts: `Dir` never returns an entry twice (`NoDuplicates`), and a non-empty scan eventually fills the cache unless the process dies (`CacheFills`). |
| `lfs_torn` | violation | An `Upload` whose `io.Copy` fails after `os.Create` leaves an empty file under the object's oid, and a later `Download` opens it and hands it over as the object (`DownloadsWholeObjects`). A `Download` beside a running `Upload`, or a crash between the two calls, does the same: the object is written in place, with no temporary file and rename. |
| `options_race` | violation | Two `Dir` calls both miss in `Add`; the second `make` replaces the slice the first has just filled, so the first returns a listing without its own files and no error (`DirReturnsItsScan`). The accesses do not overlap, so Go's map check never fires. |

Two earlier questions are no longer runs. The 191–256-byte payloads that cannot
be encrypted are an open question of spec §9, not a disagreement, and stay a
hazard. The license parameters that open a license under other values follow
from spec §4.3's own formula, which `DerivedKeyMatchesSpec` checks; the
contradiction inside §4.3 is recorded with that hazard. The rejected negative
integers of `marshal.go` are recorded with their hazard: a single call shows them.

Each property of a passing run is broken by a mutant of the code, listed in
`PROJECT.json`. A mutant is an off-by-one, a dropped guard, a missing step or the
wrong entry returned to the pool.

## Bounds

* **Encrypter:** three keys (two of 32 bytes and one of 16), two texts (one
  shorter than the nonce), and two slots. This is enough for a rotation to leave a
  value under the old key beside a plaintext one.
* **HybridCipher:** three pairs: two RSA-2048 pairs, so a text can reach the wrong
  receiver, and one RSA-4096 pair. The payloads are 10, 32, 190, 200, 257 and
  312 bytes. These lengths are each side of the direct/OAEP bound, the OAEP
  capacity, a valid AES key length, and a length whose padding is a whole block.
  There are at most 3 messages. `MaxSliceLen` is Go's allocation limit scaled to
  TLC integers.
* **License:** a 5-byte source and the empty one, and shifts 0, 3 and 128. The
  shift arrays are a 16-index array and variants of it: an index of 7 (past the
  source), a negative index, and 15 entries (not an AES size). There are at most
  3 licenses.
* **RubyMarshal:** 25 integers at every edge of the `marshalIntInternal` ranges.
  The values also include strings, arrays, user-marshal, user-def, objects with two
  members (two orders), and a value that fails after defining a symbol.
* **LogEntry:** two keys (one is `"error"`), two values, and at most 4 entries
  alive. This lets a chain of two calls take a spare entry that another chain
  released. The logger's level is `INFO` and its stack level `ERROR`, so the
  level methods cover a dropped event, an event without a stack and one with it.
* **Options:** two goroutines (the least that race), one option name, two entries
  (a file `a` and a subdirectory `sub/`, so custom and static can hold the same entry and a listing has an order), and
  one file-system change, which can happen between any two steps. Every
  combination of directory states is an initial state.
* **LfsClient:** two goroutines and one object (the least for an upload and a
  download of the same object to meet), one crash.
* **NpmParse:** five names (valid, scoped, too short, leading `_`, trailing
  space), a valid and an invalid version, two homepages, six integrity strings,
  three attachments, four authors; one version per request, as `npm publish`
  sends.

The `options` run takes under two minutes; every other passing run finishes in
about a minute or less. The log configurations turn deadlock checking off: after
`Fatal` the process has exited and no step is possible.

## Fairness

Only `CacheFills` is a liveness property. `Options`' `FairSpec` makes each
goroutine's `Step` weakly fair: Go's scheduler preempts goroutines, so one that
can run keeps running. The file system, the restart and new calls are not fair:
nothing forces them. Every other component is sequential code called by its
user, and its properties are safety properties with no fairness.

## Not modelled

* `log/helper.go`, `console_other.go` and the rest of `multichannel.go` format
  and forward to event loggers outside `src/`. Message formatting and goroutine
  labels in `Log` only change the text.
* `setting/*` except `options.go` reads configuration once at start-up.
* `git/*`, `lfs` other than the filesystem client, `graceful`, `markup`, `storage` and
  `packages/content_store.go` are I/O or library wrappers.
* `highlight` picks a chroma lexer (the language, the custom extension mapping,
  then a 2Q cache of `lexers.Match` by file name) and formats with chroma. The
  cache memoises a function of the file name over a static registry, so callers
  cannot interleave to a different result. One behaviour a reviewer should know:
  `Code` returns its input unescaped when it is over 1 MiB or when tokenising or
  formatting fails, where `File` escapes the same text with `plainText`. A single
  call shows it.
* `timeutil/executable.go` reads the executable's mtime once under `sync.Once`.
  An I/O error on that first call returns without setting it, and the process
  start time is returned for good; this is recorded as a hazard.
* `util/*` and `validation/helpers.go` (other than `IsValidURL`) are
  character-level string processing with no state.
* `packages/npm/metadata.go` is plain data.
* `fileFromDir` in `options.go` and the readers behind it (`Locale`, `Readme`,
  `Gitignore`, `License`, `Labels`) read one file and change no state. Note that
  a `Dir` listing can name a subdirectory (`sub/`) that these readers cannot
  read.
* `regexplru` is a thin wrapper over a library LRU.

## Next steps

* An abstract cache for `Options` (a listing per name, filled once) and the
  detailed model shown to implement it where the race does not bite.
* A no-panic property for `transferBytes`.
* `ToSnakeCase` as a recursive operator checked against a reference definition.
* A run where `Upload` writes to a temporary file and renames it, to show that
  `DownloadsWholeObjects` then holds.
