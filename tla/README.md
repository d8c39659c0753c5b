# A TLA+ verification of Keyczar

Keyczar is a library for encryption and signatures in which an application never
names a key: it opens a *key set*, a directory of numbered key versions with a
status each, and the library encrypts or signs with the primary version and
finds the version for decryption or verification by an identifier in the
message's header. The repository has three implementations (Python, Java, C++)
and a command line tool for each that creates key sets and rotates their keys.

The specifications follow the Python code, `src/python/src/keyczar/`, which is
complete and the most explicit one. Where the Java code does the same thing in
another order, both orders are modelled; the Java stream cache, which Python has
no counterpart of, and the C++ tool, which stores a key set in a way of its own,
have modules of their own.

## 1. Inventory

| Component | State | Operations | What makes it correct |
|---|---|---|---|
| Enumerations (`keyinfo.py`) | none | sizes, default size, kinds the tool can create or export | public kinds follow from private ones |
| Key metadata (`keydata.py`) | listed versions and their statuses | AddVersion, RemoveVersion, GetVersion, JSON | at most one PRIMARY |
| `GenericKeyczar` (`keyczar.py:59-306`) | metadata, `_keys`, `primary_version` | AddVersion, Promote, Demote, Revoke, PublicKeyExport, Write, load | `primary_version`, statuses and `_keys` tell one story, also after an error |
| Key set tool (`keyczart.py`, `readers.py`, `writers.py`; Java `GenericKeyczar.java`) | the directory: `meta` and one file per version | create, addkey, promote, demote, revoke, and loads by applications | a directory that can be loaded, with the right keys, and no revoked key in it, whoever runs at the same time and wherever a process dies |
| AES keys (`keys.py`) | key and HMAC key | `_Pad`, `_UnPad`, Encrypt, Decrypt | Decrypt inverts Encrypt and rejects all else |
| Crypt streams (`keys.py:996-1283`) | buffers, cipher and HMAC state, the reader's stage | write, flush, close; read over a slow source | the stream is what Encrypt would make and is read as Decrypt would read it |
| Base64 streams (`util.py:507-832`) | bytes of a group that is not complete, decoded bytes not returned yet | write, flush; read over a slow source | the same bytes come out, however both sides are cut |
| Encrypter, Crypter, Signer, Verifier (`keyczar.py:301-673`) | a snapshot of a key set, never refreshed | Encrypt, Decrypt, Sign, Verify, attached and unversioned signatures | a rotation that goes one rung at a time and waits never makes a message unreadable |
| Sessions | session key and nonce | wrap, unwrap, signed sessions | both ends hold the same key |
| Java stream cache (`KeyczarKey.java`, `StreamQueue.java`) under Java's Crypter and Signer | queues of cipher streams, each with the state of two ciphers or a MAC | poll or make, feed, finish, add back; fail on the way | no stream in two hands, no data of one call in the result of another |
| C++ key set tool (`keyset.cc`, `keyset_metadata.cc`, `keyczar_tool.cc`, `rw/`) | the directory, with the next number in `meta` | create, addkey, importkey, promote, demote, revoke, loads | every version of `meta` on the way is a sound one; no number is used twice |
| Java timeouts | none | a time that is signed and compared with the clock | an expired signature is refused |

The components meet in these places. The tool and the applications share the
directory, without a lock, and files are truncated and filled in place. The tool
calls the `GenericKeyczar` mutators between a load and a write. Applications
exchange messages made with snapshots of the directory of different ages. Threads
share a Java Crypter, and through it the keys' queues of streams. The decrypting
stream reads through a Base64 stream when the caller asks for encoded data, and
that one reads from a file or a socket; each layer has to cope with the layer
below it returning less than was asked for, more than was asked for, or `None`.

What is hard to test, line by line, is the list `hazards` of `PROJECT.json`. In
short: orders of legal calls on one object, and the state after a call that
raised; processes interleaved file by file; a process that dies between two
files; numbers that are given out twice; objects that are older than the key set
they work for; threads that share streams, some of whose calls fail; where a
stream may be cut; and read loops that must neither stop early nor spin.

## 2. Modules

```
KeyInfo <- Keyset <- GenericKeyczar <- MCGenericKeyczar
                  |                 <- GenericKeyczarProofs (with KeysetProofs)
                  <- AtomicKeyset
                  <- Keyczart  (instantiates AtomicKeyset)  <- MCKeyczart
                                                            <- KeyczartProofs (with KeysetProofs)
                  <- KeyRotation <- MCKeyRotation
                  |              <- KeyRotationProofs (with KeysetProofs)
                  <- CppKeyset <- MCCppKeyset
                               <- CppKeysetProofs (with KeysetProofs)
StreamCache <- MCStreamCache
            <- StreamCacheProofs
AesKey <- EncryptingStreamWriter, DecryptingStreamReader
       <- CryptStream (instantiates both)  <- MCCryptStream
                                           <- CryptStreamProofs
Base64WS <- Base64Stream <- MCBase64Stream
                         <- Base64StreamProofs
```

**KeyInfo** has the enumerations. **Keyset** has the state of a `GenericKeyczar`
as one record, `Czar`, and each mutator as an operator on it: `Added`,
`Promoted`, `Demoted`, `Revoked` with the conditions `CanPromote` and so on that
decide whether the method raises, and `Rebuilt`, what a load makes of written
files. `listed` is `KeyMetadata.__versions`, `key` is `_keys`. They differ on
purpose: Revoke takes a version out of the first only.

**GenericKeyczar** is the object in the hands of one caller, one action per
method and per way a method raises. A caller can catch the exception and go on,
so an action that raises keeps what the code had changed by then:
`AddVersionOfPublicType` has already switched the primary when `GenKey` refuses.
`WriteAndRead` and `ReadExported` replace the object by one that was loaded.

**Keyczart** is the tool. A process is idle, loading (one action per file,
`ReadMeta`, `ReadKey`), or writing (`OpenFile` truncates, `FillMeta` and
`FillKey` fill, `RemoveFile` is the last step of revoke); `Crash` ends a process
between any two of these. A file is missing, torn, or has content. `MetaFirst`
chooses between the order of Python (`keyczar.py:297`) and of Java. A crypter,
that is an `EncryptedReader`, can be given or not. A removed file that another
process has open stays open without a name, as on a POSIX system; a file that
two processes fill can end up with the tail of the longer content, which is
`Torn`. History variables, which no action reads, record the keys that the metadata stood
for (`holds`, `expects`), and the keys whose revocation has reached the meta file
(`dead`).

**AtomicKeyset** is what the tool promises to an administrator: commands that
take effect at once.

**KeyRotation** composes the key set with the objects that use it: an
administrator gives `addkey`, `promote`, `demote` and `revoke` commands, each at
once (the tool is Keyczart's business), and parties construct objects (`Read`)
and make messages with the primary they loaded. A message is the key that made
it and its form; which object reads which message is the operator `Reads`, which
looks a key up by its identifier as `_ParseHeader` does, or tries each as
`UnversionedVerifier` does. Nothing in the code stops an administrator who is too
fast, so the model has one who waits: `pace` is the number of commands an object may
be behind, and `NewStatus` the statuses at which a key may be added at that pace.
With a pace of one a key is added ACTIVE or lower, with two INACTIVE. That, and not
`addkey --status=primary`, is the discipline under which the properties hold.

**StreamCache** is a Java Crypter or Signer in the hands of several threads. A
call takes a stream from its key's queue, or makes one, feeds it the IV and the
chunks one by one, finishes it and adds it back; between any two of these steps
other threads run. A call fails where the code throws: on an output buffer that
is too small, on a signature that is another key's or nobody's; decrypt and verify then go
on with the next key of the same identifier. `fed` says whose data a stream has
in it, and a result is right if that is the data of the call and of no other.
Output is modelled for decrypt, as the list of chunks with the key that each was
decrypted with.

**CppKeyset** is the C++ tool. A `Keyset` tells its observer about each change
and the observer writes a file, so a command is a list of writes (`AddWrites`,
`PromoteKey`, and so on give the versions of `meta`), each of which truncates and
fills; `Crash` ends a process at any write and `FailWrite` is a write that fails
and is not noticed. addkey and importkey mark the key set as encrypted before they
make or take the key, so one that fails then has written `meta` (`AddKeyFails`).
promote, demote and revoke read `meta` only; addkey, importkey
and applications load all keys in the order of their numbers and stop at the
first they cannot take.

**AesKey** has padding, Encrypt and Decrypt over abstract bytes. A ciphertext
byte carries its position in the cipher stream and decrypts nowhere else, and a
signature byte carries all that was signed: an ideal cipher and an ideal MAC,
which is what the code takes the libraries for. **EncryptingStreamWriter** and
**DecryptingStreamReader** are the two classes; a call of `read()` is a sequence
of reads of the source, each an action (`SourceGives`, `SourceIsEmpty`,
`SourceEnds`), and `CreateKey`, `CreateCipher` and `DecryptMore` are what
happens when `__ReadBytes` returns. **CryptStream** puts one at each end of a
pipe that may lose its tail.

**Base64WS** and **Base64Stream** are the incremental coders, with groups of
three bytes and four characters and real arithmetic of what a part of a group
can hold. `Base64Stream` has both ends of a pipe too.

Definitions marked *mutant* are wrong versions of the definition next to them.
No specification uses them; each shows that some property would notice the bug.

## 3. Runs

Passing runs:

| Run | What it shows |
|---|---|
| `generic_keyczar` | Every order of calls on one object of every kind, three versions, two keys that collide on their identifier: `PrimaryTracksStatus`, `HashIdsDistinct`, `RevokedStaysInactive`, and the action properties `DownOneRungAtATime` (no call takes a version down two rungs) and `FailedCallKeepsKeys` hold. |
| `keyczart_python` | Python's order, an administrator and an application, no crash: the file operations implement `AtomicKeyset` (`ActsAtomically`), a concurrent load gets the keys its metadata stood for (`LoadMatchesMetadata`), no revoked key is in use again (`DeadStaysDead`) a directory at rest is clean (`RestingDirectoryIsClean`) and a revoked key leaves the disk for good (`RevocationCompletes`). With and without a crypter. |
| `keyczart_java` | Java's order and two crashes: `DeadStaysDead` and `LoadMatchesMetadata` survive, and a readable key set misses one file at most (`CrashCostsOneFile`). |
| `keyczart_race` | Two administrators at once and a crash: updates are lost but the metadata never names two primaries (`SinglePrimary`). |
| `crypt_stream` | Any cut into writes, pieces and reads, and any lost tail: the message is the one Encrypt makes (`StreamsLikeEncrypt`), what is returned before the end is a prefix of the plaintext (`ReturnsPrefix`), a stream long enough to have a signature ends where Decrypt would accept it and raises where Decrypt would raise (`ReadsLikeDecrypt`), and a reader that keeps calling gets the whole of a message that was not cut (`WholeMessageArrives`). |
| `base64_stream` | `TextIsEncoding`, `DecodesPrefix`, and `SurplusIsBounded`: a read gives at most twice what was asked for, which is what `DecryptingStreamReader!SourceGives` assumes of its source. A flushed stream is decoded to its end, which is reported only there (`AllIsDecoded`). |
| `key_rotation` | A rotating administrator and three objects of different ages: what one would make now the others can read now (`PeersCanRead`), and what was made at any time is read by all until its key is revoked (`ReadableUntilRevoked`), with paces of one and two, keys that share an identifier and version numbers that come back. |
| `stream_cache` | Two threads on one Crypter, or one Signer, with two keys of one identifier; calls that fail at each step: a stream has one holder (`OneHolder`), no cached stream has data of a failed call in it (`CachedAreReset`), a key never has more streams than its users can hold at once (`PoolIsBounded`), and every call gets the right result (`ServedRight`). |
| `cpp_keyset` | The C++ tool, an application, and one crash or failed write: no version of `meta` names two primaries (`OnePrimaryOnDisk`), at most the newest key is missing as long as `meta` can be read (`OnlyNewestIsMissing`), a revoked number is not listed again (`RevokedStaysGone`), loads get the right keys (`LoadedIsRight`) and the complete key file of a version that was not revoked is never overwritten (`UnrevokedKeyFilesStay`). |

Runs that are expected to fail, each a place where the code does something else
than a document or comment says (`findings` in `PROJECT.json` has the quotations):

| Run | What the counterexample shows |
|---|---|
| `revoke_crash` | Python's order: a revoke that dies after the meta file leaves the key file; when the number comes back, loads take the revoked key up until the new key file is written, or for good if that addkey dies too. |
| `colliding_keys` | Java's decrypt puts all chunks but the last into the caller's buffer while it tries the wrong key of two that share an identifier, so a long ciphertext of the other key comes out wrong. |
| `cpp_plain_key` | The C++ addkey does not look at the `encrypted` flag of a key set that has been emptied. |

More disagreements were met while modelling and have no run of their own.

In the Python code:

- `PublicKeyExport` goes through `_keys` (`keyczar.py:268`), so an object that has
  just revoked a version exports it still; the tool revokes and exports in
  different processes and is not affected.
- A command loads, changes and rewrites all files without a lock
  (`keyczart.py:153`): one that loaded before a revoke writes the revoked key back,
  where `docs/keyczar.tex:126` says that revoke permanently deletes it.
  `keyczart_python` therefore has one administrator. In the same way two `create`
  commands overwrite each other (`writers.py:116`), and what is written to a file
  that a revoke has removed meanwhile is lost (`writers.py:135`). `keyczart_race` has
  these steps; that an update is kept is not among its properties.
- `DecryptingStreamReader.read` reports a stream that ends before it could have a
  signature as the clean end of an empty message; `keys.py:1160` promises
  `ShortCiphertextError`.
- `EncryptingStreamWriter.flush` keeps its buffer (`keys.py:1078`), so a second one
  sends the same bytes again; `keys.py:1074` says "remaining".
- `IncrementalBase64WSStreamReader.read(0)` in the middle of a stream flushes the
  decoder (`util.py:830`; `util.py:704` says that undecoded data is buffered). It
  also returns the whole of what the decoder's flush gives, whatever `chars` is
  (`util.py:736` says "never"), and loops when its source returns `None`, where
  `util.py:739` says that it returns `None`.
- A version number is given out again when the highest version was revoked and the
  key set reloaded (`keyczar.py:170`; `docs/keyczar.tex:383` says that numbers
  "increase monotonically"): the counterexample of `revoke_crash` begins that way.
- Promoting an inactive version makes it active (`keyczar.py:217`), where
  `docs/keyczar.tex:119` says primary. `DownOneRungAtATime` speaks of moves down
  only and takes no side in this.
- `AddVersion` on a public key set takes the new version as primary before `GenKey`
  refuses (`keyczar.py:178`), and the object keeps a `primary_version` without a
  key. `PrimaryTracksStatus` and `FailedCallKeepsKeys` except this state.
- `Encrypt` and `Sign` are documented to raise `NoPrimaryKeyError`
  (`keyczar.py:336`), but `primary_key` raises `KeyNotFoundError` first, so the
  branches at lines 339, 363, 628 and 670 are never taken.
- `docs/keyczar.tex:332-339` rotates by adding a key as primary. An object that is
  still alive cannot read what the new primary makes: this is a pace of zero, at
  which no object may live through a command.

In the Java code: `AesStream.doFinalDecrypt` returns without a `doFinal` when there
is no text after the IV; no ciphertext that verifies is that short, since padding
is never empty.

In the C++ code: revoke leaves the key file, which a TODO admits
(`keyczar_tool.cc:423`), while the usage text says "The key will be destroyed"
(`keyczar_tool.cc:93`); `UnrevokedKeyFilesStay` speaks of versions that were not
revoked, and of their files only. An addkey or importkey that fails leaves an empty
key set marked as encrypted if a crypter was given (`keyczar_tool.cc:258`).
`CmdCreate` means to refuse an existing key set (`keyczar_tool.cc:153`) but takes a
torn `meta` for a missing one and starts the numbers again. Results of writes are
ignored (`keyset_writer.cc:24`). Three properties of `cpp_keyset` except what follows a
create over a torn `meta`, and two of these what follows a failed write.

### Bounds

- `MaxVersion` is 3 on one object, so that there are a primary, a former primary
  and a revoked version at once, and 2 in the tool, where a number must be able
  to come back (version 2 revoked and added again) beside a version that stays.
  Three keys are enough for that; on one object two of them share an identifier.
- `Sizes` has two members such that every type has a valid and an invalid one.
- `MaxCrashes` is 2 where crashes must not hurt (a revoke that dies, then an
  addkey that dies, is the worst known case), 1 in the race and in the run whose
  counterexample needs no more.
- Sizes of blocks, signatures and headers are 4, 5 and 2 instead of 16, 20 and
  5. What the code depends on is kept, and is the module's assumption: a header
  is at most half a block, a signature longer than a block and shorter than two.
- `MaxData` is 9: none, part of, exactly and more than one and two blocks.
- `MaxFlushes`: the writing ends with the last flush. It is 1, as the comments
  of the class ask for; with 2, bytes are sent twice.
- `MaxBytes` is 13: four whole groups and every remainder, and
  requests of 2, 3, 5 and all bytes do not divide a group evenly.
- `key_rotation`: three versions and three keys, two of them with one identifier,
  so that one key is on its way up, one primary and one on its way down; three
  parties, so that two objects of different ages exchange messages beside a third;
  two messages, since the properties speak of one message at a time. Key
  generation repeats no key (`minted`), so a run ends when the keys are used up.
- `stream_cache`: two threads, since a stream is shared by two or none; two keys
  in the bucket and the primary second, so that decrypt and verify have to
  go on; texts of no chunk and one chunk before the last piece, so that there is a
  step between the first and the last; buffers from none to exact (`MaxSpare` is 0;
  `colliding_keys` has 1, for room that a wrong key's chunks can fill). Seven
  streams are one more than the queues and the calls can hold together.
- `cpp_keyset`: two numbers and two keys, so that a revoked number is followed by
  another, and importkey can bring a revoked key back under it; `MaxFaults` is 1,
  a crash or a failed write. With one fault the tool's recovery, another command
  that is run over what was left, is exercised to its end. `cpp_plain_key`
  needs none.

Deadlock is checked in `generic_keyczar`, `key_rotation`, `stream_cache` and
`cpp_keyset`. In the others the system may stop: the numbers, keys or crashes are
used up, or the stream is closed and read. Symmetry is used for the parties
and for the threads, which no definition tells apart, and only in runs without
liveness.

### Fairness

`Keyczart!FairSpec` asks that a process that has started a load, a command or a
write takes its next step; nothing asks it to start one. That is what an
operating system gives a process that is alive, and `keyczart_python` has no
crashes. `CryptStream!FairSpec` asks that the writing application closes its
stream, that the pipe delivers what is in it, and that the reading application
calls `read()` until it gets the empty string or an exception, as the loop in
every use of the class does; writing and flushing are not fair. `Base64Stream`
is the same, and there not even the last flush is fair, so that
`AllIsDecoded` speaks of flushed streams only.

## 4. Proofs

The theorems hold for every value of the constants. They assume `KeysetAssumption`
(`MaxVersion` is a natural number, `NoKey` is not a key, `Hash` maps keys to
identifiers; nothing about collisions), for the tool `KeyczartAssumption`
(administrators are processes, two flags are Booleans, a missing file is not a torn
one), for both tools a `FileAssumption` (`NoFile` and `Torn` are no content of a
file, as the model values of the runs are not), for the rotation
`RotationAssumption` (an object may be two commands behind at most), for the cache
`StreamCacheAssumption` (the primary is in the bucket, which may have any length;
the forger is no key), for the Base64 streams `Base64StreamAssumption` (the bound
is a number and requests have integer sizes) and for the crypt streams
`AesKeyAssumption` (how long a header, a block and a signature may be to each other)
and `CryptStreamAssumption` (the bounds are numbers, requests have integer sizes).
Where a theorem needs more, its statement says so: one administrator, no crashes,
finitely many threads, no request for nothing, one flush. The configurations of the runs that check these properties satisfy what
is said there.

**KeysetProofs** proves, operator by operator, that `Added`, `Reserved`, `Promoted`,
`Demoted`, `Revoked` and `Rebuilt` keep the properties of a record.

**GenericKeyczarProofs** proves `TypesHold`, `PrimaryTracksStatusHolds`,
`HashIdsDistinctHolds` and `RevokedStaysInactiveHolds` from one inductive invariant,
and from the same invariant the action properties `DownOneRungAtATimeHolds` and
`FailedCallKeepsKeysHolds`. None of the four invariants is inductive alone: that
Promote leaves one PRIMARY needs `primary_version` to name the old one, a version
that is listed must have a key, one that is loaded and not listed must be INACTIVE,
or a later write and read could bring it back, and the exported set must be sound
too because `ReadExported` makes it the object. On a public key set a refused
AddVersion leaves `primary_version` at a number with no key, so only half of the
correspondence holds there and the invariant says which.

**KeyczartProofs** proves `TypesHold` and `SinglePrimaryHolds` for any number of
unsynchronised processes, any number of crashes, and both orders of files.
`SinglePrimary` speaks of the file, but what goes into it was prepared many steps
before, in the memory of a process that other processes do not wait for. The
invariant therefore says of each process that what it holds would be sound if it
were written (`RunsWell`): while it loads, its record agrees with the metadata it
read, with the keys that are still missing, and while it writes, its record has one
primary. Files that another process has changed in the meantime do not enter, which
is why no lock is needed for this property.

The second part of the module has what does depend on the files of others, and
therefore holds with one administrator `a` only, among any number of applications that load.
The invariant `SoloInv(a)`, inductive beside the one above, ties the files, what `a`
holds in memory and what each application has seen together. While `a` writes, each
file is as it was, torn, or as `a` holds it (`WritesAlong`, `KeysAlong`), and a new
version's file is written before the metadata lists it or is not there yet
(`Pending`). An application that is loading expects of each version the key that the
files and `a` still give it, or one that was revoked (`LoadsAlong`); `a` itself
reads what is on disk (`ReadsDisk`), and nothing lies about that nobody lists
(`NoLitter`). From it come `LoadMatchesMetadataHolds` and `DeadStaysDeadHolds`, if
no process dies or the key files are written first; `CrashCostsOneFileHolds`, for
key files first and any number of crashes; and `RestingDirectoryIsCleanHolds`,
without crashes, for either order. With a crash and the meta file first
`DeadStaysDead` is false, as the run `revoke_crash` shows. What an application has
seen belongs to the invariant because its load goes on while keys are replaced
behind it.

`ActsAtomicallyHolds` is the refinement of AtomicKeyset, with one administrator, no
crash and either order of files. What the mapping shows is what the files hold, or,
while a command writes, what it is writing (`Seen`); so a command takes effect when
it ends its load and turns to writing, and every other step is a stutter
(`UnseenStep`). The proof shows that what `a` has rebuilt from the files then is
what the mapping showed (`RebuiltAgrees`, `TidyIsRebuilt`), so that the command's
operator on it is AtomicKeyset's command (`CreateActs`, `AddKeyActs`,
`CommandActs`), and that once the last file is written the directory shows the same
(`EndStep`).

**KeyRotationProofs** proves `TypesHold`, `PeersCanReadHolds` and
`ReadableUntilRevokedHolds` for any number of keys, versions, parties and messages
and paces of at most two, the height of the ladder between PRIMARY and the loss of a
key. The properties compare an object with another that may be older or newer; what
carries the proof is `Within(j, o, n, d)`, a relation between two key sets of which
one is `d` commands younger: a version that stood higher than `d` is still there
with the same key and has fallen by `d` at most, and a version that was not there
cannot have climbed past where the pace `j` allows. One command makes a key set one
command younger (`AddKeyIsOneCommand`, `ChangeIsOneCommand`, `RevokeIsOneCommand`),
and the relation composes (`OneCommandOlder`). The invariant says that each object
is within its lag of the disk and every two objects within theirs of each other,
that every key anywhere was generated, so that no key comes back after it was
revoked, and that a message's key, if it is on disk, is in every living object. From
this a primary of one is loaded in the other (`PrimaryIsKnown`), and since
identifiers within one key set differ, `GetKey` finds it (`KnownIsRead`).

**StreamCacheProofs** proves `TypesHold`, `OneHolderHolds`, `CachedAreResetHolds`
and the action property `ServedRightHolds` for any number of threads, keys and
streams and texts of any length. `OneHolder` is kept by three kinds of steps: one
that takes a stream from a queue or makes one, one that gives it back, one that
drops it (`TakeKeepsSole`, `GiveKeepsSole`, `DropKeepsSole`). It is needed for the
rest: that a stream has only its holder's data in it (`FedByHolder`) is kept by a
step of one thread only because no other thread holds the stream, and together with
where each call stands (`CallOK`: which streams it holds, how much it has fed, what
it has put out) it says that a stream at the end of a call was fed the call's data
and nothing else (`FedMeansOwn`), which is what makes the result right.
`PoolIsBoundedHolds` counts, for a finite set of threads. `PoolInv` bounds the pool
of a key, queued streams and streams in hands together: a step either leaves the
pool a subset of what it was, or it made a stream because the queue was empty
(`Modest`), and then every stream of the key is in a hand, of which each call has
one or two (`HandsBound`).

**CppKeysetProofs** proves all the invariants of the C++ tool (`TypesHold`,
`OnePrimaryOnDiskHolds`, `OnlyNewestIsMissingHolds`, `RevokedStaysGoneHolds`,
`LoadedIsRightHolds`) and the action property `UnrevokedKeyFilesStayHolds`, for any
number of processes, versions, crashes and failed writes. The properties speak of
the files, but a step that fills a file keeps them only because of the list of
writes a command has prepared. The invariant says of every version of `meta` in the
list what the properties say of the one on disk (`IsWhole`, `Fits`), that each
follows from the one before it with no number free again (`Follows`), and that the
key file at the end is for the number the last of them announces and for no older
one (`Announces`, `KeyIsNew`). A process that loads has the metadata that is on disk
(`LoadsRight`).

**Base64StreamProofs** proves `TypesHold`, `TextIsEncodingHolds`,
`DecodesPrefixHolds` and `SurplusIsBoundedHolds` for any number of bytes and any cut
of the stream into writes and reads. The bytes written are 1, 2, 3, ..., so every
buffer is a run of consecutive numbers, `Span(a, b)`. Two lemmas about the coders
carry the rest: the encoding of whole groups followed by the encoding of what comes
after them is the encoding of both (`EncodeCat`), and decoding from a group's first
character up to a group's end, or to the end of the text, gives the bytes of those
groups, none of them garbage (`DecodeFacts`). The coders are not recursive, so this
needs no induction. Then the writer's text is the encoding of all whole groups and
its buffer is the rest (`WriterInv`), and what the reader has returned, what it has
decoded and what it keeps are, in this order, what was written (`Progress`).
`DecodesPrefix` is proved for requests without a size of 0 (`NoEmptyRead`): with
one, read() flushes the decoder in the middle of a group, which is what
`util.py:830` does. `SurplusIsBounded` also needs that a request for characters
reads no more than twice what a `read(size)` asks for (`SizesFit`), since what it
leaves over is returned by the next `read(size)` at once, whatever its size.

**CryptStreamProofs** proves `TypesHold`, `StreamsLikeEncryptHolds`,
`ReturnsPrefixHolds` and `ReadsLikeDecryptHolds` for all sizes of header, block and
signature that `AesKeyAssumption` allows, every cut into writes and pieces, every
request and every lost tail; and of AesKey alone that Decrypt accepts what Encrypt
makes of any plaintext and gives it back (`DecryptOfEncrypt`). The argument goes from
slices to streams. `Whole(n)` says that `n` is a multiple of `BlockSize`, which is a
constant, and the lemmas about it are the only ones that divide. All buffers are
slices of one sequence, `Cut(s, a, b)`, which is Python's `s[a:b]`, and slices are
put together (`CutCat`) and taken apart (`CutSlices`) again; enciphering and
deciphering go through this (`CipherEncryptCat`, `CipherDecryptCat`).

The invariant has three parts. `TypeInv` adds to `TypeOK` what the bytes are, above
all that a signature byte stands for a message that ends in padding (`Padded`).
`WriterInv` says that `__data` is the end of what was written, from a whole number of
blocks on (`DataInv`), and that, until there is a second flush, the output is as far
as it goes `Encrypt`'s message (`OutputInv`). `ReaderInv` tells where the reader is:
running, and then the HMAC has been fed with the source up to a place `h`,
`__encrypted_buffer` is the source from `h` to `e`, what `__ReadBytes` holds is what
was read after `e`, and what was returned and what is decrypted together are the
plaintext up to `h`, with a signature and a block at least between `h` and `e`
(`Running`); refused, if the key is not known; or at the end, having accepted or
rejected what Decrypt accepts or rejects. None of the properties is inductive
without this: that read() may return plaintext before it has seen the signature is
right because the last block and the signature are always held back, and that the
last step takes the padding off correctly although it deciphers only the last part
(`UnPadTail`) is right because a signature that verifies says that the last byte is a
padding byte, at the place where it deciphers and not 0, and that part is a block at
least (`LastIsPadded`). A step of the writer
or the loss of the tail leaves what the reader has read where it was (`ReaderStable`).

`ReturnsPrefix` is proved for a writer that is flushed once at most (`MaxFlushes <=
1`): a second flush sends bytes again (`keys.py:1078`) and what is read is then no
prefix of what was written. The other three hold for any number of flushes.
`ReadsLikeDecrypt` is proved for requests without a size of 0, since `read(0)` returns the
empty string, which is how the end of the stream is told.

Only model-checked: liveness (`RevocationCompletes`, `WholeMessageArrives`,
`AllIsDecoded`), since fairness and ENABLED are out of this prover's reach, as are
induction over data and RECURSIVE operators, which no module here uses. Every
invariant and every action property that a passing run checks is a theorem.

## 5. Not modelled

- **The mathematics of HMAC, DSA, RSA and AES**, and the calls into the libraries
  that do it. A signature or ciphertext is an ideal one.
- **Conversions**: JSON, ASN.1, big integers. They have no state.
- **Sessions**: a session object does not change, except in Java's
  `SignedSessionEncrypter.newSession`. Its material is a ciphertext and its signed
  messages are attached signatures, so what `KeyRotation` says of those holds of
  them too: material can be opened until the key that wrapped it is revoked.
- **Java timeouts**: a comparison with the clock around a signature.
- **The C++ library** except for the key set and its tool; in the tool, what `pubkey`
  and `exportkey` write to another place, the build with `COMPAT_KEYCZAR_06B`, which
  does not write the next number, a meta file from an older release or another
  language, which does not have it, and the second, "buggy" hash under which a key
  is also found.
- **Third-party code**: the SCons build system and cpplint under
  `src/cpp/src/tools`, which are most of the repository's lines of source, and
  the base library under `src/cpp/src/keyczar/base`, but for the writing of files.
- **In the stream cache**: RSA and DSA streams, which are fed and finished like the
  others, and exceptions from the runtime system, such as out of memory.
- **keyczart's** `genkeyset` and option parsing; the discovery of plug-in readers and
  writers; `MockReader` and `StaticKeyReader`, which serve tests.
- **In the streams**: `buffer_size` of `DecryptingStreamReader`, which `read()` never
  uses; `IncrementalBase64WSStreamWriter.close()`, whose call of the base class's
  `close` finds none there; a Base64 flush in the middle of a stream; the line
  buffer and the `firstline` argument of `read()`; whitespace in the text.

## 6. Plan

Done: the key set, the tool and its refinement, both pairs of streams, the
rotation, the Java stream cache and the C++ tool; proofs of every safety property
that a run checks.

Next, in this order:

1. `SignedSession`: threads that share Java's `SignedSessionEncrypter`, with a
   `newSession` that replaces the session before it is wrapped for the peer.
2. `CryptStream` over `Base64Stream`, instead of a source with a bound on its surplus.
