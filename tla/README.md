# doka.one, specified

TLA+ modules for the services of doka.one: an electronic document management
system made of small HTTP services (axum on tokio) that keep all their state in
PostgreSQL. The modules are translated from the Rust sources; TLC checks them on
small instances, TLAPS proves the safety properties that matter most for every
value of the constants. `PROJECT.json` gives, for every definition, the lines of
code it stands for, for every property a defect it catches, and the hazards the
properties were chosen for.

Run a check with `tlc -config X.cfg MCModule`, a proof with `tlapm M_proofs.tla`.

## 1. The system

### Components

| component | state | operations | correct when | modelled |
|---|---|---|---|---|
| **file-server** (`file-server/src/file_delegate.rs`) | tables `file_reference`, `file_uploads`, `file_parts`, `file_metadata` in a schema for each customer; the memory of an upload handler; one spawned task for each upload | upload2, the background processing with its rollback and cleanup, download, file_stats, file_loading, file_info, file_list | a file is whole or absent for every reader; no stored block is lost; every acknowledged upload is settled; a download sends the parts once, in order | yes |
| **document-server: full text** (`fulltext.rs`, `ft_tokenizer.rs`, `language.rs`) | table `document` | fulltext_indexing, delete_text_indexing | the words of a text are in the table, whole and once, and none in clear | yes |
| **document-server: items** (`item.rs`, `tag.rs`) | tables `item`, `tag_definition`, `tag_value` | create, read and search of items, their values changed and deleted; tags, by id or by name | a name has one tag, an item one value for a tag; an acknowledged value is stored | yes |
| **document-server: filter** (`filter/*`, `engine/generator.rs`) | none | lexer, normaliser, parser, SQL generator | an expression keeps its meaning through the four steps, and the search ends | yes |
| **session-manager** (`session.rs`, `update_sessions.sh`) | table `sessions` | open_session, read_session (which renews), the cron job that terminates | a used session is kept, an unused one closed, a closed one never open again | yes |
| **admin-server** (`customer.rs`, `login.rs`) | tables `customer`, `appuser`; the schemas of the customers in the databases of the other services | create, delete, set removable; login | a customer's key and schemas are its own, and it has its administrator; no two requests block each other for good | without login and the deletion of the tests' customers |
| **key-manager** (`key.rs`) | table `customer_keys` | add_key, read | one key for each customer | yes |
| **doka-harbor** | key-value store on NATS | web pages, upload watcher, cached searches and files | what is read from the store is of the file that was asked for | without the pages |
| **commons-pg** | the transaction of a request | begin, commit, rollback, named parameters, paging | a parameter is bound where its name stands | without the conversion of columns |
| **doka-cli**, commons, dkdto, dkcrypto, common-config | none that lasts | HTTP clients with a timeout, DTOs, encryption, configuration | | the timeout |
| doka-one-installer, imap-plugin, doka-dbpool-test-server | files | installation, prototypes | | no |

Outside the repository: PostgreSQL, Apache Tika, NATS, the HTTP layer.

### Interactions

Every request of a client carries a session id; the service has the
session-manager read and renew it (`valid_sid_get_session`) before it does
anything. An upload then goes

    client -> file-server.upload2 -> session-manager, key-manager
                                  -> file_reference, file_uploads  (phase 1)
                                  -> spawned task, reply to the client
    task   -> file_parts -> Tika -> file_metadata
           -> document-server.fulltext_indexing -> session-manager -> document
           -> file_reference -> file_uploads emptied

and, when a step of the task fails, back through a rollback made of one
transaction for each table and a call of `delete_text_indexing`, the errors of
which are ignored. There is no transaction that spans two of these steps, no
retry, and nothing that looks for unfinished work when a process starts.

A search goes from the text of its filter through four pure steps to an SQL
query, between two transactions:

    client -> document-server.search_item -> session-manager
           lex3 -> N1, N2, N3 -> parse_tokens      (an error ends the search: 400)
           transaction 1: the definitions of the tags
           generator -> parse_query_async
           transaction 2: the query, the rows of the page

and doka-harbor keeps its answer, and the files it found, in a key-value store
that has no owner: each request fills what it misses, and a search spawns a task
for each file it does not find there.

### What is hard

* **Atomicity**: each helper is a transaction of its own at READ COMMITTED; a
  reader can come between any two of them.
* **Partial failure**: a step fails after others committed; a step of the undoing
  fails; a COMMIT that took effect is reported as failed; one chunk of a value is
  not stored, and the error only logged.
* **Timeouts**: the call to the document-server ends without its answer while the
  document-server goes on.
* **Crashes**: the process dies between two steps and nothing resumes.
* **Stale checks**: the session is checked once and used for hours; the types of
  the tags are read in one transaction and the query runs in another.
* **Boundaries**: chunks, blocks, groups and fields of any size; parts that do not
  divide by the number of threads; estimates of sizes used as divisors; a block of
  words that is empty; a page beyond 2^32.
* **Rewriting by position**: the passes of the normaliser insert and remove tokens
  by index, in a list that moves under them; named parameters are replaced one in
  the other's text.

The list with the lines where they bite is `hazards` in `PROJECT.json`.

## 2. The modules

| module | models | state, and what it stands for |
|---|---|---|
| `UploadBlocks` | `read_and_write_incoming_data`, `store_group_block`: phase 1 of an upload, byte by byte | `pc`, the place in the two nested loops; `buffer`, `block_set`, `block_num`, `total_size`, the variables of those names; `file_uploads`, the rows of this upload, each with the interval of bytes it holds |
| `FileServer` | `upload2`, `thread_processing_block`, `process_file_blocks`, the transactions they are made of, and the full-text side of the document-server | `pc[f]`, the next step of the handler or the task of upload f; the four tables of the file-server and `document`; `indexing[f]`, the call to the document-server; `session` |
| `FileReaders` | `download`/`search_parts`, `file_info`, `file_list`, `file_stats`, `file_loading`, the upload watcher's division, the exit condition of the API tests | operators over the tables of `FileServer`: each is one query |
| `FileStore` | nothing: the abstract specification, what a client is promised | a status, a number of blocks and a content for each file |
| `IncomingBlocks` | nothing: the abstract specification of phase 1, what the handler promises to the task | the rows of one upload, whether its handler still waits, and the blocks counted in its reply |
| `Download` | `compute_pool_size`, `parallel_decrypt`, `decrypt_slide_of_parts`, `PartsStream` | the index of a part stands for its content; `task[i]` is the handle of task i |
| `Sessions` | `open_session`, `read_session_and_update`, `update_renew_time`, `update_sessions.sh` | the table, the lock of a row, the transactions; a time is its age |
| `CustomerAdmin` | `create_customer`, `delete_customer`, `set_removable_flag_customer` of the admin-server, `add_key` of the key-manager | `pc[r]`, the next step of request r, whose transaction holds `del_users`, `del_row` and, by its `pc`, the rows it has inserted; the tables `customer`, `appuser`, `keys`; the schemas `cs`, `fs`. The id of a row, schema or key is the request that created it |
| `ItemTags` | `add_item`, `update_item_tag`, `delete_item_tag` (`item.rs`), `add_tag`, `delete_tag` (`tag.rs`) | `pc[r]` and `at[r]`, the next statement of request r and the property of its list that it is about; `tx[r]`, the rows its transaction has inserted, changed and deleted; `tag_id`, `tag_value_id`, the variables of those names; the three tables, as committed |
| `ItemReaders` | `get_item`, `get_all_item`, `get_all_tag`, beside the requests of `ItemTags` | `todo[r]`, the items whose properties are still to be read; `reply[r]`, what was read so far |
| `FilterLexer` | `lex3`: the two lexers that hand the characters to each other (`filter_lexer.rs`) | none: `lex3(text)` is the tokens, or an error with its place. A text is a sequence of units, a run of letters being one |
| `FilterNormalizer` | the passes N1 (doubled parentheses), N2 (marks around a condition) and N3 (a pair for each operator) | none: from tokens to tokens |
| `FilterAst` | `parse_tokens` | none: from tokens to a tree, or an error |
| `Generator` | `generate_search_sql`, `build_query_filter` and the checks before them, and what PostgreSQL makes of their query | none: from a tree, definitions and an order to a query, and from a query to rows |
| `FilterMeaning` | nothing: the reading of a filter that the grammar in the comments describes, from the text itself | `MeaningOf(text)` and `Satisfies`, the reference for the four modules above |
| `SqlParams` | `parse_query_async`: the named parameters, replaced one after the other in the order of a hash map | none |
| `ItemSearch` | `search_item`: composes the six modules above with the two transactions | `stage`, the next step of the search; what each step has made; the tables of the customer, which other requests change in between |
| `Tokenizer` | `FTTokenizer::next_n_words`, `encrypt_tsvector`, `parse_vector` | none: from a text to a block of words, from a vector to a vector of hashes. A text is a sequence of graphemes |
| `FullText` | `fulltext_indexing`, `indexing`, `insert_document_part`, `language.rs` | `stage`, the place in the loop; the words of each language not written yet; the rows of the transaction and of the table |
| `HarborCache` | `view_file`, `get_file`, the search and its prefetching tasks, `read_from_nats`, `store_to_nats`, `resize_jpeg` | `pc[t]`, the next step of a request or of a task; `data[t]`, what it holds; `kv`, the chunks of each key |
| `MC*` | the bounds of the runs | |
| `*_proofs` | the theorems | |

`FileReaders` EXTENDS `FileServer`, and maps it to `FileStore` (INSTANCE ... WITH).
`UploadBlocks` is phase 1 of `FileServer` in detail: its blocks 0..n-1 are the
`stored[f]` blocks of `FileServer`, whose `StoreGroup` and `EndOfUpload` are the
two ways `UploadBlocks` reaches the table for a form with one file. `FileServer` knows
from the beginning what a client is going to send, `UploadBlocks` does not, so neither
is an instance of the other; both implement `IncomingBlocks`, `UploadBlocks` for a form
and `FileServer` for each of its files (`Incoming(f)` in `FileReaders`). `FullText` is the
inside of the call that `FileServer` makes with `indexing[f]`; `FileServer` keeps
what the two services do to each other, `FullText` what the rows hold. `ItemReaders`
EXTENDS `ItemTags`, and its `Next` is the next-state relation of both. The filter
modules extend each other in the order of the steps they model.

Some services of the environment are actions without code: `DropText` (the HTTP
layer may drop the handler of a request whose caller is gone), `Crash`, the other
requests of `ItemSearch` (`Change`).

### How transactions are modelled

A transaction is one action. `Outcomes` says how it can end: `ok`; `error`, no
effect and an Err; `lost`, its effect is there and the code still gets an Err
(the connection broke in the COMMIT). Where the statements of one transaction race
with another they are modelled one by one: in `Sessions` with the row lock and
READ COMMITTED's second evaluation of a WHERE clause, in `CustomerAdmin` with the
locks of rows and of the values of the unique indexes (`CodeLocks`, `LoginLocks`),
which a request holds while it calls other services. In `ItemTags` a statement sees
the committed rows and those of its own transaction (`Tags`, `Values`), waits for the
transactions in `Blockers`, and PostgreSQL breaks a circle of waiting requests by
failing a statement of one of them (`BreakDeadlock`).

### How texts are modelled

Characters with a role of their own are members of a small set; a run of characters
that the code treats alike is one member. The lexer is the exception to keeping data
small that the properties ask for: where its two halves hand over to each other
depends on single characters, so `FilterLexer` has a case for every state and
kind of character, in recursive operators over the text. A hash map is walked in every order that
`MapOrders` gives. A hash of a lexeme is a mark on it: `VectorsAreHashed` asks
whether anything is left without the mark. A position in a vector is written by its last
digit: the reader copies digits one by one.

## 3. What is checked

| run | bounds | question | result |
|---|---|---|---|
| `file_server` | one file of each of three shapes (three full blocks; two and a rest; a rest only, without Content-Length), groups of two, every fault at every step | whole or absent, never dropped, settled, undone when it failed; implements `FileStore` | holds, with the exceptions the properties name |
| `upload_blocks` | blocks of 2 bytes, groups of 2, chunks of 1, 2 and 5 bytes, 13 bytes and 3 fields | do the blocks tile the form, and does phase 1 implement `IncomingBlocks`? | they do, it does |
| `upload_tail` | the same | is every counted block stored? | no: the last group of a field that ends on a block is not |
| `download` | up to 4 parts with gaps and damaged ones, up to 3 tasks | every part shared out once, sent in order, and an end | holds |
| `customer_admin` | three requests, each a creation, a deletion or a change of the flag, two codes, one name, two logins, every fault | does a customer own its key, schemas and users, and do requests ever block each other for good? | it does, and they do not |
| `item_tags` | three requests out of thirteen about one item, two names, two types, every fault; at first one tag or none, with a value or without | do lookups that are written upon later keep names, values, types and replies straight, and does every request end? | yes, with the exceptions the properties name |
| `item_search` | every shape of filter with up to three conditions, with some pairs of parentheses doubled, some with four conditions, each text of two conditions with one unit missing, every comparison on every type, pages of 0 to 2 of tied items, four changes during a search, faults of the session and the database | does a search by one of these filters give the items it describes, and does it end? | yes, of these filters |
| `item_search_deep` | one filter of four conditions | does N3 add at most a pair for each operator? | no: for this filter it adds them for ever |
| `sessions` | one session, two requests and the cron job, a limit of 3 ticks, transactions of at most 1 | do renewals and terminations respect each other? | within the length of a transaction |
| `full_text` | all texts of up to 4 signs of 7 kinds and six longer ones; words of at least 2, blocks of 3, parts of 4 signs; four languages, every fault | are the words in the table, whole, once, in order and hashed? | up to the first block without words |
| `full_text_stops` | the same | is every word indexed? | no: a block without words ends the indexing |
| `harbor_cache` | two requests, an image of two chunks and an empty file, two results, every fault at every step, one chunk of something else instead of the image | is a reply made of the file that was asked for? | of what the file-server answered for it, which may be an error text; otherwise a beginning of the file at least |

**The bounds.** In `file_server` one file is enough for safety, because files share
only the session and the process, both of which act on one file as on many; the
theorems of section 4 are proved for any number. The three shapes are the three
ways phase 1 ends: a last group dropped, a group and a tail, a tail only. In
`upload_blocks` 13 bytes make six blocks and a rest, so a group is complete,
incomplete or empty when a field ends. Four parts over three tasks give shares
that are equal, unequal and empty. One session is enough in `sessions`: sessions
only meet in the cron job, whose length `MaxTx` bounds. Ages are cut at
`Limit + 2 * MaxTx`, which no guard or property can tell from older. In
`customer_admin` three requests are what a code needs to change hands (created,
deleted, drawn again) and what two creations with one login and a deletion need to
wait for each other; the codes are few so that the same one is drawn twice, which a
uuid makes rare and not impossible. Requests, codes and logins are symmetric: the
specification compares them for equality only, and the run has no liveness
property. In `item_tags` the three requests choose from lists of their own (`MCJobs`):
one adds two tags in one order, one in the other, one deletes or reads, and each has
alternatives by id and with the wrong type; a deletion may be of a value of the item just
added. That gives every pair of statements that
can meet on a name, a value or a tag, circles of waiting requests, and a third request
that takes a row or a name which the other two are about, or reads between them.

In `item_search` a filter of n conditions runs on 2^n items, one for each
combination of values: two filters with other meanings give other rows. Three
conditions with parentheses everywhere are what N1 to N3 need for an operator inside,
beside and around another one; two operands with two pairs of parentheses each are what
N1 needs to mistake one pair for another; four in a row or two by two make N3 insert
several pairs. These filters are not all filters: no property of the run says anything
of an operator inside of parentheses in a filter of four conditions, but for two by two,
and of some of those it would not be true (2. below). `MaxInsertions`, 6, is more than the operators of any of these filters, and
only `item_search_deep` reaches it. `Width`, 3, stands for the 32 bits of a page's
start; the pages of the run stay below it. The customer `changing` has its one tag
deleted and defined again with another type between the two transactions, also when
another request has just added a value, and gets values in the column of another type. In
`full_text` blocks and parts are so short that words, dates and numbers are cut by
the end of a block, and that the words of one language fill several parts while
another has a rest; `ht` is a code that is mapped to another language, and `ja` one that
the table does not have, which counts as English. In `harbor_cache` a file of two chunks is enough for another
request to come between them; two requests and their tasks make four writers of one
key. An error text is one chunk: it replaces the first one of the two, and the second
one stays. Requests are symmetric there.

Runs say `CHECK_DEADLOCK FALSE` where the system stops when its work is done;
`ItemSearch`, `FullText` and `HarborCache` have a step `Done` for that instead, so that
a state in which nothing can happen before the end is reported.

**Fairness.** The runtime polls a spawned task and every call returns (the HTTP
client has a TIMEOUT, the database answers or the connection breaks): weak
fairness on the steps of a task and of the document-server, of a download's
handler and tasks, of the requests of `Sessions`, `ItemTags` and `ItemReaders`, of
PostgreSQL's deadlock detection, of a search. In `ItemSearch` and `FullText` the weak
fairness of `Step` is written out: `Step` is enabled until the end, which the absence
of deadlocks shows, and evaluating whether it is would cost the lexer and the
generator once more in every state. The other requests of `ItemSearch` are not fair,
and cannot keep a search from its end. A client need not send the rest
of its file, a session need not end, a process need not die: none of these is
fair. The cron job is started again and again, and gets a row lock that it waits
for because PostgreSQL grants locks in the order of the requests: strong fairness
on `CronRow`, whose guard a stream of renewals makes true and false in turn. The job may
fail at any row and in its COMMIT; strong fairness on `CronCommit` says that it does not
fail each time that it gets there.

### Disagreements met

Each of these is the code against its own comment, documentation or reply; three
have a run that expects a violation.

1. **The last group** (`file_delegate.rs:202`, run `upload_tail`): a field whose size
   is a multiple of 1 MiB, but not of 10 MiB, is stored without its last blocks; the
   reply counts them, and the processing goes on with what is there.
2. **Parentheses for ever** (`filter_normalizer.rs:182`, run `item_search_deep`):
   `(A == 1 OR B == 1 AND (C == 1 OR D == 1))` is never answered: the pair that N3
   adds for AND encloses nothing, so N3 finds AND again, and the tokens grow. Others,
   like `((A == 1 OR B == 1) OR C == 1 OR D == 1)`, are refused as malformed although
   they follow the grammar. Both have four conditions and three operators; with up to
   three conditions, thus two operators, no filter of the run is refused or kept for
   ever (`WellFormedIsRead`, `EverySearchIsAnswered`).
3. **The first block without words** (`fulltext.rs:178`, run `full_text_stops`): a
   block is 1000 graphemes; when all its words have less than four (a column of
   numbers, blanks), its list is empty, which `indexing` takes for the end of the
   text. The words after it are never indexed, and the reply is Ok.
4. **The rollback and a late indexing** (`fulltext.rs:65`): a rollback deletes the
   text of the file, and the indexing whose caller has timed out commits it after.
   `FileServer` has the behaviour; `RollbackIsClean` states what remains true: a text
   is only left behind when its deletion failed or its indexing was cut off.
5. **Old uploads** (`file_delegate.rs:460`): the cleaning of uploads older than four
   days is documented, not written.
6. **A slice that fails** (`file_delegate.rs:1710`): its error is logged and the
   download ends as a success without it (`OnlyFailedSlidesAreMissing`).
7. **A failed query** (`customer.rs:476`): `delete_customer` takes any error of
   `search_customer` for "not found" and drops the schemas, of a customer that may
   well exist and not be removable.
8. **A value without a tag** (`tag.rs:280`, `item.rs:987`): `delete_tag` and an update
   that uses the tag both check before the other writes; the value stays, hidden from
   every reader by an INNER JOIN.
9. **A beginning of a file** (`kv_store.rs:142-148`): while a request stores a file in
   the NATS store, or for ever after one that was dropped, crashed or failed to put a
   chunk, doka-harbor serves its first chunks as the whole, and keeps a reduced image
   made of them. `RepliesAreOfTheFile` states what remains true. A search result that
   is cut that way makes the request panic (`search_result_component.rs:260`).
10. **An error for a file** (`async_request_client.rs:466-471`, `web_types.rs:114`):
   `get_binary_data` does not look at the status of an answer, so the text of a 4xx or
   5xx of the file-server, or a download that ended without a slice (6.), is stored by
   doka-harbor under the key of the file and served as the file from then on; it also
   replaces the first chunk of a file that another request has stored meanwhile.
   `RepliesAreOfTheFile` and `StoredFilesStay` promise the file itself only as long as
   the file-server has answered nothing else for it (`spoilt`).
11. **A file that comes and goes** (`file_delegate.rs:376`): when the COMMIT of the last
   UPDATE took effect and is reported as failed, the file can be downloaded whole until
   the rollback removes its parts. `FileStore` calls it doubtful.
12. **The last parts** (`file_delegate.rs:1553`): the download counts the rows it finds
   and compares their numbers with 0, 1, ...; rows that are missing at the end are not
   noticed, and a shorter file is sent.

Also met, and stated only as far as it holds:

* Files: `is_fulltext_parsed` is set for a text of which no word was stored (3.), and
  survives a rollback; `file_loading` and `file_stats`
  fail for an upload sent without Content-Length until it is processed
  (`LoadingFails`); a rolled back file has `total_part` 0, which the watcher divides by.
* Items: a value whose tag is given by name is stored in the column of its own type,
  whatever the type of the tag, when the item has no value for the tag yet, and is then
  shown as null (`TypedForGood`, `RepliesAreWhole`) and found by no search
  (`RowsMatchTheFilter`); an update whose row is deleted
  meanwhile stores nothing and replies Ok (`AcknowledgedIsStored`).
* Filters: a single condition is refused without parentheses, as is ")" in a quoted
  text; an operator glued to "(" is dropped, and tokens after the last ")" are ignored
  (`IsReadable` and `IsSmall` say which texts the properties are about); the places in errors of
  the parser count tokens, not characters as `item.rs:77` says.
* Searches: `!= FALSE` is generated as `NOT value` on a Bool; a Date, a DateTime and a
  Link have no legal operator; a sorting tag that is not in the filter is dropped, and
  a request without sorting tags gets an empty ORDER BY and a 500; tied items have no
  order, so two pages may share one; a page that starts beyond 2^32 rows is another one
  than was asked for; with more than ten tags `:p_name_1` is replaced inside
  `:p_name_10` (`tag.rs:153`, `sql_transaction_async.rs:39`).
* The harbor: a search result is kept for ever; the prefetch looks for the original
  of a file and fetches its reduced image.

## 4. What is proved

* `UploadBlocks_proofs`: for all block, group and chunk sizes, `TypeOK`,
  `StoredIsPrefix`, `BlocksTile`, `OnlyFullBlocksAreLeftOut`, `BoundedMemory`, and
  `ReplyCountsEveryByte`, which no run checks any more. The inductive invariants:
  `Progress` relates `received`, `total_size` and `buffer` at each place of the
  loops (before the INSERT of a full group the buffer still holds the block that
  `total_size` counts already); `Memory` bounds `block_set` and `buffer` there;
  `Numbering` says that the rows on both sides are an interval of numbers and that
  consecutive numbers are adjacent intervals of bytes. None of the properties is
  inductive without them: a state with a repeated number satisfies
  `BlocksTile` until the next group is stored.

  `ImplementsIncomingBlocks`: every INSERT brings the next numbers, at most a group of
  them, because the parts in memory are consecutive (`Numbering`), each row has a number
  of its own (`PartsOfAGroup`) and there are no more rows than `Memory` allows; at the
  reply the memory holds fewer.
* `FileServer_proofs`: for any set of files, shapes and faults, `TypeOK`,
  `DownloadIsWhole`, `NoBlockIsDropped`, `RollbackIsClean`,
  `ExitConditionIsFinal`. The invariant `FileInv` says for each step of a file what
  every table holds: `UploadsKept` (the stored blocks stay in `file_uploads` until
  the cleanup), `PartsWritten` (the parts are a prefix, what is left is `todo`),
  `RowWritten` (the row is encrypted only after the parts are complete, or with
  the type "text" after they are gone or about to be), and `Outcome`. `RollbackIsClean`
  needs `Noted` besides: from the step of the rollback that empties a table on, the table
  is empty or the step is in `missed`, and so is a text whose indexing is still on its
  way when the call to it has ended.
* `FileServer_proofs`, about `FileReaders`: that the same pipeline implements
  `FileStore`, and `ProgressIsAPercentage`. `Path` says how far one step can take a file, `Moves` what
  that is for a client: nothing, the beginning, more blocks, all of them at once, or the
  end without a file, or that a file becomes doubtful and goes or stays; a step of one
  file is then a step of the store because the other files stay, and the death of the
  process is `Give_up`, with those files complete that can be downloaded at that moment. `Counted` adds to `FileInv` that no more blocks
  are stored than the form has, and that the total in the row is an estimate or their
  number.

  `EachImplementsIncomingBlocks`: the same `IncomingBlocks` is what each upload of the
  pipeline shows of its phase 1. `Shows` lists the ways: nothing, some blocks, with or
  without the reply, or the end; `UploadsKept` gives that the task leaves the rows as
  they are until it empties the table, when the mapping goes on with the blocks that
  were received. TLC finds the same on the bounds of `file_server`, where it is not one
  of the properties of the run.
* `Download_proofs`: for any number of parts and threads, `TypeOK`,
  `SlidesShareTheParts`, `SentInOrder`, `OnlyFailedSlidesAreMissing`, and `GapIsRefused`,
  which no run checks: a reply is made of a beginning of the file.
  The shares are sums; instead of an induction over the slices, `Counted` gives the
  offset after k of them in closed form, k times the quotient and one more for each
  slice up to the remainder, so that the last one ends at the number of the parts; a
  set of as many indexes as there are below the offset, without a gap, is all of them.
* `Sessions_proofs`: for any number of sessions and requests, `TypeOK`,
  `RecentUseIsKept`, `ClosedForGood`. `Renewed` says how far the age in a row can be
  behind the last use; `Late` that a transaction that still holds a closed row began
  before it was closed; `Closing` and `Locking` that a row which the cron job has updated
  and not committed stays as its WHERE clause found it.
* `CustomerAdmin_proofs`: for any number of requests, codes, logins and any faults,
  `TypeOK`, `KeyIsItsOwn`, `NoInheritedData`, `UsersAndCustomersMatch`, `WaitsAreShort`.
  The argument for the first two is that a code belongs for
  ever to the first request that gets a key for it, because nothing deletes a key:
  `CodeChosen` and `KeyKept` say that a request beyond `add_key` holds the key of its
  code, and a customer that of its row; `SchemaPlaced` that a schema is only named
  after a request that chose its code. So no second creation on the code can get past
  `add_key`. Were the key deleted with the customer, the next owner of the code could
  be given schemas whose DROP failed and was ignored. The other two need `Match`: the
  administrator of a customer is in `appuser` exactly as long as the customer
  (`Owned`, `Used`), because the transaction that deletes the user keeps its row
  locked until it deletes the customer too (`Deleting`), and a code that was deleted
  once is settled and never given again. Whoever waits thus waits for a transaction
  that has its last lock (`Locking`), and no circle can form.
* `HarborCache_proofs`: for any number of requests, files, results, chunks and any
  faults, `TypeOK`, `RepliesAreOfTheFile`, `FoundFilesAreFetched`, `StoredFilesStay`.
  No lock protects a key, so the invariant says of every task that it may only put a
  chunk of what was answered for its own file in that chunk's place (`Keyed`, `Working`),
  which makes every key hold only such chunks (`Filled`), and all writers of a key agree
  until something else than the file is answered; `Late` follows a task that began to read when all was stored; `Spawning` follows the loop
  of a search, which has looked a file up or has started its task.
* `ItemTags_proofs`, about the specification of `ItemReaders`: for any number of requests
  with any lists of properties and any faults, `TypeOK`, `OneOfEach`, `TypedForGood`. An
  insert waits for whoever has the value of the unique index, so the names and the
  (tag, item) pairs of the open transactions are apart from each other and from the
  committed rows (`NamesApart`, `PairsApart`), and a commit cannot make two of one.
  `GivenTo` says which ids a request can have met: the next id it gives is none of them,
  and an updated row keeps its tag and its item (`IdsApart`, `Aiming`). The type compared
  at a lookup is therefore that of the tag at the commit.

  `AcknowledgedIsStored`: the transaction of a request holds a value for each property of
  its list that it is done with, of a tag that goes by the property's id or name, unless
  the row it was to update is gone; the COMMIT puts all of them into the table at once.
  What takes one away later is a deletion that found it under the tag's name, and has
  ended. `ReadersTypeOK` and `RepliesAreWhole`: a COMMIT brings an item with all its tags,
  so that a reader which has seen the item sees the tags in every later statement, though
  other requests commit between any two of them. ORDER BY is a recursive function there;
  that it gives each of the rows once is an induction over the set of the rows
  (`WFMin`, the least number that is missing).
* `FullText_proofs`: for any text, size of blocks, words and parts, any languages and any
  faults, `TypeOK`, `BlocksAreOfTheText`, `PartsHoldTheBlocks`, `VectorsAreHashed`. The
  operators are recursive functions: a lemma for each says what it is at the first place
  and at the next one, and `FromTo` carries a fact from place to place; it is an induction
  over a set of numbers, and thus in reach of the provers. The text read in one go
  (`Whole`) is what the blocks are compared with: a block stops between two words only
  (`StopsBetweenWords`), where the state of the loop is that of a new block, and from
  there it goes on as the whole text does (`TurnsAlike`, `BlockFollows`); so the words of
  the blocks are a beginning of those of the text (`ReadTo`). After a failure of Tika
  `index` is ahead of the blocks, which is why `BlocksRead` tells them apart. `Collected`
  says that the buffer holds the words of the blocks by language, `Divided` that the
  parts hold a beginning of each language's words, all of them before COMMIT. That no
  lexeme stays in clear is a fact about `parse_vector` alone (`VectorIsHashed`): an entry
  that `to_tsvector` writes takes the reader from `Clear` to `Clear`, with the hash in
  place of the lexeme (`EntryRead`), because a word has no quote, colon or space.

`TypeOK` of the modules with proofs is left to the theorems; `item_search` checks that of
`ItemSearch`, which has none.

The proofs assume what the modules' ASSUMEs say of the constants: sizes are
positive, bounds are numbers, NULL and NoRow are not values, and a quote, a colon or a
space is neither a letter nor a digit.

Model-checked only: the liveness properties (TLAPS has no fairness and no ENABLED), and
the properties of `ItemSearch`. The modules under it are recursive operators over trees
and lists of tokens, with which TLAPS has no SMT solver, and what they compute is an
induction over the structure of a filter; nor do the properties hold of every filter (see
`item_search_deep`): they are checked of the filters of the run, every shape with up to
two operators, and some with three.

## 5. What is not modelled, and what is left

* `delete_integration_tests_customer`, a loop of `delete_customer` over the customers
  whose name starts with `doo_`, on the connection that the loop holds (`customer.rs:700`);
  `login`, which reads a user and opens a session.
* The connection pool: a request that holds a connection while it asks for another.
* The checks of the names of tags and of default values, which refuse a request before
  it does anything; conversions of columns (`sql_transaction.rs`, a DateTime before 1970
  panics in `sql_transaction_async.rs:172`).
* The 32 bits of a page beyond `Width`, filters of more than four conditions and
  statements of more than ten parameters, outside the disagreements above.
* Theorems about the lexer, the normaliser and the generator of searches.

Left out for good: cryptography (a block and its encryption are the same part; a
hashed lexeme is marked), rendering and the command line, the installer, logging, DTOs.
