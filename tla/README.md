# A TLA+ model of the Viju distributor backend

The repository is a NestJS and Prisma/PostgreSQL service: distributors look at
their account, raise loading requests (waybills), chat and open tickets; account
officers, regional admins, loading officers and administrators work on them from
a portal; an ERP pushes and is polled for balances, orders and stock. This
directory models the parts that keep state, checks them with TLC on small
instances, and proves with TLAPS what matters most for every instance.

Paths below are relative to the repository.

## 1. How the program behaves, and what that means for the models

* **A handler is a list of awaited statements.** Every route is an `async`
  method that SELECTs, decides, UPDATEs, and then awaits notices. Node runs one
  piece of JavaScript at a time, but any other handler can run at each `await`,
  and several processes may share the database. So an action here is one awaited
  statement together with the code up to the next one, and any two handlers
  interleave between actions.
* **Nothing joins the SELECT to the UPDATE.** Most handlers use no transaction
  and no row lock, and the UPDATE says `WHERE id` alone. What a write takes from
  the row read earlier is kept in the handler's record (`calls[c].seen`, or the
  fields of the call); what it takes from the row as it now is, comes from
  `rows`. This is where most of the hazards are.
* **A refused call is no step.** A 400, 403, 404 or 409 changes nothing, so it
  is not an action (except where refusing is what a property is about).
* **Handlers die.** A throwing statement and a dying process are the same thing
  here: what was committed stays, the rest of the handler never runs
  (`Abandon`, `Crash`). There is no retry and no recovery in the code.
* **Nobody is obliged to call anything**, so no run is checked for deadlock
  (`CHECK_DEADLOCK FALSE` in every cfg): a system without open calls may stay
  as it is for ever.

## 2. Inventory

| Component (source) | State | Operations | What is hard | What makes it correct |
| --- | --- | --- | --- | --- |
| **Loading requests** `modules/loading`, `modules/regional`, `modules/officer` (routes), `loading-status.ts` | `LoadingRequest` rows, notices | assign, cancel, advance, record waybill, older status route, note, edit | check and write in two statements, from three portals; self-moves; notices after the commit | the promised lifecycle; who may write; stamps; what survives races; who is told |
| **Submission** `modules/waybill` | `LoadingRequest` + lines, `TermsAcceptance` | accept terms, submit, edit | references by retry on the unique index; ERP read before the INSERT; keys that split one product | references without gaps; refusal only when full; quantity within what is left; admins told |
| **Account officers** `modules/admin`, `modules/erp/default-officer.service.ts` | `Customer.assignedOfficerId`, `CustomerOfficer` rows, `Staff.isActive` | reassign (one, many, all), park on the default officer, retire, restore | two copies of one fact; counts checked before the write; write skew between admins | one primary row equal to the pointer; no customer with a retired officer; an admin always left |
| **Staff accounts** `modules/admin`, `modules/auth` | `Staff` rows | create, edit, mirror at sign-in | uniqueness checked before the INSERT; stale edits; two writers of one row | managed accounts are written by admins only |
| **Sessions** `modules/auth`, `jwt.strategy.ts` | refresh-token rows | sign in, refresh, answer a reuse, log out, retirement | rotation in three statements, of which the last may never come | one live token per sign-in; none after a reuse or a retirement |
| **Passwords and codes** `modules/auth`, `modules/users`, `infrastructure/otp` | failure counters, lock, `OtpVerification` rows, reset tokens | sign in, change, send, verify, reset | read, hash for a while, write | locks come at the limit; a code sets one password |
| **Wallet** `modules/broadcast`, `modules/erp` | `outstandingBalance`, payments, notices | broadcast with allowance, ERP webhook, reconcile, derive | absolute writes of a balance read earlier; a send that dies half-way | no credit lost; nobody told of a credit not paid |
| **Order status** `modules/erp` | `Purchase.status`, `statusUpdatedAt` | webhook, reconcile, ingest | two writers with different vocabularies | the stamp moves with the status |
| **Reconcilers** `modules/erp` | running flags, advisory locks, feed probes | timer passes, webhook kicks, restarts | a shared lock key, a probe kept for ever | what is due is corrected in time |
| **Notices and push** `infrastructure/notification`, `modules/push`, `modules/notifications` | notification rows, push tokens | notify, read, register, unregister | a verdict on a token written down after the device registered anew | a registered device stays reachable |
| **Chat, tickets** `modules/chat`, `modules/ticket` | messages, tickets, replies | open, mark, send, reply, set status | the team changes between the gate, the write and the notices | the right people hear, and nobody else; read means shown |
| **Flyers** `modules/admin` | flyers with a sort order | create, edit, delete, reorder | an UPDATE per flyer in no transaction; edits write back what they read | the order that was asked for |
| **Statement ledger** `modules/customer` | none | statement of a window, balance beside an order | windows, equal instants, sums carried over | statements continue one another |
| **Customer list and projection** `modules/admin`, `infrastructure/erp-raw`, `modules/erp` | `Customer` rows beside the ERP's | list two sets as one, project | a page that spans both sets | a walk meets everybody once |
| **Stock and screens** `modules/customer`, `officer`, `regional`, `admin`, `audit` | none | tiles, lists, details, breakdowns | each screen gathers its figures by its own queries | screens of one account agree |
| **Routes** every controller, guards, `common/region` | none; tokens older than rows | authenticate, authorise, scope | claims and row disagree; regions missing | a request is served as its row stands |
| **Contact form** `modules/contact`, `common/guards` | in-process windows, enquiries | limit, sweep, record, restart | window edges, sweeps | at most twice the limit per window |
| Uploads, storage, e-mail, SMS; filters, bootstrap; seeds | none of their own | – | – | not modelled (section 8) |

Interactions: every component that changes something a person should hear of
calls `NotificationService.notify`, which inserts a row and then tries a push;
submission reads the ERP's outstanding stock; assignment decides who may act on
a distributor's loads, chat and tickets; retirement reaches sessions, loads and
assignment; the reconcilers write the same columns as the ERP webhooks and the
wallet; every screen reads what all of them write.

## 3. What is modelled

| Module | What it is |
| --- | --- |
| `LoadingStatus` | the status vocabulary and the table of legal moves (`loading-status.ts`), shared by the next two |
| `LoadingPromise` | the abstract specification of a load's status and officer under overlapping handlers: a move is granted by the table, and made later, once or never |
| `LoadingLifecycle` | every route that changes a request, statement by statement |
| `MCLoadingLifecycle` | its instances for TLC |
| `LoadingLifecycle_proofs` | theorems about it |
| `LoadForm` | the pure checks of a loading form: keys, sums, quantity left, weight |
| `LoadingSubmission` | how a request comes to be and is edited, statement by statement |
| `MCLoadingSubmission` | its instances for TLC |
| `LoadingSubmission_proofs` | theorems about it |
| `OfficerAssignment` | who holds which customer and which staff accounts are active, statement by statement |
| `MCOfficerAssignment` | its instances for TLC |
| `OfficerAssignment_proofs` | theorems about it |
| `Handlers` | the handlers in flight that all modules below share |
| `Scopes`, `Team` | regions and what a caller may see of them; who is on a customer's account |
| `Sessions`, `Passwords`, `OneTimeCodes`, `StaffAccounts` | `modules/auth`, `modules/users`, the staff half of `modules/admin` |
| `SignIn_proofs` | theorems about these four |
| `Wallet` | broadcasts and balances |
| `Chat`, `Tickets`, `Notifications` | conversations, the bell and the push |
| `Flyers`, `Contact` | the ordered list of flyers; the contact form and its limiter |
| `Outreach_proofs` | theorems about notices, chat, tickets, flyers and the form |
| `MCServices` | the ten components above side by side, for TLC |
| `Services_proofs` | theorems about the wallet, and about the ten components together |
| `OrderStatus`, `Reconcilers` | what is copied from the ERP, and when the jobs that copy run |
| `Ledger`, `Directory` | statements; the customer list of two sources |
| `Stock`, `Accounts` | the figures of an account on every screen |
| `Routes` | every route, its roles, and the region it is held to |
| `MCProjections` | these components side by side, for TLC |
| `Projections_proofs` | theorems about orders, jobs, statements, the customer list, the screens, routes, and about all of them together |
| `Counting` | lemmas that name no component: least and greatest elements, sums over sets and their regrouping, sorted lists, pages |

### 3.1 Loading requests (`LoadingLifecycle`)

| In the model | In the code |
| --- | --- |
| `rows[r]` | the row; `started`, `completed`, `cancelled` say whether `loadingStartedAt`, `completedAt`, `cancelledAt` are set; `canceller` is `cancelledById`, `note` the description, `cartons` `quantityCartons`, `lines` the sum of the items |
| `calls[c]` | a handler in flight: what it still has to do and what it took from its SELECT |
| `told[r]`, `lost` | notices recorded; requests on which a handler died after its UPDATE |
| `AssignRead` / `AssignWrite` | `regional.service.ts` `assignLoadingRequestScoped`, both portals |
| `CancelRead` / `CancelWrite` | `cancelLoadingRequest`, both portals |
| `AdvanceRead` / `AdvanceWrite` | `loading.service.ts` `updateStatus` |
| `WaybillRead` / `WaybillWrite` | `recordWaybill` |
| `LegacyRead` / `LegacyWrite` | `regional.service.ts` `updateLoadingStatus`, the older status route |
| `NoteRead` / `NoteWrite` | `updateDescription` |
| `EditRead` / `EditWrite`, `Submit` | `waybill.service.ts` `updateLoadingRequest`, `submitLoadingRequest` up to its notices |
| `Notify` | `notification.service.ts` `notify`: the row; the push cannot fail the caller |

Abstracted: the scope filter of a desk (region, or the officer's own customers)
is membership in `Desk`; the SELECT of the picked officer (active, same region,
loading role) is membership in `Officers`, so an officer retired between that
SELECT and the UPDATE is outside this module; the admins of a region count as
one recipient; truck, driver, document, destination and `assignedAt` columns,
which no property tells apart, are left out.

### 3.2 Submission (`LoadForm`, `LoadingSubmission`)

| In the model | In the code |
| --- | --- |
| `rows`, indexed by `[customer, attempt]` | the rows of one day by their `reference`; attempt *n* is the suffix `-0n`, so the unique index is the shape of the function |
| `fresh` | customers with a `TermsAcceptance` younger than `TNC_RECENT_WINDOW_MS` |
| `SubmitRead`, `CheckLoad` | the checks of `submitLoadingRequest` before and after the ERP answers |
| `Insert`, `Duplicate` | one turn of the loop of `createWithOrderReference`; a P2002 moves to the next suffix or gives up |
| `FindAdmins`, `TellAdmin` | the SELECT of the region's admins and one notice each |
| `EditRead`, `EditWrite` | `updateLoadingRequest` |
| `Deactivate`, `ActedOn`, `TermsAge` | staff administration, any route of 3.1 that takes the load out of PENDING, time |
| `LoadForm` | `assertWithinQuantityLeft`, `weighLoad`, `assertCapacityMatchesLoad` |

Abstracted: one calendar day (the date is part of the reference, so days never
compete); quantities and weights are whole numbers of the smallest fraction in
use, so the rounding of doubles is out of the model; the ERP answers with any of
`Feeds` each time it is asked, the empty list being its silence; admins are only
retired, since one who is opened later is told of nothing earlier.

### 3.3 Account officers and staff (`OfficerAssignment`)

| In the model | In the code |
| --- | --- |
| `assigned[k]` | `Customer.assignedOfficerId` |
| `joins[k][o]` | the `CustomerOfficer` row of the pair: none, secondary (`isPrimary` false) or primary; the unique index on the pair is the shape of the function |
| `isActive`, `retiredBy` | `Staff.isActive`, `deactivatedById` |
| `calls[c]` | a handler in flight: its route, where it is, and what it took from its SELECTs |
| `settled`, `raced` | history, not state of the program: whom the present officer of a customer was told of; which customers were written to on a SELECT that had become outdated |
| `ReassignStart`, `ReassignRead`, `ReassignSkip`, `ReassignCheck`, `ReassignWrite` | `reassignOfficer`; `bulkReassignCustomers` runs it for each id, and `runBulk` swallows what it throws |
| `movePrimaryAssignment` | the function of that name, on the rows of one customer |
| `AllCheck`, `AllList`, `AllWrite` | `reassignAllCustomers`: the list is read before the transaction, the pointers are updated by the officer they name in it |
| `Tell` | the notice at the end of either route |
| `ParkRead`, `ParkWrite` | `default-officer.service.ts` `reconcile` (all of the region) and `assignIfUnassigned` (one customer just created) |
| `RetireRead`, `RetireCount`, `RetireWrite`, `Restore` | `setOfficerActive` |
| `Fail`, `Die` | a statement throws; the process dies |

Abstracted: a transaction is one action, at its commit – each begins by updating
the customer row, so two of them on one customer wait for each other. All
officers are posted to the customers' region, and the scope of a regional admin
is `ReassignSkip`. `Ids` holds an id of nobody, so that a selection can fail in
the middle. The running flag and the advisory lock around `reconcile` only make
passes rarer and are left to the reconcilers. `Restore` is one step, since a
reactivation decides on nothing it read; that its actor is active is checked in
that step, not a request earlier.

### 3.4 Services (`MCServices` and the modules it puts together)

These components share no row: what one does changes nothing another reads
(what does – the team of a customer, the retirement of an account – is an
action of both modules that see it). A product of their state spaces would
therefore show nothing that each alone does not, and the instance runs them side
by side: a behaviour picks one component (`live`), the others keep their initial
rows. All work on `calls` of `Handlers`: a record with a route, the step that
comes next, and what the handler took from the statements behind it.

| In the model | In the code |
| --- | --- |
| **Sessions** `tokens[t]` | a `RefreshToken` row: owner, revoked, `replacedBy`; `login` (the first token of its sign-in) and `held` (whether the client was answered it) are the model's |
| `SignInRead`/`SignInMint`, `RefreshRead` … `RefreshLink`, `WalkRead`/`WalkRevoke`, `Logout` | `generateToken`, `refresh`, `revokeChain`, `logout` of `auth.service.ts` |
| `RetireAccount`, `RestoreAccount` | `setOfficerActive`, whose transaction revokes the sessions |
| `late`, `raced`, `ended` | history: tokens made for an account already retired; sign-ins whose rotations overlapped or died; sign-ins ended by a reuse |
| **Passwords** `failures[u]`, `password[u]` | `failedLoginAttempts` and `lockedUntil`; the hash |
| `LoginRead`, `LoginFail`, `LoginClear`; `ChangeRead`, `ChangeSet` | `customerLogin`; `changeMyPassword` |
| **OneTimeCodes** `otpRows`, `resetTokens` | `OtpVerification` rows of one identifier; the signed reset tokens |
| `CodeRead`, `CodeWrong`, `CodeExchanged`, `CodeWipe`, `CodeSet`, `TokenRead` | `verifyOtp`, the staff's confirm and verify, `resetStaffPasswordWithToken` |
| **StaffAccounts** `staffRows` | `Staff` rows: role, region, e-mail, phone, who created it, whether the ERP wrote it |
| `createOfficer`, `updateOfficerProfile`, `LoginBy…`, `LoginSync`, `LoginRetry` | the routes of that name; `staffWebLogin` with `syncStaffFromErp` |
| **Wallet** `stored`, `payments`, `notices`, `credit` | `outstandingBalance`, `Payment` rows, notices, the credit feed |
| `sendRegional`, `sendIndividual`, `SendRead` … `SendTell` | `broadcast.service.ts`, recipient by recipient |
| `syncBalance`, `ReconcileBalances`, `runningBalance` | the webhook; the reconciliation statement; the derivation of `account-balance.ts` |
| **Chat** `messages`, `told` | `Message` rows; whom a notice and a frame went to |
| `OpenGate`, `markInboundRead`, `ThreadFor`, `MarkGate`, `SendGate`, `SendToAny`, `CreateMessage`, `TellOfMessage` | `chat.service.ts` |
| **Tickets** `tickets`, `happenings`, `heard` | status of each ticket; what was committed; the officers told of it |
| `CreateWrite`, `ReplyWrite`, `StatusWrite`, `AskTeam`, `TellOfficer`, `TellCustomer`, `FrameTicket` | `ticket.service.ts` |
| **Notifications** `rows`, `pushTokens` | `Notification` rows; `PushToken` rows |
| `NotifyCreate` … `NotifyDeactivate`, `register`, `unregister`, `markRead`, `markAllRead` | `notify`, the gateway, `modules/push`, `modules/notifications` |
| **Flyers** `flyers` | `ProductFlyer` rows; `asked`, `hidden`, `disturbed` are history |
| **Contact** `buckets`, `lastSweep`, `enquiries` | the limiter's map; `ContactMessage` rows |

Abstracted: hashes and signatures (a client has the tokens and codes it was
given); the expiry of codes and tokens, which refuses a bearer who might as well
not have called; contents of messages, notices and flyers; what Firebase and the
ERP answer is any answer. History variables are not read by any guard or write.

### 3.5 Projections, screens and routes (`MCProjections`)

| In the model | In the code |
| --- | --- |
| **OrderStatus** `orders`, `feed` | `Purchase.status`, `statusUpdatedAt`; `raw_sales_order` by document with its `changed_at` |
| `PurchaseRead`/`PurchaseUpsert`, `ReconcileOrders`, `derivedStatus` | `syncPurchase`; the statements of `order-status.ts` |
| **Reconcilers** `passes`, `running`, `available` | where each job is in each process; its in-process flag; the probe's answer, kept for ever |
| `Wake`, `Probe`, `RaiseFlag`, `TryLock`, `Commit`, `PassFails`, `Restart` | `reconcile` of the four services; `LOCK_KEY` their advisory lock keys, of which three are one |
| **Ledger** `lines`, `openingBalance`, `closingBalance`, `balanceByPurchase` | `statement-ledger.service.ts`; the two tables are read by two queries, in either order |
| **Directory** `PageAnswered`, `ProjectCustomers`, `createTestCustomer` | `getAllCustomersIncludingUnprojected`; `customer-projection.ts`; `createCustomer` |
| **Stock** `stock[k].lines`, `latest` | the ERP's order lines under every CUSTOMER_ID of a code; the id seen last |
| `OwnLines`, `StockLines`, `stockByErpId` | the query of one customer (the latest id), that of many (every id), and the map in which the ids of one code overwrite one another, in whatever order the rows come: `stockByCustomer` is the set of what the column may then show |
| `HomeCard`, `getStockBalanceBreakdown`, `stockByCustomer`, `PortfolioStock` | the home card, the breakdown, the staff's column and the portfolio's screen, with the fallbacks of each |
| **Accounts** `accounts[k].credits` | the ERP's credit records of a code |
| `getRunningBalance`, `getRunningBalances` | two queries for one figure: the record of one code that counts and the grants in force, and `DISTINCT ON` the code with the grants joined on |
| the screens | the tiles, lists, details, tabs and exports of `officer`, `admin`, `regional`, `audit` and `customer` services |
| **Routes** `Table`, `validate`, `canActivate`, `Reached` | the controllers' decorators; `jwt.strategy.ts`; `roles.guard.ts`; `regional-scope.ts` and its like in the services |

`Stock` and `Accounts` change nothing: they are operators over what the other
components write, compared with one another in every state a small set of rows
can take (`AccountScreens` in section 6: in every state at all). `Routes` authenticates and answers in two steps, since the row behind a
token may change in between.

## 4. The runs

| Run | Instance | Shows |
| --- | --- | --- |
| `loading_race` | two handlers interleaved statement by statement, two officers, two quantities; 1.1 million states | the routes implement `LoadingPromise` however they overlap (`ImplementsPromise`); types, `PendingIsUntouched`, `WorkIsAttributed`, `NeverPendingAgain`, and that whoever should know of the final state was told (`OutcomeIsAnnounced`) |
| `loading_skip` (violation) | one handler | a load is completed that was never started (`StartedBeforeCompleted`) |
| `loading_lc1` (violation) | two handlers | a load being loaded is called off (`NoCancelOnceLoading`) |
| `loading_record_twice` (violation) | one handler | a completed load is recorded again (`RecordedOnce`) |
| `submission` | two handlers, two suffixes, two admins, lines that echo the picker's item code; 1.1 million states | references have no gaps and run out only when all exist; the carton mirror; every active admin told; created within what is left, product by product |
| `submission_mixed_lines` (violation) | one handler | a product named once with and once without its code is summed apart (`CreatedWithinOwed`) |
| `assignment` | two handlers, one customer, the default officer and another, two admins; 1.8 million states | what survives: types; pointer and primary row agree for a customer never written to on an outdated SELECT (`InStepUnlessRaced`); the officer who gets a customer is told unless the handler dies (`HolderIsTold`); secondary rows are never deleted; parking never takes a customer from an officer; one retirement is on record |
| `assignment_two_holders` (violation) | the same | pointer and primary rows drift apart (`OneHolder`) |
| `assignment_last_admin` (violation) | the same | two admins retire each other (`AnAdminRemains`) |
| `services` | two handlers in each of ten components, as below; 1,040,753 states | types; what survives races and crashes of sessions (`NoSessionAfterRetirement`, `SignInsRotate`), locks (`LockAtTheLimit`), codes (`CodeIsSpent`), balances (`AllowanceIsInTheBalance`), conversations (`OneHearer`, `ReadMeansShown`, `TheTeamHears`), devices (`RegisteredIsReached`), staff (`ManagedAccountsAreOurs`), flyers (`FlyersAsAsked`) and the form (`FormIsLimited`) |
| `projections` | seven components, as below; 282,775 states | types; `StatementsAgree`, `WalkMeetsAll`, `AccountScreensAgree`, `StampMovesWithStatus`, `HeldToTheRow`, and the liveness properties `BacklogClears` and `StatusReachesDistributor` |
| `overdue` (violation) | the same | the overdue tile and the list it opens show different customers (`OverdueTileIsTheList`) |

**Why the bounds are enough.** No action of 3.1 or 3.2 reads or writes more than
one request, so one request (two suffixes of one distributor) shows everything a
row can go through; TLC explores it with every order of statements. Two handlers
are the least that interleave, and every race found so far has two. The proofs
of section 6 lift the invariants to any number of handlers, requests and staff.
No transaction relates two customers either, except through the list of
`AllList`, and `InStep` of section 6 is proved for any number of them. Two
officers are needed to tell the holder from another; two quantities to see one
overwritten. Two suffixes and two admins are the least at which a gap, an early
refusal and a forgotten recipient can occur. Two admins are the least that can
retire each other. The older route is given the two bodies its documents name;
other bodies are discussed in section 5. Symmetry is over handlers, officers,
admins and quantities in runs that check only safety.

In `services`: three tokens let one sign-in be rotated twice, the least at which
a walk has a link to follow, and let two rotations of one token overlap; a limit
of three wrong passwords and two wrong codes has a count before the limit and one
at it; two codes tell the newest from an older one. One recipient suffices in
`Wallet`, since a recipient is credited in steps of its own and an id of nobody
ends the handler exactly as a throw does; two payments with two handlers overlap
a credit. Two officers and the four teams of `MCTeams` give an account nobody, a
pointer without rows, rows with one primary, and two primaries (which section 5,
number 5 shows to happen). One device, one verdict and one bell row suffice, as
devices and rows are independent; two staff rows collide. The symmetry is over handlers and phones,
which nothing orders.

In `projections`: one load with one handler, as `StatusReachesDistributor` asks
that each notice is in time written and no handler waits for another; one order, whose states cover a table entry of each kind and one
the table does not have; two processes and three jobs, of which two share a lock
key and one has its own (the fourth, balances, has the shared one too); one fault
and two ingests, enough for a failed pass to be made up for and for rows to
arrive behind a snapshot. Three codes and pages of two put the border of the two
sets of `Directory` inside a page, at its end and on the next. Handlers that only read
(`Ledger`, `Directory`, `Routes`) do not disturb one another: there one is in
flight at a time, while writers and ingests interleave with its steps.

**Fairness.** `FairSpec` of the loads asks weak fairness of a handler's own
continuation (its UPDATE and its notices): the event loop resumes a handler whose
statement has answered. Nothing is asked of clients and nothing of crashes. Only
`StatusReachesDistributor` needs it, and it excuses requests in `lost`.

`ReconcilerFairness` asks weak fairness of each pass under way (`PassStep`) and of
each timer that is not disabled (`Wake`): `setInterval` fires again, and a flag
that is up only makes it return. Faults and restarts are bounded by `MaxFaults`,
and nothing is asked of them. `BacklogClears` is claimed for a job that shares
its lock key with no other: for one that does, weak fairness lets its rival hold
the lock at each of its tries. It excuses a job all of whose processes have been
told once that there is no feed, which they never ask again.

## 5. What the code does otherwise than it says

Shown by a run:

1. A load goes from ASSIGNED to COMPLETED (`loading_skip`), where
   `loading-status.ts:90-93` says a load cannot skip to completed without having
   been started: the table below the comment allows it.
2. `cancelLoadingRequest` can call off a load that was started between its two
   statements (`loading_lc1`), against LC-1 in `loading-status.ts:98-108`.
3. Recording the waybill of a completed load succeeds (`loading_record_twice`),
   where `loading.controller.ts:191-195` documents a 409.
4. Two lines of one product, one without its item code, pass the sum check
   together (`submission_mixed_lines`), against `waybill.service.ts:755-759`.
5. Two overlapping moves of one customer leave two primary officers, or a
   pointer without its row (`assignment_two_holders`), against
   `admin.service.ts:1527-1530`. A customer that drifted can stay so, as a
   later move deletes the row only of the officer then in the pointer.
6. Two admins who retire each other at the same time leave none
   (`assignment_last_admin`), against `admin.service.ts:1896-1897`.
7. The overdue tile counts by the balance derived from the ERP, the list it opens
   filters by the stored column (`overdue`), against `officer.service.ts:113-115`
   and `:183`.

Met while modelling, without a run of their own:

* `loading.dto.ts:60-61` and `loading.controller.ts:120` still put IN_PROGRESS
  in the cancellation window that LC-1 closed.
* The older route accepts CANCELLED, and then stamps neither time nor actor; it
  nulls `completedAt` on anything but a completion, and words every other move
  "Loading in Progress" (the wording P-1 replaced elsewhere). `CancelStamped`
  in section 6 therefore assumes that CANCELLED is not among its bodies.
* With two overlapping handlers each route acts on the load as it read it: an
  edit lands after the assignment and moves quantities under the loading officer;
  a displaced officer's write lands; a load called off is assigned, and an
  assignment made between the two statements of a cancellation leaves an officer
  who is not told of it. `LoadingPromise` grants a move when its route looks
  and lets it land on whatever the load is by then, as the code does. Nothing in
  the repository says whom a cancellation must reach or until when an edit may
  land, so neither is a property here.
* *Two ERP ids of one code.* `erp-stock-balance.service.ts:256-259` and
  `stock-balance.ts:180-181` say that the column of the lists cannot show another
  figure than the screen of one customer. The card and the breakdown follow the
  id seen last (`stock-balance.ts:141-146`), the portfolio adds up all ids of the
  code (`:193-206`), and the map of the lists keeps whichever id's sum came last
  (`erp-stock-balance.service.ts:277-308`). `StockAgrees` and `PortfolioAgrees`
  therefore say what is left: with one id (`OneErpId`) they are the same figure;
  with several, the card's is one the column may show, and the portfolio's
  exceeds the cards' by exactly what is filed under the ids they pass over
  (`PassedOver`).
* `recordWaybill` sets `quantityCartons` from the body and leaves the lines, so
  the column is no longer their sum (the schema calls it that).
* An edit replaces the lines without asking the ERP what is left; two racing
  edits, one of lines and one of capacity, leave a capacity that is not the
  weight; `products: []`, documented as clearing the lines, is a 400.
* An officer's customers are counted before the account is retired, and an
  officer is found active before a customer is moved to them: overlapping, the
  two leave a retired officer with a customer, which
  `default-officer.service.ts:134-137` takes to be impossible. The same
  happens when the default officer is retired between being resolved and the
  pass that parks on them.
* *Credits.* An allowance is written as the balance read earlier plus the amount:
  two that overlap, or one and a webhook, lose one. The broadcast's reference,
  `BR-` and six digits of the clock, is unique in the table and inserted after the
  credit: a collision leaves the distributor credited and not told, and an unknown
  id in the middle of a selection leaves the earlier ones credited and the caller
  with a 404. An ERP balance overwrites what was credited since it was computed.
* *Sessions.* Two refreshes with one token both mint. A rotation that dies before
  its link leaves a live token no walk reaches. A sign-in that read the account
  before it was retired mints after it. A reset token works until it expires,
  although the comment at `auth.service.ts:570` says that wiping the codes
  prevents reuse.
* *Devices.* A device that registers again between Firebase's verdict on its token
  and the write of it is switched off.
* *Staff.* An e-mail the ERP spells with capitals is looked up as it is, and finds
  no account that an admin created in lower case: a second account is made. `PATCH
  /admin/officers/:id` applies the edit of the profile and may then answer 409 to
  the change of activity.
* *Tickets.* A reply by an officer who is reassigned meanwhile is stored and then
  answered 403. *Chat.* `chat.service.ts:366-369` says that primary and secondary
  are notified; the code notifies the one addressed (N-1). `customer.service.ts`
  says that the pointer wins over the rows, `sendFromCustomer` takes the rows first.
* *Flyers.* An edit writes back the `isActive` it read, so it may show again what
  was hidden meanwhile; two creations take one place; two reorders mix.
* *Jobs.* Three jobs use lock key 5 530 002 under a comment that calls it distinct,
  so one can keep another from running, and `skipped` is documented as another
  instance holding the lock. A probe that failed once is never repeated.
* *Order status.* The reconciler turns a webhook's LOADED, DISPATCHED or CANCELLED
  back to what the lines say, and stamps it with the time of the feed row, which
  may be earlier than the stamp it replaces.
* *Regions.* `GET /admin/officers` shows every region to a regional admin without
  one, although `regional-scope.ts:39-41` says such accounts are refused. The two
  PATCH routes of `/regional/loading-requests` admit admins by role and then refuse
  every one. `buildRegionScope` and `CurrentRegionScope` are not used.
* *Lists.* Sort columns with equal values have no second key, although the comment
  says it "keeps every page deterministic"; pages may overlap. The home card and
  the breakdown of stock fall back differently; the breakdown floors each product
  and the portfolio its totals, so they need not add up. `vijuTotal` counts feed rows. The
  officer detail (B-4.1) lists customers by the pointer, the officer's own list by
  pointer or row. Order lines use `BUSINESS_QTY`, stock `BUSINESS_QTY1`. The
  table `syncStock` writes is read by nothing.

## 6. Proofs

Everything here is checked by TLAPS for every value of the constants that
satisfies the assumptions of the modules: any number of accounts, rows, handlers
and processes, any tables of the ERP. The argument is always the same. `XInv` is
an inductive invariant: the types, the property, and what a handler may rely on
between two of its statements although every other one runs meanwhile. A lemma
says that the initial states satisfy it, one per action that the step keeps it,
and the theorem follows. Each was checked by TLC on a run before it was proved.

**Loads** (`LoadingLifecycle_proofs`). Assumptions: `None` is nobody,
bodies of the older route are statuses.

* `Invariance`: `IndInv` is the type invariant, the two row invariants and two
  strengthenings neither would be inductive without: `HandlerInv`, and
  `UnraisedIsEmpty`. A load still pending has no officer, so the ownership gate
  turns every officer route away from it; the officer, once set, is never
  cleared, so a handler that passed the gate still finds one; no UPDATE sets
  PENDING_ASSIGNMENT, and each produces a row that satisfies the invariants from
  any row that does (`Successor`), whatever happened since the SELECT.
* `TypeCorrect`, `PendingUntouched`, `WorkAttributed`, `PendingIsLeftOnce`
  (an action property) follow from it.
* `OutcomesAreAnnounced` adds `StatusIsAnnounced`: whoever should hear of the state
  a load is in has been told, or a handler owes it, or a handler died. Every write
  that changes status or officer queues the notice for it (`WriteSays`). Its
  hypothesis is that the older route is sent LOADING_IN_PROGRESS or COMPLETED, the
  two its documents name: it words any other move as a start of loading.
* `CancelStamped`: cancelled rows are stamped, assuming `"CANCELLED" \notin
  LegacyTargets` (this one is proved only: no run checks it).
* `RoutesKeepThePromise`: however many handlers overlap, and whatever the older
  route is sent, the routes implement `LoadingPromise` – each step maps to a step
  of it or to a stutter. A handler past its SELECT is a move granted: `PermitOf`
  maps a call to the move its write will make, and `PermitInv` says that only a
  route that changes the status holds one. `ReadGrants` shows that every SELECT
  lets through only a move of the table, `WriteMakes` that every UPDATE makes the
  move that was granted and touches neither status nor officer otherwise. What
  the promise does not say, as the code does not keep it: that a load is still
  what it was when the move was granted (`loading_lc1`), nor that it was started
  before it is completed (`loading_skip`).

**Submission** (`LoadingSubmission_proofs`), for every set of distributors,
handlers, admins, forms and feeds and every `MAX_REFERENCE_ATTEMPTS`. Assumptions:
quantities on a form are natural numbers (the DTO refuses others), and what a feed
lists is positive (`listForCustomer` filters on `quantityRemaining > 0`).

* The inductive invariant adds `HandlerInv` and `HeardInv`. A handler about to
  INSERT suffix *n* has met every smaller one taken, and rows are never deleted:
  so what it inserts leaves no gap (`NoGaps`), and what it gives up on is a full
  day (`RefusedWhenFull`). An active admin who has not heard of a request is still
  on the list of a handler that carries it, or that handler died (`AdminsHear`).
* `CartonsMirror`: every UPDATE that writes lines writes their sum, and the
  others leave both.
* `CreatedWithin` is about the check itself, for any number of lines: the code sums
  under the first key of a line the ERP knows, the property sums by what the lines
  mean. `ChecksWhatIsOwed` says the two agree when a line that can only mean one
  product carries that product's id, specification and name, as the picker fills
  them in: then all lines meant for a product are summed under its own first key,
  which is no other product's. Without that hypothesis the property is false
  (`submission_mixed_lines`).

**Account officers** (`OfficerAssignment_proofs`). Assumptions: the default officer
is an officer, officers and admins are disjoint, `None` is nobody.

* The inductive invariant adds `HandlerInv`, what each route brings to its
  write. The argument of `InStep`: a write on an up-to-date SELECT deletes the
  one primary row there is and creates the new one; a write on an outdated one
  puts the customer in `raced`; for `AllWrite` the list and the WHERE differ in
  exactly those customers. Parking touches only customers without an officer,
  who by the invariant have no primary row.
* `HolderHears`: every committed move takes its customers out of `settled` and
  leaves its handler at the notice, with the new officer as addressee; a handler
  leaves that step only by settling what it carries, and parking, which tells
  nobody, only ever gives customers to the default officer.
* `SecondariesAreKept`, `ManualStands` and `StampedOnce` are action properties:
  each holds because the condition is in the WHERE of the write and not only in
  the SELECT before it.

**Signing in** (`SignIn_proofs`): sessions, passwords, codes and staff accounts.

* *Sessions.* Retired accounts are staff; `None` is neither an account, a number
  nor a row. `TokenInv`: rows are numbered as they are inserted, and a link leads
  from a revoked row to a later row that the client was answered. `OneEnd`: the
  rows of a sign-in that are not linked on are one, or the two a rotation under
  way has in its hands. `RefreshInv` and `ChainInv` say what a rotation and a walk
  may rely on: the row a rotation brings is brought by no other, and a walk has
  seen only rows before the one it is at, so that it never stops because of its
  own guard against cycles. `SignInsAreRotated`: a live row is not linked on, so
  two live rows of one sign-in are a rotation's; and a walk ends at a row without a
  link, the end of the chain, all rows before it being revoked already.
  `RetirementEndsSessions`: the transaction revokes every live row of the account,
  and a row created afterwards is entered in `late`.
* *Passwords* (`LocksAtTheLimit`, any positive limit). As long as no two logins of a
  user overlapped, the login in flight carries the count that is still in the row,
  and the count is that of wrong passwords since the last success.
* *Codes* (`CodesAreSpent`). Of a code nobody shared: its row counts the guesses the
  handlers made (`RowCounts`), at most one handler works from it (`Bearer`), and
  once it has set a password its row is gone or the handler that set it is about to
  wipe it (`OpenedOnce`).
* *Staff accounts* (`AccountsAreOurs`). The roles managed here include administrators
  and the field roles, and no region is called "erp". An account never changes
  between managed and mirrored, so what a handler found an account to be is still
  so when it writes: the sign-in checks the role of the row at both ways to find
  one and the role the ERP reports, and no write in between can make either answer
  wrong.

**Reaching people** (`Outreach_proofs`).

* *Devices* (`DevicesAreReached`). Only a verdict older than the registration it
  switches off takes a registered device off the list; the invariant says what is
  known of the devices a handler is about to write a verdict on.
* *Chat.* `ChatHeardByOne`: the addressee is in the row the handler committed, not in
  the team as it is when the notice goes. `ChatReadIsShown`: a message is stamped
  read by a handler that goes on to answer it, and what it answers is read after
  what it stamps.
* *Tickets* (`TicketsAreHeard`). The handler asks for the team after it committed.
  `TeamWatched` relates the team as it is to who was on it all along (`steady`) and
  who was at some time (`passing`); `NoticeRuns` says that those on a handler's list
  looked after the customer at some time, and that whoever did all along has
  heard or is on it.
* *Flyers* (`FlyersComeAsAsked`). With one handler of the list at work, a reorder has
  put every flyer in front of its place where it belongs, a creation has a maximum
  no flyer exceeds, and an edit writes back an `isActive` that is still true.
* *Contact form* (`FormStaysLimited`). The bound speaks of any stretch of a window's
  length, the code of windows that begin with a request: a stretch meets two of
  them at most. `BucketHolds` says that what got through in the window of a bucket
  is at most its count, those in flight included, and that an address without a
  bucket has nothing in a window that still counts, which is what the sweep must
  not break; the rest is counting (`UpToOne`, `EachOnce` and finite sets).

**Wallet and all services** (`Services_proofs`). `AllowancesAreInTheBalance`: per
distributor, the column is the ERP's figure and the sum of the payments recorded
since, but for one whose credit rests on a balance that changed (`Balanced`); and
every handler that still owes a notice has its payment on record (`ToldOf`).
Credit tables and days are finite. `ServicesKeepTypes` puts the ten invariants
together: in a behaviour of `MCServices` the component at work keeps its own and
all others keep their initial rows (`ServiceInv`).

**Projections** (`Projections_proofs`).

* *Orders* (`StampsFollowStatus`). No stamp is ahead of the clock, and an order whose
  stamp is that of its feed has the status of its feed: without the second, the
  reconciler could correct a status and leave the stamp where it was.
* *Jobs* (`LocksExclude`, proved only). Of the passes at work no two have the same
  lock, through failures and restarts of their processes.
* *Statements* (`StatementsContinue`). Movements are totally ordered by date, kind and
  id (`Precedes`), so the sorted list is unique (`SortedExists`), what is upto a
  window's edge is a sum over a set, and two adjoining windows cut one list. What a
  statement read in two SELECTs is still two finite tables.
* *Customer list* (`WalksMeetAll`). While nothing is written (`whole`), what a walk has
  got so far is the first rows of the two lists one behind the other (`Met`), for
  any page size, wherever the border of the two falls in a page.
* *Routes* (`RequestsAreHeld`), an action property: the strategy reads the row before
  the guards run, and the roles and the reach are computed from it; proved for every
  table of routes.
* *Screens* (`AccountScreens`). Nothing the screens show is stored, so the proof is of
  their sums: what one query adds over all lines, tickets, messages or accounts
  and another over groups of them is the same, by `SumByGroup` (each line in the
  group of its key), `SumReindexed` (once per element, in whatever order a list has
  them), `SumOfTable` (cartons by order and by product) and `SumWithoutZeros` (a
  filter that drops only accounts without any). `StockScreensAgree` has a case where
  the feed has lines under the account's latest id and one where it has none there
  or does not answer; `ColumnsOfIds` and
  `OwnAndPassedOver` relate the ids of one code to the whole, and `PortfolioAddsUp`
  is the difference section 5 describes. `BatchIsSingle` says that the query for one
  customer's credit and the query for many find the same newest record (`Later` is
  total on ids that differ, `CreditsHeld`) and add the same grants, whatever other
  codes are asked for in the same call; `BalancesAreOne` rests on it.
  `TilesAgree`, `RegionsAddUp`, `OfficersAreOffered` and `OrdersAddUp` are the
  rest. Assumptions: accounts, regions, tickets, messages, credit records, orders
  and lines are finitely many, ids of tickets and of credit records are unique, no quantity that
  was ordered, bought or delivered is negative, and amounts are whole numbers.
* `ProjectionsKeepTypes` composes them as above (`ProjectionInv`).

**Lemmas** (`Counting`). Induction over data is done here without the induction
theorems of the library, which take an operator as a parameter: a set of naturals
that has 0 and with each its successor is `Nat` (`NaturalsInSet`, from
well-foundedness). On it rest sums over finite sets (`SumAdds`, `SumOfUnion`,
`SumsAgree`: the sum does not depend on the order in which the community module's
CHOOSE takes the elements), the sorted list of a finite set, and counting along a
sequence. `SortSeq` is a Java override whose definition the provers cannot unfold,
so the sorted lists of `Ledger` and `Directory` are defined as the one arrangement
of the set that is in order.

Only model-checked, and why:

* liveness (`StatusReachesDistributor`, `BacklogClears`) and ENABLED are out of the
  prover's reach;
* the properties a run refutes are false of the code.

## 7. Plan

Done, in the order of how much of the system's behaviour depends on it: loading
requests, their abstract specification and proofs; submission; account officers;
staff accounts, sessions, passwords and codes; wallet, order status and the
reconcilers with their liveness; notices, chat, tickets, flyers, contact form;
statements, the customer list, stock and the screens; routes; a proof of every
safety property the passing runs check.

Left: the sends of `NotificationService` composed with the loads and tickets that
call it, which here are counted where they are called and followed where they are
carried out, but not in one run; an abstract specification of sessions, of which a
sign-in with one live token is the whole state, and the proof that `Sessions`
implements it while rotations do not overlap.

## 8. Not modelled, and why

* **Uploads, storage, e-mail, SMS**: calls out to services, without state here;
  who may upload is in `Routes`, and that a failed e-mail is swallowed is why
  no module has a step for it.
* **The ezone OTP provider** keeps its codes itself; only the local provider's rows
  are in `OneTimeCodes`.
* **Realtime frames** are hints that the client should ask again, and kept nowhere.
* **Exception filters and bootstrap**: the wording of answers and wiring.
* **PDFs** of statements and waybills print rows whose figures `Ledger` computes.
* **Waybill and financial documents, item codes, specifications** are copied from
  the feed line by line, with no figure derived from them; the **mock ERP** answers
  constants.
* The table written by **`syncStock`** is read by nothing.
* **Seeds and scripts** run by hand on an idle database.
* **DTOs** beyond what a handler relies on: validation refuses a call, which is no
  step.
