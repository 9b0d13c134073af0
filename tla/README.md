# Verification of the Trello backend

TLA+ models of the Go backend in `src/`, model-checked with TLC and, where the
property deserves it, proved with TLAPS for every value of the constants.

The backend is a gin HTTP server over PostgreSQL and Redis. Every request runs
in its own goroutine: handler (`internal/handler`) → service
(`internal/service`) → repository (`internal/repository`), and **a service
method is a sequence of single SQL statements and Redis commands that no
transaction holds together**. All shared state is in the two stores, so the
hard behaviour is everywhere of one kind: a check made by one statement is used
by a later one while other requests run between them, and a request may stop
between any two of its statements.

## 1. Inventory

| component | state | operations | what is hard |
|---|---|---|---|
| Sessions (`auth_service.go`, `middleware/auth.go`, `pkg/jwt`) | `refresh_tokens`; Redis `tva:<user>`, `blacklist:<jti>`; tokens at clients | login, refresh with rotation and reuse detection, logout, logout of all devices, password change and reset, Auth middleware, hourly clean-up | revocation racing a refresh in flight; delayed SETs; whole-second clock; keys that expire; ignored errors |
| Accounts (`auth_service.go`, `middleware/ratelimit.go`) | `users`, `email_verifications`, Redis `otp_attempts:`, `ratelimit:` | register, verify, resend, login, forgot/reset, profile, avatar, change of password | the UPDATE of `users` writes the whole row as it was read; codes are not unique; a counter and its EXPIRE are two commands |
| Workspaces (`organization_service.go`) | `organizations`, `organization_members` | create, invite, set role, remove, leave, delete | checks of actor and target made stale by other requests; half-done creation |
| Boards (`board_service.go`, `organization_service.go`) | `boards`, `board_members` | create, set role (two routes), remove, leave, delete, join | two routes to one table with different checks |
| Invitations (`invitation_service.go`, `board_service.go`) | `board_invitations` and three other tables | invite, replace, revoke, look up, accept (two ways), decline, expire | acceptance in 3–6 statements with ignored errors; status overwritten |
| Lists, cards, labels | `lists`, `cards`, `labels`, `card_labels` | create, copy, move, archive, assign, label | the board of each object is looked up, compared and used in separate statements |
| Checklists (`checklist_service.go`) | `checklists`, `checklist_items` | create, edit, delete, toggle | read-then-negate toggle; MAX(position) read before the INSERT; a parent deleted in between |
| Attachments (`attachment_service.go`) | `attachments`, `cards.cover_attachment_id`, object store | upload, delete, set and remove the cover | two stores; the only transactions of the program; a flag and a pointer that must agree |
| Comments (`comment_service.go`) | `comments` | create, reply, edit, delete, list, mention | tree built in memory from a flat query; replies to deleted comments; names resolved one by one |
| Notifications and event stream (`notification_service.go`, `sse_manager.go`, `notification_handler.go`) | `notifications`; the client map and its channels in memory | notify, read, delete, register, push, forward, unregister | bounded channels, two goroutines per stream, lock discipline, the server's write timeout |
| Positions of lists and cards (`pkg/position`) | `position` columns | max-then-insert, move | equal positions: the code keeps no order among them |
| Activity log, administration, content and surveys, server wiring | — | — | append-only, or single statements |

Components meet in four places. Acceptance of an invitation writes `users`,
`board_members` and `organization_members`; every operation on a board's
content asks `CanUserAccess` on `board_members`; creation of a board and the
workspace-wide role change ask `FindMemberBySlug` on `organization_members`;
assignment, comments and mentions end in `notifyUser`, which INSERTs a
notification and pushes it to the streams of one user. Each module models its
own tables by their statements and the others' by the changes they can undergo
(`LeaveBoard` and `Register` in `Invitations`, `Join` in `Boards`,
`RoleChanges` in `Cards`, the membership in `Comments`). Workspace membership is
read by two requests of `Boards` and can change at any time, so there any user
may have passed that check and the two requests arrive after it. `Checklists`
and `Attachments` let the access check pass or refuse at any time.

## 2. Modules

| module | models | notes |
|---|---|---|
| `Sessions` | tokens, rotation, revocation, middleware | `SessionsProofs` |
| `Accounts` | users as rows written whole, codes and reset tokens, counters | `AccountsProofs` |
| `Roster` | *abstract*: what a membership table promises | used by `Organizations` |
| `Organizations` | workspaces and their members | implements `Roster`; `OrganizationsProofs` |
| `BoardRoster` | *abstract*: what the memberships of a board promise | used by `Boards` |
| `Boards` | boards and their members, both role-change routes | implements `BoardRoster`; `MembersProofs` |
| `Invitations` | invitations of one board | `MembersProofs` |
| `Cards` | which board content belongs to; assignment; labels | `CardsProofs` |
| `Checklists` | checklists and items as rows of one relation | `ChecklistsProofs` |
| `Attachments` | files, rows, cover flags and pointers | `AttachmentsProofs` |
| `Comments` | comments, the tree a client is shown, mentions | `MembersProofs` |
| `Feed` | *abstract*: what a notification stream promises | used by `Events` |
| `Events` | notifications, the client table, channels, streams | implements `Feed`; `EventsProofs` |
| `MC…` | symmetry sets for TLC, one per module | `Events` runs without |

`Boards` implements `BoardRoster` and not `Roster`: the workspace-wide role
change demotes the owner of a board (section 3), so `BoardRoster` has that step,
and the founding of a board in two steps, of which the second may never come.

**Shape common to all.** `Workers` are goroutines. `req[w]` is the request
worker `w` is serving: a program counter naming its next statement and the
values the handler read before. One action is one SQL statement, one Redis
command or one reading of the clock, together with the Go code up to the next
one. `Fails(w)` (in `Sessions` `CallFails`) is a statement that returns an
error, or a process that dies; where the code assigns an error to `_` the
request goes on instead. The runs of safety properties permute workers and the
ids of rows that no property tells apart; the run with liveness uses no
symmetry.

**Correspondence, by example.** In `Organizations`, `FindMemberBySlug` is the
look-up of the actor with the role check that follows it (`MayStart`),
`FindTarget` the look-up of the target with its checks (`MayTouch`), and
`WriteMember` the INSERT, UPDATE or DELETE, whose effect on the row it finds at
that time is `Written`: an UPDATE of a missing row writes nothing, an INSERT
against the unique key `(organization_id, user_id)` fails. In `Events`,
`SendToUser` is `Lock` (which takes the read lock and finds the clients of the
user), a `Send` per client, and `Unlock`; the handler `Stream` is a loop whose
`select` has the cases `Forward`, `Ping` and `Return`, beside a goroutine that
does `Unregister`. In `Attachments`, the transactions of `SetCover` and
`RemoveCover` are two actions, because at READ COMMITTED the first UPDATE takes
the rows it sees when it begins and everything becomes visible at the commit.

**Time** in `Sessions` is whole seconds, the unit of the `iat` claim and of the
threshold. `Tick` also removes Redis keys whose lifetime is over.

## 3. Runs

Passing runs (bounds in the `.cfg`; every disjunct of every `Next` fires in one
of them):

| run | bounds | states | what it shows |
|---|---|---|---|
| `Sessions` | 2 workers, 1 user, 2 pairs, lifetimes 1–2 s, one exp claim besides the signed ones | 3.8 M | `RotatedOut`, `CutsOff`, `StaysCutOff`, `LoggedOutRefused` |
| `Accounts` | 2 workers, 1 user, 1 stranger, 2 passwords, 2 rows, maxima of 1 | 1.8 M | `VerifiedWasProved`, `StaysVerified`, `CountersEnd` |
| `Organizations` | 3 workers, 3 users, 1 workspace | 0.34 M | implements `Roster` (`KeepsItsOwner`); `OneOwner`, `RemovedStaysOut` |
| `Boards` | 2 workers, 2 users, 2 workspaces, 2 boards | 0.7 M | implements `BoardRoster` (`KeepsItsFounder`); `OwnersDemotedByOthers`, `RemovedStaysOut` |
| `Invitations` | 2 workers, 2 users, 2 invitations | 4.3 M | `AcceptedWasAdmitted`, `ReplacedStaysGone` |
| `Cards` | 2 workers, 1 user, 2 boards, 2 lists, 2 cards, 1 label, 2 roles | 2.2 M | `CardsKeepTheirBoard`, `LabelsOfOwnBoard` |
| `Checklists` | 2 workers, 1 card, 2 checklists, 3 items | 1.0 M | `PlacedAfterOlder`, `ItemsHaveChecklist`, `ToggleNegates` |
| `Attachments` | 3 workers, 2 cards, 3 attachments | 0.6 M | `FileBehindRow`, `CoverIsFlagged`, `OneCover` |
| `Comments` | 2 workers, 2 users, 2 cards, 3 comments | 3.0 M | `ThreadsShown`, `MentionsReach`, `DeletedIsFinal` |
| `Events` | 2 workers, 2 users, 1 stream, 2 notifications, channel of 1 | 0.11 M | implements `Feed` (`KeepsFeed`); `SendsToClients`; liveness: `StreamsEnd`, `PushesArrive` |

*Why the bounds are enough.* Every race in this code is between a check and a
write of one request and one write of another: two workers show it. The
workspace run takes three because its checks involve an actor and a target that
both can change, `Attachments` because two changes of one cover and an upload
meet. Two pairs are a refresh token and its successor. Two boards are needed
for a card to leave one and for an owner of one to act on the other; two
invitations for one to replace the other; two cards in `Attachments` for the
change of one cover not to touch the other, in `Comments` for a reply to name a
comment of another card, in `Cards` because a copy needs a source; the roles there are
none and admin, since a role may change at any time, so any check may pass or
refuse. The exp claim of `Sessions` besides the
signed ones, 1, is a second before the end of the earliest token, enough for a
key that ends while the token lives (a later claim only lengthens the key). Three
comments are a comment, a reply and an answer to the reply; three items are two
that were there and one that is inserted after one of them was deleted. In
`Accounts` one row is a code and one a reset token, or both are codes, of which
one may be a stranger's; a maximum of 1 lets every counter be below, at and
above it, and counts above the maximum are one value because no code tells them
apart. A channel of 1 is empty, full, and full for the second notification, as
the code's channel of 100 is for the hundred-and-first. With one stream `Send` has no
choice of order; an instance of `Events` with two streams (2.15 M states)
satisfies its invariants as well but is too large for the liveness check. Its
pushes are as many as its notifications, so readers of the client table that
overlap without end do not occur in it; that they cannot keep `Unregister` out
is the fairness assumed of it below. `read` and the deletion of notifications
are there because requests write them; no property depends on them.
`MaxTime`, `Pairs` and `MaxInvs` bound what would grow for ever; elsewhere the
finite sets of row ids do. PostgreSQL never reuses an id, which the models keep
by `retired` or by rows that stay marked as deleted. The proofs do without the
bounds where they exist.

*Deadlock.* `Organizations` sets `CHECK_DEADLOCK FALSE`: when its one workspace
is deleted, or the request that founds it dies before the owner is a member, no
request on it can start any more.

*Fairness.* Only `Events` assumes any (`FairSpec`); no request is assumed to
arrive, no statement to succeed, no client to leave and no deadline to pass.
Weak fairness of `Push`: between `Lock` and `Unlock` a goroutine calls nothing
that blocks, since the sends have a `default`. Weak fairness of `Ping`: the
handler's ticker ticks every 30 s. Weak fairness of `Forward` and `Return`: the
handler is in its loop, and `select` chooses among the ready cases at random, so
a case that stays ready is taken. Strong fairness of `Unregister`: it needs the
write lock, which readers may hold again and again, but a waiting `Lock` of an
`RWMutex` keeps new readers out. `StreamsEnd` is about streams whose client went
away or which outlived the server's `WriteTimeout` of 15 s: the request context
says so in the first case, and in the second only the next write that fails,
for which the ping is enough. `PushesArrive` is about requests at the lock.

Two runs are expected to end in a violation.
- `LogoutAllRace`: after "Logged out from all devices"
  (`handler/auth_handler.go:176`) no refresh token of the user is usable. A
  refresh between `RevokeToken` and `CreateRefreshToken` survives.
- `RepliesThreaded`: "Get all comments with threaded replies"
  (`docs/swagger.yaml:1292`), where the replies of a comment are comments with
  replies (`AnswersThreaded`). An answer to a reply is stored and shown nowhere:
  `buildCommentTree` copies the reply into its parent before the answer is
  attached to the original.

The models contain more behaviours that documents or messages of the repository
do not lead one to expect. No property is stated for them, because no statement
of the code prevents them:
- `AcceptWithPassword` does not store the refresh token it sends, so this token
  can never be exchanged (`JoinWithPassword` in `Sessions`);
- an older `tva:` threshold overwrites a newer one (`StaysCutOff` names the
  exception);
- a profile change in flight writes back the password a reset has replaced, and
  a reset in flight can write `is_verified` back (`StaysVerified` names it);
- an admin removes a member who became admin after the check; the
  workspace-wide role change demotes the owner of a board, also by somebody who
  was demoted after `IsWorkspaceOwner`;
- an invitation that was declined or replaced after `Accept` read it still
  admits; an accepted one that is opened after three days becomes expired; and
  `RevokeInvitation` looks among the invitations of board `""`, so none is ever
  withdrawn;
- a card is assigned to somebody who left after `CanUserAccess`, and an assignee
  who left is still notified of comments;
- two toggles that overlap write the same value, and rows created at the same
  time may share a position;
- a token that lives longer than 20 minutes after a revocation is accepted again
  when the `tva:` key has expired, as the comment at `auth_service.go:405`
  ("rejected for up to 20 minutes") says; the code does not compare the
  configured lifetime with it;
- `Logout` does not verify the token it blacklists, so its SET can replace a key
  that is there by one that ends earlier, after which the token passes again
  (`LoggedOutRefused` names such a logout, kept in `early`, as the exception);
- files in the object store outlive their rows.

## 4. Proofs

Each proof module proves `Spec => []Inv` for its component's type invariant and
for the properties below, for every value of the constants that satisfies the
named assumptions. Each has an inductive invariant `IInv` of the same plan:
the properties, and beside them *what a request knows between two of its
statements*, because that is what other requests could make stale.

**`SessionsProofs`**: `TypeOK`, `RotatedOut` and the action properties
`CutsOff`, `StaysCutOff`, `LoggedOutRefused`. The argument needs more than the
properties say:
- *rotation*: a pair being issued by a refresh has a parent whose row is no
  longer valid, from `Rotate` on and through `Mint` and `Insert`, because rows
  never become valid again;
- *cut-off*: every pair in a request's `before` was generated at or before the
  reading of the clock, hence `iat < mark` for the threshold it stores;
- *staying cut off*: a key `tva:` with value `v` lasts at least until
  `v - 1 + TvaTTL` (`ThresholdOK`), `v - 1` being the second in which the clock
  was read. Nothing is assumed of the lifetime of access tokens. That a token is
  cut off for the rest of its life is the corollary `CutOffForLife`, whose
  hypothesis `AccessTTL <= TvaTTL` the default configuration (15 and 20 minutes)
  satisfies and the code does not check;
- *logout*: the key of a blacklisted token expires no sooner than the token,
  unless a logout of it carried an exp claim before the signed one, whatever set
  of exp claims (`Exps`) there is.

**`AccountsProofs`**: `TypeOK`, `VerifiedWasProved`, `StaysVerified`,
`CountersEnd`. `Update` writes rows back that were read long before, so the
invariant must say how old a copy can be. The fate of an address goes from
"unproved" to "proved", "verified" and "undone" and never back (`Stable`); a
request that read `is_verified` as true read it at one of the last two, and a
profile change or a change of password that holds a copy saying false was
started by somebody who is signed in and so read it after a reset had undone
the verification (`Fits`). A counter without a time to live belongs to a
request that is about to send the EXPIRE, or to one that lost it.

**`OrganizationsProofs`**: `TypeOK`, `OneOwner`, the refinement
`Spec => R!RosterSpec` (`KeepsItsOwner`), and `RemovedStaysOut`. The inductive
invariant adds to `OneOwner` what is known of requests in flight: a request past
`FindTarget` has a target that is not the owner, and a request past
`FindMemberBySlug` means the owner's membership is there. This is why the races
that do break "Admins cannot remove other admins" never reach the owner: a
membership of rank owner is created once, by `AddOwner`, and for the founder, so
what was read about the owner cannot become stale.

**`CardsProofs`**: `TypeOK`, `LabelsOfOwnBoard` and `CardsKeepTheirBoard`. No
check of a move or of a label is repeated by its write, so the argument is that
what was read cannot become stale. Every step keeps the board of a list that
exists, of a card that exists (through its list) and of a label until it is
deleted (`Kept`); hence a request past its comparison still holds a list on its
card's board, and a label on that board or a retired one, which the foreign key
refuses (`LookedUp`, `Compared`). The two support each other: `Kept` for a move
needs `Compared`, and `Compared` of the other requests needs `Kept`.

**`ChecklistsProofs`**: `TypeOK`, `PlacedAfterOlder`, `ItemsHaveChecklist`,
`ToggleNegates`. The rows a position was computed from may be deleted before the
INSERT. The order is kept because ids are not used again: a row that was read is
there unchanged, or retired (`RemembersRows`). That `MAX(position)` is a maximum
needs positions that are bounded (`Bounded`), since nothing says that the sets
of rows are finite; the lemma `MaxOfBounded` gets it from well-founded induction.

**`AttachmentsProofs`**: `TypeOK`, `FileBehindRow`, `CoverIsFlagged`,
`OneCover`. What a card shows and what is flagged are in two tables. The
invariant adds that an upload's file is its own and stored before the INSERT
(`UploadsOwn`, `StoredBeforeInsert`), that a change of a cover has a file of its
card (`ChangesFit`), and that its first UPDATE saw every row of that card but
those that `slipped` in since (`SeenFits`), which is the exception `OneCover`
names.

**`EventsProofs`**: `TypeOK`, `SendsToClients`, and the refinement
`Spec => F!FeedSpec` (`KeepsFeed`): every step of the server is a step of `Feed`
or changes nothing `Feed` sees. That a client is shown a notification once rests
on who may send it: the one request that stored it, so a stream that is still to
be sent it neither holds nor has shown it (`OwedIsNew`). That it is addressed to
the viewer rests on the lock: nobody leaves the client table while a request
goes through it (`PushesFit`, `HeldFits`, `SendsToClients`).

**`MembersProofs`** holds the three components in which a membership of a board
is what a request relies on. It extends `Boards` and takes `Invitations` and
`Comments` as the instances `I` and `C`, because their definitions share names;
what `NullAssumption` of an instance says of its constants, as far as the
argument needs it (`Owner \in Users`, `NoCard \notin Cards`, `NoComment \notin
Comments`), is a hypothesis of its theorems.
- *Boards*: `TypeOK`, the refinement `Spec => B!BoardRosterSpec`
  (`KeepsItsFounder`), `OwnersDemotedByOthers` and `RemovedStaysOut`. The role
  of owner is written once, when the creation ends, and a board has no members
  before (`UnfoundedIsEmpty`, `FoundersFit`). So a request that found a member
  and compared its role with "owner" did so after the only time that somebody
  becomes owner: its target still is not one when it writes, however old the
  comparison is (`InFlight`). An invitation may be accepted on a board that all
  its members have left, so a join relies on the board having been founded
  (`StaffedAreFounded`). The invariant also says
  that nobody but the creator is owner (`NoSecondOwner`, theorem
  `OneOwnerEach`). Under the refinement `Stage` tells whether a board is being
  founded: a creation ends as `Seat` or `Abandon` (`StageOpens`); a write that
  meets the owner's row is `Demote` or leaves the row alone, since only a join
  and a role change by somebody else through the workspace can meet it, and any
  other write is `Assign`; the remaining steps are not seen (`StagesKept`).
- *Invitations*: `TypeOK`, `AcceptedWasAdmitted`, `ReplacedStaysGone`. An
  invitation keeps its address from the INSERT on; whoever marks an acceptance
  has, since it read the invitation, seen its own user admitted, and that
  somebody was admitted is never undone, although the membership may be.
- *Comments*: `TypeOK`, `ThreadsShown`, `MentionsReach`, `DeletedIsFinal`. While
  a request notifies, the users with access are among those it has `seen`, and
  the one whose mention passed the check is neither the author nor noted yet, so
  the mention is its first. `ThreadsShown` rests on `AnswersLater`: a comment is
  younger than what it answers, since one can only answer a comment that was
  inserted and `created_at` is set when the answer arrives. So the loop of
  `buildCommentTree` copies a reply before anything is attached to it. What
  holds after each round of that loop is `TreeFits` (`RoundFits` is one round).
  The loop is a recursive function on 0..Len(thread); that its definition means
  what it says (`TreeRounds`), and that `TreeFits` goes on to the last round,
  are inductions, done on sets of numbers (`UpTo`, from well-founded induction),
  because the library's induction theorems take an operator as a parameter.

Only model-checked: `StreamsEnd` and `PushesArrive`, since liveness under
fairness is outside the proof system's reach; the violations of `LogoutAllRace`
and `RepliesThreaded`.

## 5. Not modelled

- *Positions of lists and cards, and moves among them.* The code computes a
  position from a read and writes it later; it keeps no order among rows created
  at once, and reads back by position. `PlacedAfterOlder` states what is left
  of the order, for checklists and items. `RebalancePositions` and `NeedsRebalance` are
  called by no code.
- *Values no check reads*, and their updates: names, descriptions, due dates, the hash of a
  password, what an e-mail says. A mail that cannot be sent is an error of the
  call.
- *The activity log*: rows are only added, by INSERTs whose errors are
  dropped, and nothing reads them back to decide anything.
- *Administration, content and surveys*: single statements without a check that
  another request could make stale.
- *Wiring*: configuration, routing, JSON, storage clients. `OptionalAuth` is
  used by no route, `BroadcastToBoard` by no code.
- *The stores themselves*: PostgreSQL and Redis execute one statement or command
  atomically, with PostgreSQL at its default isolation; a statement that
  reports an error may or may not have been applied where the caller goes on
  afterwards.

## 6. Plan

1. The composition of workspaces, boards and invitations, for what removal from
   a workspace leaves behind on its boards and in the assignments of cards.
2. `Events` with several streams per user, once the liveness check of it fits.
3. Positions of lists and cards: what a move keeps when nothing else moves.
