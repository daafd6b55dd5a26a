# A verification of beyondx/demo_class

The repository is the code of a class in systems programming: data structures
(`src/01DataStruct`), processes and their communication (`src/02App_Devel`),
threads and sockets (`src/03NetPro_thread`). It is many small programs rather
than one system. The parts with logic of their own are modelled here in TLA+,
model-checked with TLC, and the ones that lend themselves to it proved with
TLAPS.

Run a model with `tlc -config X.cfg M` and check proofs with `tlapm M.tla`, in
this directory. `PROJECT.json` lists the runs, the source lines behind every
definition, the hazards each property is for, and for every property a mutated
definition that breaks it.

## Inventory

| Component | State | Operations | What is hard, and what makes it correct |
|---|---|---|---|
| Producer and consumer, `05Pthread/06test_pro_con.c` | `data`, mutex, condition variable | `pro_handler`, `con_handler`, `main` | signal after unlock, spurious wakeups, `pthread_create` that fails: no lost update, no lost wakeup, no destruction in use |
| Two threads, `05Pthread/02test.c` | mutex, `arg` on main's stack, a counter | `thr_demo`, `thr_demo2`, `main` | threads return with the mutex held, join overwrites `arg`: exclusion, final count, the ways it can end |
| File readers, `05Pthread/05test_homework.c` | shared offset, `total_size` | `thr_read_file`, `main` | errors in one thread, EINTR, integer width: the file is read once and wholly |
| Fork server, `06Socket/02Tcp_loop` | children, pending SIGCHLD | accept, fork, close, the handler | signals that do not queue: the handler does not block, clients are accepted; zombies |
| Select server, `06Socket/03Tcp_select_enhanced` | `cli_fds`, `ol_con`, the set | select, accept, `client_handler` | holes in the table, peers that vanish: the table agrees with the connections, who is served |
| Echo server, `03IPC/04MsgQueue/03Project/echo_server` | one message queue | request, answer | one queue for both directions, its limit: every client is answered once, by the server |
| Chat room, `04Project/chatroom` | message queue, list of users, `srv_shutdown` | login, list, chat, broadcast, signal, restart | the server receives its own answers, the queue outlives it: lists for who asked, shutdown |
| Kernel-style list, `04Kernel_list/list.h` | links | `list_add`, `list_add_tail`, `list_del`, `list_del_init`, ... | order of the link writes, stale links: the links represent a sequence, lists are separate |
| Josephus ring, `04Kernel_list/joesph.c` | a list, a cursor | `joesph_loop` | passes over the head, steps beyond the size: the survivor, termination |
| Hash table, `05HashTable` | chains, a static cursor | push, find, destroy | a cursor kept between calls: all matches, in order |
| Stack, queue, list, `02Dlist`, `06Btree/queue.c` | nodes on the heap | add, delete, find, pop, destroy | reuse of freed nodes: it is a double-ended queue, nothing dangles or leaks |
| Calculator, `03Calc` | two stacks, a flag | `calc_main` | levels, brackets, signs, errors, state left by a call: the value of the expression |
| Search tree, `06Btree` | nodes with parents | push, find, delete, seven traversals | deletion with two children: order, nothing lost; traversals agree |
| Sorts, `07Sort` | an array or a list | six and three sorts | cursors on nodes that move, strides, holes: sorted, a permutation, stable where meant |
| File server, `06Socket/04File_Server` | `cli_fds`, `ol_con`, descriptors | select, accept, `client_handler`, `file_send2` | files never closed, blocking writes, holes: when a request is handled |
| System V semaphores, `05Semaphore/SysV`, `02Semaphore/01SysV` | one semaphore of a key, undo adjustments | P, V, SETVAL, IPC_RMID, fork | instances that start, are killed or interrupted at any time: exclusion, and everyone ends |
| Pool of children, `02Process/4fork_exec2.c` | two counters, children | fork, `waitpid` in two loops | one counter for two loops: no child too many and none left |
| Singly linked lists, `01Slist` | links | add, delete, search, invert, destroy | nodes that come back with an old link: it is a sequence |
| Huffman coder, `08Huffman` | table of nodes, sorted list, bits | compress, decompress | code width, the last byte, files of one byte: round trip, shortest code |
| Address book, `Project/ADDRESS_LIST` | a list of contacts | the choices of the menu | a freed node in use, the first contact only: the contacts are kept |

The components that are not modelled are listed in the last section.

Interaction: the calculator and the tree use the stack and the queue, which are
the doubly linked list; the hash table, the ring, the list sorts and the chat
room use the kernel-style list, the address book and the Huffman coder copies of
it; the echo server and the chat room meet their
clients only through the kernel's message queue; the servers meet theirs through
sockets and signals; the threads share memory, a mutex and a condition variable;
instances of the semaphore programs share a semaphore that outlives them.

## Modules

Threads.

- `ProCon`: `pro_handler`, `con_handler` and `main` as processes with a program
  counter. `++data` and `--data` are a load and a store. `pthread_cond_wait`
  releases the mutex in one step with going to sleep; `ConSpurious` wakes it
  without a signal. Either `pthread_create` may fail. `produced`, `taken` and
  `got`, what the consumer has taken in the round it is in, are history variables
  that no guard reads.
- `ThreadJoin`: the two threads and main. The mutex may be unlocked by whoever,
  as a normal mutex on Linux.
- `FileReaders`: any set of threads. `Wrap` is the arithmetic of an `int` whose
  width is the constant `Half`. A read returns from one byte up to the buffer,
  or is interrupted, or fails.

Processes.

- `SysVMsg`: `msgsnd` and `msgrcv` as operators on a sequence: choice by type,
  limit of the queue. External to the repository, and used by the next two.
- `EchoServer`: clients with a type (two of them with the same one), the server,
  and the conversion that turns a request into an answer.
- `ChatRoom`: the server's loop is three steps (test of `srv_shutdown`, receive
  and handle, send one message), since each of its calls can block and a signal
  can come between them. Ids 12 and 2 are used because `m_chat(msg + 3)` reads
  the first as the second. Of a message's text its command, the number after it,
  the text of a chat and, as history, the user it is for are kept. What a user
  chats may itself read as a command, which the server obeys when it takes the
  message that it has forwarded; which commands a chat may carry is the constant
  `Commands`. A chat inside a chat has plain text. A server that ended can be
  started again on the queue it left. The proofs are for any ids below 100: the client with id 0, whose
  `msgrcv` takes messages of every type and to which `msgsnd` refuses to send,
  is among them.
- `ForkServer`: counts of children serving and of zombies, a pending bit for
  SIGCHLD, the handler that interrupts main. `accept` may fail at any time, here
  and in the next two, and ends the server.
- `SelectServer`: `cli_fds`, `ol_con`, `rd_set` and the loop over the slots, one
  step for `select`, for `accept`, and for the read and the write of every
  client. A client that leaves with an answer unseen resets the connection; a
  second write to such a connection raises SIGPIPE.
- `FileServer`: the same loop, with a handler that opens and maps the file that a
  request names. Descriptors are a finite set from which `accept` and `open` take
  the lowest, since the server never closes a file. The write waits while the
  client has not read the answer before. For a hole among the slots the code tests
  `FD_ISSET(-1)`, which reads some bit of the set: `HandleFree` is the case in which
  it is set, so that `client_handler(-1)` counts `ol_con` down and clears that bit.
- `Semaphores`: several instances of one of three programs on one key; each of
  their calls is a step, and a process may be killed between any two. `Undo`,
  which is the kernel's, adds a process's adjustment when it ends.
- `ProcessPool`: `main()` with its two loops, and its children as two counts.

Data structures.

- `ListOps`: what `list.h` does to links, as operators on the functions `next`
  and `prev`, with the writes in the order of the code. `KernelList` has an
  action for every function and a sequence for every list, its specification.
- `Joseph`, `HashTable`, `ListSort`: programs on these lists, in steps as small
  as a round of their loops.
- `Dlist`: the doubly linked list with a heap whose addresses are reused;
  `Deque` is the sequence it promises to be, and `ImplementsDeque` states that
  it is.
- `Calc`: characters come one by one; `Value` is a grammar-directed evaluator,
  the reference. `Btree`: nodes with `parent`, `lchild`, `rchild`; deletion in
  the four cases of the code; recursive traversals as operators, those with a
  stack as operators with the stack as an argument.
- `ArraySort`: the six sorts as functions from a sequence to a sequence.
- `Slist`: the three versions of the list, told apart by `version`. Inversion and
  destruction go node by node. `NodeSeq` is the sequence of nodes they promise to
  be; `ImplementsSeq` states it with a mapping (`Contents`) that, during an
  inversion, puts the part already turned round before the rest.
- `Huffman`: one step for each phase of the preparation and for each round of its
  loops, for each byte encoded and each byte decoded. `code` has `CodeBits` bits,
  so that the shifts lose bits as in the code.
- `AddressBook`: a step for each choice of the menu, and four for adding a contact,
  whose loop goes on after it freed the node. Loops over the list follow the links
  (`At`), which may have become a cycle. Texts are sequences of characters, which
  is what the copy without an end needs. `free()` of a node freed before aborts or
  goes unnoticed, as the text typed into the node may cover what glibc would find;
  unnoticed, the address is in `twice` and may be handed out two times.

`MCThreads`, `MCProcesses`, `MCServers`, `MCLists` and `MCData` instantiate
several programs at once: the variable `program` says which one runs in a
behaviour, and the others keep their initial state. Each extends the module of one
of them (`ProCon`, `ForkServer`, `SelectServer`, `KernelList`, `Dlist`). `ChatRoom`, `SelectServer`
and `ForkServer` are also checked by themselves.

## Runs

| Run | Instance | Shows |
|---|---|---|
| `threads` | 3 rounds each, 2 spurious wakeups; argument 20 and result 10 as in the code; 2 readers, file of 5 bytes, buffer of 2, an `int` from -4 to 3, 2 faults | the properties of the three thread programs; that the programs end, or hang in the one way the properties name |
| `processes` | 4 clients of the fork server; 3 clients of the echo server with process ids 10, 20 and 21, so 2 with one type, a queue of 2; 3 instances of `semaphore.c`, 2 of the programs with a child, up to 2 processes killed; a pool of 3 for 5 | `HandlerNeverBlocks`, `Accepted`, `OneEach`, `Answered`, `SemExclusive`, `SemEnds`, `PoolEnds` |
| `servers` | 3 clients, 2 slots, 3 lines or 2 requests, 3 descriptors beside the listening one | `Tracked`, `ReadNeverBlocks`, `Served`, `RequestsHandled` |
| `chat` | users 12 and 2, a queue of 2, 3 sends, 2 starts; a chat carries no command or `L` | `AtMostOneMore`, `OwnList`, `ShutdownEnds` |
| `lists` | 2 heads and 3 nodes; 2 chains and 5 nodes; rings of 1 to 9, steps of 2 to 10; 3 nodes and 2 values of a singly linked list; 3 contacts | `Represents`, `Separation`, `FindInOrder`, `FindReturns`, `EndsWithSurvivor`, `ImplementsSeq`, `BookKept` |
| `data` | 4 addresses, 2 values; expressions of up to four operands with signs, brackets, zero divisors and lacking operands, and pairs of calls; 5 nodes, two with one key; all arrays of 1 to 6 and lists of 0 to 5 elements with 3 keys; all files of up to 4 bytes of 5 values, and files with up to 3 of each, codes of 3 bits | refinement of `Deque`, no dangling, value of expressions, order of the tree, traversals, `ArraySorted`, `SortsList`, `RoundTrip`, `Shortest` |
| `echo_reply`, `fork_zombies`, `select_hole`, `chat_broadcast`, `calc_zero`, `address_not_found` | as above, smaller where it suffices | six places where the code does not do what its own comment or message says |

The bounds. A chat that carries `L` is the one that makes
the server send a list nobody asked for, which `OwnList` counts; the proofs are for
chats with any command. Two actors of each kind are enough for every race between two of
them; the third client of the select server waits while two fill the table, which
is what makes a connection refused and a descriptor reused. A queue of two can be
full of answers, of requests or of both. A file of five bytes and an `int` of
eight values overflow. Three nodes with stale links into two lists give every
position (first, middle, last, only) for the node and its neighbours. Rings
smaller than the step and starts beyond the ring occur. With six elements the
stride of 3 has two elements in each group and the stride of 2 three. Three
descriptors are fewer than the two slots and the files of two requests need.
Three instances of `semaphore.c` let one hold the semaphore, one wait and one
start; two kills can hit a holder and a waiter, or a parent and another's child. Three addresses
let the freed node be at the beginning, in the middle and at the end when malloc
hands it out again. Counters
that the code leaves unbounded are bounded by `MaxSpurious`, `MaxFaults`,
`MaxSends`, `MaxStarts`, `MaxLines`, `MaxRequests`, `MaxClients`, `MaxKills`,
`MaxBook` and `MaxEdits`, each in the guard of the action
that counts.

`CHECK_DEADLOCK FALSE` is given in every configuration, because every one of
these programs may end, and those that wait for a client or a user may wait for
ever.

### What the six violations show

- `echo_reply`: `client.c:16` receives the next message of its own type from the
  queue to which it has just sent one of that type. If the server is slow, the
  client gets its own request and prints it as "receive from server".
- `fork_zombies`: the handler of SIGCHLD calls `waitpid` once. Two children that
  end before the handler runs raise the signal once; one remains a zombie,
  although the comment says that the handler prevents zombies.
- `select_hole`: the loop of `server.c:177` goes to `ol_con`, the number of
  clients; a client that left makes a hole and the number smaller, and the
  client in the last slot is not looked at any more, until another one comes.
  `Served` is what does hold: the lines of a client below `ol_con` are written back
  to it, unless the server ends.
- `chat_broadcast`: the server receives messages of any type from the queue on
  which it sends to the users, and may take back its own broadcast.
- `calc_zero`: `bracket_handle` ignores that `do_stack` fails, so `(7/0)` has a
  value and no error.
- `address_not_found`: the loop of the deletion (`address_list.c:147`) returns in
  its first round in either case, so that only the first contact can be deleted,
  and any other "is not found".

### What the exceptions in the properties are

Some properties that hold name the cases in which the code does not keep what one
would expect of it. Within the bounds of the runs there is no other; where the property
is proved as well, there is none at all.

- `SemExclusive`: the SETVAL of an instance that starts while another is inside
  lets a second one in.
- `SemEnds`: the end of a killed parent undoes its V, and the SETVAL of another
  instance takes it away; then the child waits for ever.
- `Served`: a hole leaves a client beyond `ol_con`; `accept` fails; a peer that
  reset its connection makes `select` fail on the descriptor that nobody took from
  the table, or the second write to it raises SIGPIPE.
- `RequestsHandled`: a hole puts a client beyond `ol_con`, and so does a hole that is
  handled as if it were a client; a client that does not read stops the server in
  its write; `accept` fails, which it must once files that are never closed have
  used up the descriptors; SIGPIPE.
- `ShutdownEnds`: the signal comes between the test of `srv_shutdown` and an `msgrcv`
  that then waits for ever on an empty queue, or the server waits for ever in
  `msgsnd` on a full one.
- `OwnList`: a chat whose text reads as a request for a list counts as one; the
  server obeys it when it receives the chat before the user does.
- `BookKept`: after an `N` the freed node is used as before. Nothing is claimed once
  it was confirmed, and so linked, or refused once more with `free()` not noticing.
- `ValueOfExpr`: a minus sign on a factor inside a product is applied to all of the
  product behind it (`7/-2*2` is -1: the FIXME of `calc.c:133`, `SignInProduct`); an
  error inside brackets is dropped (`ErrorInBrackets`); and nothing is claimed of a
  call after one that ended in an error, whose stacks are not emptied.
- `CalcReturns`: when `bracket_handle` meets a `)` with no number left for the
  operator on top of the stack, it goes round for ever: `(2*)`, `2*)`, and `(-2)` in
  a second call, which begins with the flag that the first one left and so does not
  take the `-` for a sign.
- `RoundTrip`: codes longer than `code`, and files of one byte value, for which
  there is no tree.
- `EndsOrHangs`: the second thread may lock first, and never unlocks.

Others leave a case out by what they speak of. `EndsWithSurvivor` is about steps from
2 on: step 1 empties the ring and the loop does not end. `Represents` and `Separation`
are about calls as `list.h` intends them: a node is not deleted a second time before
it is added again, and not added while it is linked. `SameTraversals` is about a tree
with a node: `btree_level_order` dereferences the root. `ArraySorted` is about arrays
with an element: `nmemb - 1` of `select_sort` wraps for none. The models of the two
servers with a table leave out the element behind the table that the search for a
client reads when the table is full (`03Tcp_select_enhanced/server.c:38`,
`04File_Server/server.c:101`), and that of the address book what `malloc` may do after a
third `free()` of one node.

## Fairness

- Threads: weak fairness of every thread's step and of main's; the scheduler runs
  every thread that can run. No fairness for the condition variable to wake
  without a signal, for a thread's creation to fail, or for a read to fail.
- Servers: weak fairness of the server and of the delivery of a
  pending signal; the clients of the chat room do poll and wait for their lists.
  Clients need not connect, send or leave, children of the fork server need
  not end, and `accept` need not fail.
- Semaphores: weak fairness of every process's calls. A semaphore with one unit
  has no waiter overtaken for ever, as each instance calls P once. Kills and
  interruptions need not happen.
- Pool: weak fairness of `main()` and of the children, which run `date`.
- Echo server: strong fairness of a client's `msgrcv` and of the server's
  `msgsnd`, since the kernel serves the processes that sleep on a queue in their
  order, and each goes to sleep again behind the others.
- Sequential programs (lists, calculator, sorts): weak fairness of the next step.

Liveness without such an assumption would be refuted by a program that stops.

## Proofs

TLC checks an instance; these theorems are for every value of the constants. The
proofs are in modules of their own, each extending the module it is about. A
program that runs only inside `MCThreads`, `MCProcesses` or `MCLists` is proved
about there (`MCSpec => []...`): while another program runs its variables do not
change, so the steps of its own program are all there is to look at.

| Module | Proved | The inductive invariant, and why it is needed |
|---|---|---|
| `MCThreadsProofs` | of the producer and consumer: `TypeOK`, `Conservation`, `NoLostWakeup`, `NoEmptyRound`, `DestroyedUnused` | none is inductive: who holds the mutex at which program counter, that a loaded value is still that of `data` when it is stored, that a consumer about to take found `data` positive or has taken in this round already, which threads exist at each point of `main` |
| | of the two threads: `Exclusive`, `FinalCount` | for each phase of `main`: what `arg` is, which thread may have locked the mutex, how far each has counted |
| | of the file readers: `Accounted`, `CompleteAtEnd` | only the thread between its read and its store has a `total_size` that lacks what it read, modulo the width of an `int`; a thread returns 0 only at the end of the file |
| `MCProcessesProofs` | of the fork server: `HandlerNeverBlocks`, `NoDescriptorLeak` | as many zombies as SIGCHLD pending and being handled, or more: inductive with `TypeOK` |
| | of the pool: `Bounded`, `AllWaited` | in which of its loops `count` is the number of children, and in the last one what it and the children sum up to |
| | of the semaphores: `SemExclusive` | unless the last SETVAL disturbed an instance, an adjustment says whether its process is inside and the value is 0 while one is |
| | of the echo server: `OneEach` | inductive with the types; the argument counts places of the queue |
| `SysVMsgProofs` | what `msgsnd` and `msgrcv` do to the number of messages of a kind in the queue | |
| `ChatRoomProofs` | `AtMostOneMore`, `OwnList` | what a message about a list can look like, that nothing is left to be sent outside "send", and where the server is after the signal; for every set of commands that a chat may carry |
| `SelectServerProofs` | `Tracked`, `ReadNeverBlocks` | `OneSlot`, `OneConnection`: slots, descriptors and clients match one to one; `Selected`: what `select` reported about a slot still ahead of the loop is still true when it is reached, although the loop closes connections on its way |
| `ListOpsProofs` | what each update of links does to a ring of any length, to one of several rings, and to a list with one link; that following the links for k steps is the k-th node of the way | |
| `MCListsProofs` | of the kernel-style list: `Represents`, `EmptyIsEmpty` and the action property `Separation` | `Disjoint`: a node has one place in one list |
| | of the address book: `BookKept` | `Kept`: the links lead through the book and back, what is allocated is the book and perhaps the contact being added, and no address is free twice |
| | of the hash table: the action property `FindInOrder` | `IInv` of `HashTable`: the chains are rings without common nodes (`Linked`, `Disjoint`), each node is in the chain of its name, and the cursor is behind the first p nodes of the chain with exactly their matches found (`Searching` during a call, `Resting` between calls); from a destroyed table all that remains is that the links lead somewhere (`LinksSet`) |
| | of the singly linked lists: the refinement `ImplementsSeq` | `IInv` of `Slist`: there is a sequence s of different nodes, the linked ones, with `View(s)`: the links lead from the head through s, or from the cursor of `slist_destroy` through the rest, or, for some m, `slist_invert` has turned round the first m (`Turned`) |
| `DlistProofs` | `NoDangling`, and the refinement `ImplementsDeque` | some sequence of addresses is the way round the list (`Holds`), and exactly it and the head are allocated; the cursor of `dlist_destroy` is the first node |

The refinement of `Deque`. `Contents` is what one meets by following the links
from the head; under `Holds(s)` it is the payloads of `s` (`ContentsAre`). Each
action that changes links is shown to give `Holds` of the sequence with an address
put in front, put at the end or taken out, and so to be `PushFront`, `PushBack`,
`PopFront`, `RemoveFirst` or `Discard` of `Deque`; `top` is `Top`, and the rest
leaves `Contents` alone. The address that `malloc` returns may be any that is
free, one that was in the list before included.

The refinement of `NodeSeq` by `Slist` goes the same way. `Contents` is defined by
following links, in an inversion backwards from `Prev` and forwards from `cur`; under
`View(s)` it is s with its data (`ContentsOfView`). An addition or a deletion is then
`Add` or `Unlink`; each iteration of `slist_invert` keeps s and raises m, so that
`Contents` is the old list until the assignment to the head makes it the reversed one
(`TurnedOneMore`, `TurnedAll`); an iteration of `slist_destroy` is `Unlink(1)`. A node
that is added again is shown only not to be in s: what a deletion left in its link
plays no part in the argument, which is the claim.

For `FindInOrder` the matches in a chain grow only at its end (`MatchesGrow`,
`MatchesKept`), so what a cursor in the middle has found stays a prefix of them while
nodes are pushed, and is all of them when it gets to the head.

Following links is a recursive function (`Step`, `At`), as are the matches of a
chain and what `slist_for_each_invert` prints. That such a function
satisfies its recursion is proved by building it up to any number of steps and
taking a least counterexample (`WalkExists`, `EndlessWalkExists`); no induction
rule with an operator parameter is used. `EndlessWalkExists` is needed in the
address book, whose links may have become a cycle.

Assumptions on the constants, each next to the constants it is about:
`RoundsAssumption`, `ArgAssumption` and `SizeAssumption` (as `ThreadsAssumption`),
`ClientsAssumption`, `PidsAssumption`, `QueueAssumption` and `PoolAssumption` (as
`ProgramsAssumption` of `MCProcesses`), `IdsAssumption`, `SlotsAssumption`,
`HeadsAssumption`, `HashAssumption`, `SizesAssumption`, `ListAssumption` and
`BookAssumption` (as `ProgramsAssumption` of `MCLists`), `AddrAssumption`. They say that bounds are
natural numbers, that a buffer, a queue or a table has room for one element, that
an id of the chat room is below 100, that a chat carries only commands of the menu, that the nodes of a list or a heap are finitely
many, that every name has a chain, and that NULL and the heads of lists are not
addresses of nodes.

Only model-checked:

- liveness (the prover has no fairness and no ENABLED): `ProConOutcome`,
  `EndsOrHangs`, `ReadersEnd`, `Accepted`, `Answered`, `SemEnds`, `PoolEnds`,
  `Served`, `RequestsHandled`, `ShutdownEnds`, `FindReturns`, `EndsWithSurvivor`,
  `DestroyFrees`, `CalcReturns`, `SortsList`. Safety that some of them contain is
  proved: `FinalCount`, `CompleteAtEnd`, `Bounded`, `AllWaited`;
- what recursive operators compute, as induction over data is out of the prover's
  reach: `ValueOfExpr`, `FindsKeys`, `SortedList`,
  `SameTraversals`, `ArraySorted`;
- what the folds of the Huffman coder compute: `RoundTrip`, `Shortest`.

## Not modelled, and the plan

The order of the work so far was: threads, servers, list and its users, stack and
its users, sorts; then the Huffman coder, the singly linked lists, the file server,
the semaphores, the pool of children and the address book; then proofs of the
safety properties of the threads, the processes, the servers and the lists, and of
the refinements. Next:

1. `EpollServer`: the edge-triggered loop with one `recv` for each event
   (`06Socket/05Epoll_server`), which leaves what does not fit the buffer unread
   until more arrives.

Left out for good: demonstrations of single calls (`01File`, `02Pipe`,
`03Signal`, `01SysV` and `02Posix` message queues, `01test.c`, `03test_heap.c`,
`04test_mutex.c`), the terminal programs (`03Termios`: pure input and output), the
unfinished `chatroom2` (it does not compile), the POSIX semaphores and the record
locks (one call on a kernel object in each program), the iterative TCP and UDP
servers, which serve one client at a time, the first select server, which the modelled one replaces,
and old copies (`06Btree.bak`, `02Dlist/dlist`). In the modelled parts, printing,
the setup of sockets and queues before the loops, and allocation that fails are
left out.
