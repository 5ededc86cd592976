------------------------------- MODULE Buffer -------------------------------
(***************************************************************************)
(* libsponge/util/buffer.hh, .cc: Buffer, a shared read-only string seen   *)
(* from an offset on; BufferList, a deque of Buffers; and BufferViewList,  *)
(* a deque of views of strings.  A string is a sequence, and so is a view. *)
(* The null pointer of an exhausted or default Buffer is the empty string: *)
(* nothing tells the two apart.                                            *)
(***************************************************************************)
EXTENDS Integers, SequencesExt

NewBuffer(str) == [storage |-> str, starting_offset |-> 0]

buffer_str(buf) == SubSeq(buf.storage, buf.starting_offset + 1, Len(buf.storage))

(* Faulty: keeps the offset when it lets go of the storage. *)
buffer_remove_prefix_once(buf, n) ==
  [storage |-> IF n = Len(buf.storage) THEN << >> ELSE buf.storage,
   starting_offset |-> n]

(* Buffer::remove_prefix, which throws when n > Len(buffer_str(buf)). *)
buffer_remove_prefix(buf, n) ==
  LET offset == buf.starting_offset + n
  IN  [storage |-> IF offset = Len(buf.storage) THEN << >> ELSE buf.storage,
       starting_offset |-> offset]

-----------------------------------------------------------------------------
(* BufferList: its construction from a Buffer and from a string. *)
BufferListOf(buf) == << buf >>

BufferListOfString(str) == BufferListOf(NewBuffer(str))

append(list, other) == list \o other

strs_of(list) == [i \in DOMAIN list |-> buffer_str(list[i])]

concatenate(list) == FlattenSeq(strs_of(list))

list_size(list) == Len(concatenate(list))

(* BufferList::operator Buffer, which throws for two Buffers or more. *)
as_buffer(list) == IF list = << >> THEN NewBuffer(<< >>) ELSE list[1]

(***************************************************************************)
(* The loop of remove_prefix over the sizes of the entries: how many are   *)
(* popped, each in whole, before nothing is left to discard or what is     *)
(* left is less than the next entry.                                       *)
(***************************************************************************)
size_of_first(strs, k) == Len(FlattenSeq(SubSeq(strs, 1, k)))

popped(strs, n) ==
  CHOOSE k \in 0..Len(strs) :
    /\ k = Len(strs) \/ size_of_first(strs, k) = n \/ size_of_first(strs, k + 1) > n
    /\ \A j \in 0..(k - 1) :
         size_of_first(strs, j) # n /\ size_of_first(strs, j + 1) <= n

(* BufferList::remove_prefix, which throws when n > list_size(list). *)
list_remove_prefix(list, n) ==
  LET k    == popped(strs_of(list), n)
      rest == n - size_of_first(strs_of(list), k)
      left == SubSeq(list, k + 1, Len(list))
  IN  IF rest = 0 THEN left
      ELSE << buffer_remove_prefix(Head(left), rest) >> \o Tail(left)

-----------------------------------------------------------------------------
(* BufferViewList, from a string and from a BufferList. *)
ViewsOfString(str) == << str >>

ViewsOf(list) == strs_of(list)

views_size(views) == Len(FlattenSeq(views))

(* The bytes that writev and sendmsg find behind as_iovecs. *)
as_iovecs(views) == FlattenSeq(views)

views_remove_prefix(views, n) ==
  LET k    == popped(views, n)
      rest == n - size_of_first(views, k)
      left == SubSeq(views, k + 1, Len(views))
  IN  IF rest = 0 THEN left
      ELSE << SubSeq(Head(left), rest + 1, Len(Head(left))) >> \o Tail(left)

=============================================================================
