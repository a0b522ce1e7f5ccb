------------------------------- MODULE Codec --------------------------------
(***************************************************************************)
(* The byte formats a peer has to read back: the frames of an encrypted    *)
(* stream, a pushed file that is cut anew for each target (hub.rs,         *)
(* secure.rs), the payload of a QR code and the mDNS record (sync_info.rs).*)
(*                                                                         *)
(* Pure functions, called one at a time with inputs from small sets; every *)
(* call is checked against what the peer at the other end should read.     *)
(***************************************************************************)
EXTENDS Naturals, SequencesExt

CONSTANTS
  Byte,             \* contents of files and messages, below 256
  MaxLength,        \* bound on their length
  Token,            \* tokens of QR codes
  Block,            \* cipher block: 16 in the code
  StreamChunk,      \* ENCRYPT_STREAM_CHUNK_SIZE
  FileChunk,        \* FILE_CHUNK_SIZE
  Sizes             \* chunk sizes of a target's answer and of the TXT record

\* A token is a u32, the number of bytes of the padding a u8, and the length of a
\* frame, which holds an IV, a chunk and its padding, fits into the u32 before it.
ASSUME CodecAssumption ==
  /\ Byte \subseteq 0 .. 255
  /\ MaxLength \in Nat
  /\ Token \subseteq Nat
  /\ \A token \in Token : token \div 65536 < 65536
  /\ {Block, StreamChunk, FileChunk} \subseteq Nat \ {0}
  /\ Block < 256
  /\ (StreamChunk + 2 * Block) \div 65536 < 65536
  /\ Sizes \subseteq Nat

VARIABLE call   \* the call being looked at: its input and what came of it

Content == BoundedSeq(Byte, MaxLength)
Idle == [op |-> "none"]
Error == [ok |-> FALSE, bytes |-> << >>]
Ok(s) == [ok |-> TRUE, bytes |-> s]

-----------------------------------------------------------------------------
(* Bytes *)

\* Mutant of div_ceil: the last, shorter piece is forgotten.
div_floor(n, d) == n \div d

div_ceil(n, d) == (n + d - 1) \div d

\* slice::chunks
chunks(s, n) ==
  [i \in 1 .. (Len(s) + n - 1) \div n |->
     SubSeq(s, (i - 1) * n + 1, IF i * n < Len(s) THEN i * n ELSE Len(s))]

\* u32::to_be_bytes and from_be_bytes
to_be_bytes(n) ==
  <<(n \div 16777216) % 256, (n \div 65536) % 256, (n \div 256) % 256, n % 256>>
from_be_bytes(b) == b[1] * 16777216 + b[2] * 65536 + b[3] * 256 + b[4]

\* Base64: three bytes are four digits; what is missing at the end is left out.
Digits(b) ==
  LET at(i) == IF i <= Len(b) THEN b[i] ELSE 0
      n == at(1) * 65536 + at(2) * 256 + at(3)
  IN  SubSeq(<<n \div 262144, (n \div 4096) % 64, (n \div 64) % 64, n % 64>>,
             1, Len(b) + 1)
Undigits(d) ==
  LET at(i) == IF i <= Len(d) THEN d[i] ELSE 0
      n == at(1) * 262144 + at(2) * 4096 + at(3) * 64 + at(4)
  IN  SubSeq(<<n \div 65536, (n \div 256) % 256, n % 256>>, 1, Len(d) - 1)
b64_encode(s) ==
  FlattenSeq([i \in 1 .. div_ceil(Len(s), 3) |-> Digits(chunks(s, 3)[i])])
b64_decode(s) ==
  FlattenSeq([i \in 1 .. div_ceil(Len(s), 4) |-> Undigits(chunks(s, 4)[i])])

-----------------------------------------------------------------------------
(* Encrypted streams *)

\* The cipher adds one to every byte; that nobody else can undo it is not the
\* subject here.  The padding is PKCS #7: 1 to Block bytes, each their number.
encrypt_for_client(plain) ==
  LET pad == Block - (Len(plain) % Block)
      iv == [i \in 1 .. Block |-> 7]
      padded == plain \o [i \in 1 .. pad |-> pad]
  IN  iv \o [i \in 1 .. Len(padded) |-> (padded[i] + 1) % 256]

decrypt_from_client(cipher) ==
  LET n == Len(cipher)
      padded == [i \in 1 .. n - Block |-> (cipher[Block + i] + 255) % 256]
      pad == padded[n - Block]
  IN  IF \/ n <= Block
         \/ n % Block # 0
         \/ pad \notin 1 .. Block
         \/ \E i \in n - Block - pad + 1 .. n - Block : padded[i] # pad
      THEN Error
      ELSE Ok(SubSeq(padded, 1, n - Block - pad))

encrypt_stream_for_client(plain) ==
  LET frame(chunk) == LET encrypted == encrypt_for_client(chunk)
                      IN  to_be_bytes(Len(encrypted)) \o encrypted
      pieces == chunks(plain, StreamChunk)
  IN  FlattenSeq([i \in 1 .. Len(pieces) |-> frame(pieces[i])])

\* Mutant of decrypt_stream_from_client: what is left of a frame is taken.
DecryptStreamLoosely(s) ==
  LET from[offset \in 0 .. Len(s)] ==
        IF offset + 4 > Len(s) THEN Ok(<< >>)
        ELSE LET size == from_be_bytes(SubSeq(s, offset + 1, offset + 4))
                 end == offset + 4 + size
             IN  IF end > Len(s) THEN Ok(SubSeq(s, offset + 5, Len(s)))
                 ELSE LET head == decrypt_from_client(SubSeq(s, offset + 5, end))
                          tail == from[end]
                      IN  IF head.ok /\ tail.ok THEN Ok(head.bytes \o tail.bytes)
                          ELSE Error
  IN  from[0]

\* The loop, from the frame that starts at offset on.
decrypt_stream_from_client(s) ==
  LET from[offset \in 0 .. Len(s)] ==
        IF offset = Len(s) THEN Ok(<< >>)
        ELSE IF offset + 4 > Len(s) THEN Error
        ELSE LET size == from_be_bytes(SubSeq(s, offset + 1, offset + 4))
                 end == offset + 4 + size
             IN  IF end > Len(s) THEN Error
                 ELSE LET head == decrypt_from_client(SubSeq(s, offset + 5, end))
                          tail == from[end]
                      IN  IF head.ok /\ tail.ok THEN Ok(head.bytes \o tail.bytes)
                          ELSE Error
  IN  from[0]

-----------------------------------------------------------------------------
(* Pushed files *)

\* The chunk files of a completed push, one after the other.
read_completed_push(pieces) == FlattenSeq(pieces)

\* What is posted to a target that answered with its own chunk size and count.
upload_completed_push_to_target(pieces, size, count) ==
  LET source == read_completed_push(pieces) IN
  IF size = 0 THEN [ok |-> FALSE, posted |-> << >>]
  ELSE IF div_ceil(Len(source), size) # count THEN [ok |-> FALSE, posted |-> << >>]
  ELSE [ok |-> TRUE, posted |-> chunks(source, size)]

-----------------------------------------------------------------------------
(* QR code and mDNS record *)

rotate_right(s, offset) ==
  [i \in 1 .. Len(s) |-> s[1 + ((i - 1 + Len(s) - offset) % Len(s))]]

encode_qr_payload(info, token) ==
  b64_encode(rotate_right(info, token % Len(info)) \o to_be_bytes(token))

\* Mutant of decode_qr_payload: rotated on, not back.
DecodeQrForward(encoded) ==
  LET decoded == b64_decode(encoded)
      n == Len(decoded) - 4
      token == from_be_bytes(SubSeq(decoded, n + 1, n + 4))
  IN  <<rotate_right(SubSeq(decoded, 1, n), token % n), token>>

decode_qr_payload(encoded) ==
  LET decoded == b64_decode(encoded)
      n == Len(decoded) - 4
      token == from_be_bytes(SubSeq(decoded, n + 1, n + 4))
  IN  <<rotate_right(SubSeq(decoded, 1, n), (n - (token % n)) % n), token>>

\* Entries 0, 1, 2, ... of the record, in this order.
encode_txt_record(info, size) == chunks(b64_encode(info), size)

-----------------------------------------------------------------------------
(* Calls *)

Init == call = Idle

\* pull_file, and the answer of a source to cache_pull_file_from_client: the
\* connection may end after any byte.
Stream(plain, cut) ==
  LET s == encrypt_stream_for_client(plain) IN
  /\ call = Idle
  /\ cut <= Len(s)
  /\ call' = [op |-> "stream", plain |-> plain, missing |-> Len(s) - cut,
              read |-> decrypt_stream_from_client(SubSeq(s, 1, cut))]

\* broadcast_completed_push: the target computed its count from the size in
\* the paste, which need not be the size of what was pushed.
Upload(file, declared, size) ==
  LET count == IF size = 0 THEN 0 ELSE (declared + size - 1) \div size IN
  /\ call = Idle
  /\ file # << >>
  /\ call' = [op |-> "upload", file |-> file, declared |-> declared, size |-> size,
              result |-> upload_completed_push_to_target(
                           chunks(file, FileChunk), size, count)]

ShowCode(info, token) ==
  /\ call = Idle
  /\ info # << >>
  /\ call' = [op |-> "qr", info |-> info, token |-> token,
              read |-> decode_qr_payload(encode_qr_payload(info, token))]

PublishRecord(info, size) ==
  /\ call = Idle
  /\ size > 0
  /\ call' = [op |-> "txt", info |-> info,
              read |-> b64_decode(FlattenSeq(encode_txt_record(info, size)))]

Return ==
  /\ call # Idle
  /\ call' = Idle

Next ==
  \/ \E plain \in Content :
       \E cut \in 0 .. Len(encrypt_stream_for_client(plain)) : Stream(plain, cut)
  \/ \E file \in Content, declared \in 1 .. MaxLength, size \in Sizes :
       Upload(file, declared, size)
  \/ \E info \in Content, token \in Token : ShowCode(info, token)
  \/ \E info \in Content, size \in Sizes : PublishRecord(info, size)
  \/ Return

Spec == Init /\ [][Next]_call

-----------------------------------------------------------------------------
(* Properties *)

\* A stream that arrives whole is read back byte for byte; of one that was cut
\* off the reader either learns, or it was cut between two frames and the
\* reader has the plaintext of the frames before the cut and no way to know
\* (encrypt_stream_for_client, decrypt_stream_from_client).
StreamIsReadBack ==
  call.op = "stream" =>
    LET plain == call.plain
        got == call.read.bytes IN
    IF call.missing = 0 THEN call.read = Ok(plain)
    ELSE call.read.ok =>
           IsStrictPrefix(got, plain) /\ Len(got) % StreamChunk = 0

\* A target that agrees on the size of a file is sent all of it, in chunks of
\* its own size, whatever the sizes of the chunks it came in; and it is never
\* told that a file is complete of which it did not get every byte.  A target
\* with another idea of the size is refused as soon as the number of chunks
\* tells the two apart (upload_completed_push_to_target).
FileIsSentWhole ==
  call.op = "upload" =>
    LET result == call.result IN
    /\ result.ok =>
         /\ FlattenSeq(result.posted) = call.file
         /\ \A i \in 1 .. Len(result.posted) - 1 : Len(result.posted[i]) = call.size
         /\ Len(result.posted[Len(result.posted)]) \in 1 .. call.size
    /\ call.declared = Len(call.file) /\ call.size > 0 => result.ok

\* What a client reads from the QR code is the server's SyncInfo and the token
\* the code was made with, for every rotation; what it puts together from the
\* entries of the mDNS record is the same SyncInfo (encode_qr_payload,
\* decode_qr_payload, encode_txt_record).
SyncInfoIsRead ==
  /\ call.op = "qr" => call.read = <<call.info, call.token>>
  /\ call.op = "txt" => call.read = call.info

=============================================================================
