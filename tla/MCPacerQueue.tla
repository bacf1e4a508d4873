---- MODULE MCPacerQueue ----
EXTENDS PacerQueue, TLC

RtpPacket(type, original_type, size, is_key_frame) ==
  [type |-> type, original_type |-> original_type, size |-> size,
   is_key_frame |-> is_key_frame]

\* Two levels with a time to live and one without.
MCRtpPackets == {RtpPacket("retransmission", "video", 1, FALSE),
                 RtpPacket("video", "none", 2, TRUE),
                 RtpPacket("audio", "none", 1, FALSE)}

MCTtl == [audio_retransmission |-> Infinite, video_retransmission |-> 1, video |-> 1]

SsrcSymmetry == Permutations(Ssrcs)
====
