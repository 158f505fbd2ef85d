------------------------------ MODULE MCCodec ------------------------------
EXTENDS Codec

\* Bytes that are all different, so that an order is seen
Run(n, from) == [i \in 1..n |-> (from + i) % 256]

Here == [port |-> <<\h1F, \h90>>, host |-> <<192, 168, 0, 1>>]
There == [port |-> <<0, 53>>, host |-> <<8, 8, 4, 255>>]
Uid == <<255, 2, 3, 4, 5, 6, 7, 128>>
Peer(n) == [peerId |-> Run(n, 64), localAddress |-> Here, mappedAddress |-> There]

PeerList(n, length) ==
  FoldLeft(transactionProtocolAddPeerToObjectPeerList,
           transactionProtocolInitializeObjectPeerList, [i \in 1..n |-> Peer(length)])

Objects ==
  {[type |-> UserCreate.type, fields |-> <<Uid, Run(n, 0), Run(39, 30)>>] : n \in {0, 39}}
  \cup {[type |-> ResourceCreate.type, fields |-> <<Uid, Reverse(Uid), Run(n, 0)>>] :
          n \in {0, 1, 128}}
  \cup {[type |-> Online.type, fields |-> <<Uid, Here, There, <<1, 2, 3, 4>>>>]}
  \cup {[type |-> t, fields |-> <<Run(n, 5)>>] :
          t \in {Offline.type, ConnectRefuse.type, Disconnect.type}, n \in {0, 31}}
  \cup {[type |-> t, fields |-> <<Run(n, 5), There>>] :
          t \in {Connect.type, ConnectAccept.type}, n \in {0, 31}}
  \cup {PeerList(n, 3) : n \in {0, 1}} \cup {PeerList(n, 31) : n \in {4, 5}}
  \cup {[type |-> t, fields |-> << >>] : t \in {TransactionEmpty, \h11}}

Id == Run(12, 100)

MCMessage ==
  {[kind |-> "request", id |-> 255, object |-> o] : o \in Objects}
  \cup {[kind |-> "response", id |-> 7, type |-> t] : t \in {1, TransactionResponseTypeSuccess}}
  \cup {[kind |-> "stream", sequence |-> <<0, 0, 1, 255>>, ack |-> <<9, 8, 7, 6>>,
         ackBits |-> <<128, 0, 0, 1>>, tag |-> Uid, parts |-> p] :
          p \in {<< >>, <<Run(1, 0)>>, <<Run(200, 0), Run(31, 77)>>,
                 <<Run(200, 0), Run(32, 77), Run(5, 9)>>, <<Run(234, 0)>>}}
  \cup {[kind |-> "binding", transactionId |-> Id, host |-> FALSE, port |-> FALSE]}
  \cup {[kind |-> "change", transactionId |-> Id, host |-> h, port |-> TRUE] : h \in BOOLEAN}
  \cup {[kind |-> "numbers", word |-> <<1, 2, 3, 255>>,
         float |-> [negative |-> s, whole |-> w, fraction |-> f]] :
          s \in BOOLEAN, w \in {1, 255}, f \in {0, 65407}}

Attribute(type, value) == [type |-> type, value |-> value]

MCAttributes ==
  {<< >>,
   <<Attribute(StunAttributeMappedAddress, Here)>>,
   <<Attribute(StunAttributeXorMappedAddress, There), Attribute(\h8022, Run(8, 0)),
     Attribute(StunAttributeOtherAddress, Here), Attribute(StunAttributeOriginServer, There)>>,
   <<Attribute(StunAttributeAlternateServer, There), Attribute(StunAttributeAlternateServer, Here)>>,
   <<Attribute(StunAttributeErrorCode, <<0, 0, 4, 1>>)>>}

MCPast == {0, 1}
=============================================================================
