SPECIFICATION ProtocolSpec
CONSTANTS
    gpt4o = gpt4o
    claude = claude
    Models = {gpt4o, claude}
    EncodingOf <- MCEncodingOf
    MaxMessages = 3
    Conversations <- MCConversations
    MaxAttempts = 2
INVARIANTS
    ProtocolTypeOK
    ConversationKept
    PromptIsBilled
